------------------------ MODULE FilesProofs ------------------------
(***************************************************************************)
(* Theorems about the services that serve and write files, for every       *)
(* number of viewers, writers and uploads: the thumbnails, the video rooms,*)
(* the front ends that write, the multipart uploads; and the notices.      *)
(***************************************************************************)
EXTENDS MCServices, FiniteSetTheorems, SequenceTheorems, WellFoundedInduction, TLAPS

\* While a service has its turn its steps are its own, and otherwise it rests.
LEMMA Turns ==
  ASSUME [Next]_vars
  PROVE  /\ [ST!Next]_settingsvars /\ [AC!Next]_accountsvars /\ [GW!Next]_gatewayvars
         /\ [LS!Next]_listingvars /\ [TH!Next]_thumbsvars /\ [VR!Next]_roomvars
         /\ [NT!Next]_noticesvars /\ [WR!Next]_writersvars /\ [BK!Next]_backupvars
         /\ [AG!Next]_agentvars /\ [PL!Next]_pluginsvars
BY DEF Next, vars
-----------------------------------------------------------------------------
(* Thumbnails: get_or_create_thumb of virtual_fs/thumbnail.py.              *)

Making == {"native", "read", "tail", "frame", "again", "black", "store"}
Resting == [at : {"rest"}, hit : BOOLEAN]
Viewing == [at : Making \cup {"stat", "done", "failed"}, under : Stamps \cup {Missing},
            of : SUBSET Nat, hit : BOOLEAN, then : Nat]

\* A thumbnail being made is of versions not older than the one that was asked for, whose
\* stamp it will be filed under.
MadeRight(r, n, so) ==
    /\ r.at = "stat" => r.of = {}
    /\ r.at \in Making =>
        /\ r.under \in Stamps /\ r.then \in 1 .. n /\ so[r.then] = r.under
        /\ \A m \in r.of : m \in 1 .. n /\ m >= r.then
        /\ r.at \notin {"native", "read"} => r.of # {}

\* What a viewer is given is of a version not older than that, or filed under its stamp.
ServedRight(r, n, so) ==
    r.at = "done" =>
        /\ r.then \in 1 .. n
        /\ \A m \in r.of : m \in 1 .. n /\
            (m >= r.then \/ \E k \in 1 .. m : so[k] = r.under /\ so[r.then] = r.under)

ThumbsTyped ==
    /\ version \in 1 .. MaxVersions
    /\ stampof \in [1 .. MaxVersions -> Stamps \cup {Missing}]
    /\ thumbs \in [Stamps -> SUBSET (1 .. version)]
    /\ torn \subseteq {s \in Stamps : thumbs[s] # {}}
    /\ view \in [Viewers -> Resting \cup Viewing]
    /\ kind # Missing => \A n \in 1 .. version : stampof[n] \in Stamps
    /\ kind = Missing => /\ version = 1 /\ \A v \in Viewers : view[v].at = "rest"
                         /\ \A s \in Stamps : thumbs[s] = {}
ViewsRight == \A v \in Viewers : MadeRight(view[v], version, stampof) /\ ServedRight(view[v], version, stampof)
ThumbsInv == ThumbsTyped /\ TH!FiledRight /\ ViewsRight

\* A viewer goes on, and nothing else changes.
LEMMA ViewerGoesOn ==
  ASSUME ThumbsInv, NEW v \in Viewers, NEW r \in Viewing, TH!Goes(v, r), kind # Missing,
         MadeRight(r, version, stampof), ServedRight(r, version, stampof),
         UNCHANGED <<kind, version, stampof, thumbs, torn>>
  PROVE  ThumbsInv'
<1>1. /\ view' \in [Viewers -> Resting \cup Viewing] /\ view'[v] = r
      /\ \A u \in Viewers \ {v} : view'[u] = view[u]
  BY DEF TH!Goes, ThumbsInv, ThumbsTyped
<1>2. ThumbsTyped'
  BY <1>1 DEF ThumbsInv, ThumbsTyped
<1>3. TH!FiledRight'
  BY DEF ThumbsInv, TH!FiledRight
<1>4. ViewsRight'
  BY <1>1 DEF ThumbsInv, ViewsRight
<1>. QED
  BY <1>2, <1>3, <1>4 DEF ThumbsInv

\* One who reads, or goes on without.
LEMMA MakerGoesOn ==
  ASSUME ThumbsInv, NEW v \in Viewers, view[v].at \in Making,
         NEW at \in Making \cup {"failed"}, NEW of,
         \/ of = view[v].of /\ (view[v].at \in {"native", "read"} => at \in {"read", "failed"})
         \/ of = view[v].of \cup {version}
         \/ of = {version},
         TH!Goes(v, [view[v] EXCEPT !.at = at, !.of = of]),
         UNCHANGED <<kind, version, stampof, thumbs, torn>>
  PROVE  ThumbsInv'
<1> DEFINE r == [view[v] EXCEPT !.at = at, !.of = of]
<1>1. view[v] \in Viewing /\ kind # Missing /\ version \in Nat /\ version >= 1
  BY DEF ThumbsInv, ThumbsTyped, Resting, Making
<1>2. of \in SUBSET Nat
  BY <1>1 DEF Viewing
<1>3. r \in Viewing /\ r.at = at /\ r.of = of /\ r.under = view[v].under /\ r.then = view[v].then
  BY <1>1, <1>2 DEF Viewing, Making
<1> HIDE DEF r
<1>4. MadeRight(view[v], version, stampof)
  BY DEF ThumbsInv, ViewsRight
<1>5. /\ view[v].under \in Stamps /\ view[v].then \in 1 .. version
      /\ stampof[view[v].then] = view[v].under
      /\ \A m \in view[v].of : m \in 1 .. version /\ m >= view[v].then
      /\ view[v].at \notin {"native", "read"} => view[v].of # {}
  BY <1>4 DEF MadeRight
<1>6. \A m \in of : m \in 1 .. version /\ m >= view[v].then
  BY <1>1, <1>5
<1>7. at \in Making /\ at \notin {"native", "read"} => of # {}
  BY <1>5 DEF Making
<1>8. MadeRight(r, version, stampof)
  BY <1>3, <1>5, <1>6, <1>7 DEF MadeRight, Making
<1>9. ServedRight(r, version, stampof)
  BY <1>3 DEF ServedRight, Making
<1>. QED
  BY <1>1, <1>3, <1>8, <1>9, ViewerGoesOn DEF r

LEMMA ThumbMade ==
  ASSUME ThumbsInv, NEW v \in Viewers,
         \/ TH!Native(v) \/ TH!ReadImage(v) \/ TH!ReadHead(v) \/ TH!ReadTail(v) \/ TH!Frame(v)
         \/ TH!FrameAgain(v) \/ TH!FrameBlack(v)
  PROVE  ThumbsInv'
<1>1. view[v].at \in Making /\ UNCHANGED <<kind, version, stampof, thumbs, torn>>
  BY DEF TH!Native, TH!ReadImage, TH!ReadHead, TH!ReadTail, TH!Frame, TH!FrameAgain, TH!FrameBlack,
         TH!Is, TH!File, TH!Store, Making
<1>2. view[v] \in Viewing
  BY <1>1 DEF ThumbsInv, ThumbsTyped, Resting, Making
<1>3. ASSUME NEW at \in Making \cup {"failed"}, TH!At(v, at),
             view[v].at \in {"native", "read"} => at \in {"read", "failed"}
      PROVE  ThumbsInv'
  <2>1. [view[v] EXCEPT !.at = at] = [view[v] EXCEPT !.at = at, !.of = view[v].of]
    BY <1>2 DEF Viewing
  <2>. QED
    BY <1>1, <1>3, <2>1, MakerGoesOn DEF TH!At
<1>4. ASSUME NEW at \in Making, TH!Reads(v, at)
      PROVE  ThumbsInv'
  BY <1>1, <1>4, MakerGoesOn DEF TH!Reads
<1>5. ASSUME TH!Goes(v, [view[v] EXCEPT !.at = "store", !.of = {version}])
      PROVE  ThumbsInv'
  BY <1>1, <1>5, MakerGoesOn, Zenon DEF Making
<1>6. CASE TH!Native(v)
  BY <1>3, <1>4, <1>6 DEF TH!Native, TH!Is, Making
<1>7. CASE TH!ReadImage(v) \/ TH!ReadHead(v)
  BY <1>3, <1>4, <1>7 DEF TH!ReadImage, TH!ReadHead, TH!Is, Making
<1>8. CASE TH!ReadTail(v) \/ TH!Frame(v)
  BY <1>3, <1>4, <1>8 DEF TH!ReadTail, TH!Frame, TH!Is, Making
<1>9. CASE TH!FrameAgain(v) \/ TH!FrameBlack(v)
  BY <1>3, <1>4, <1>5, <1>9 DEF TH!FrameAgain, TH!FrameBlack, TH!Is, Making
<1>. QED
  BY <1>6, <1>7, <1>8, <1>9

LEMMA ThumbAsked ==
  ASSUME ThumbsInv, NEW v \in Viewers, TH!View(v)
  PROVE  ThumbsInv'
<1> DEFINE r == [at |-> "stat", under |-> Missing, of |-> {}, hit |-> FALSE, then |-> version]
<1>1. r \in Viewing /\ r.at = "stat"
  BY DEF Viewing, ThumbsInv, ThumbsTyped
<1>2. MadeRight(r, version, stampof) /\ ServedRight(r, version, stampof)
  BY DEF MadeRight, ServedRight, Making
<1>3. TH!Goes(v, r) /\ kind # Missing /\ UNCHANGED <<kind, version, stampof, thumbs, torn>>
  BY DEF TH!View, TH!File, TH!Store
<1> HIDE DEF r
<1>. QED
  BY <1>1, <1>2, <1>3, ViewerGoesOn

\* A thumbnail found is of a version with the file's stamp, or a later one.
LEMMA ThumbLooked ==
  ASSUME ThumbsInv, NEW v \in Viewers, TH!Stat(v)
  PROVE  ThumbsInv'
<1>1. view[v] \in Viewing /\ kind # Missing /\ version \in Nat /\ version >= 1
  BY DEF TH!Stat, TH!Is, ThumbsInv, ThumbsTyped, Resting
<1>2. stampof[version] \in Stamps /\ thumbs[stampof[version]] \subseteq 1 .. version
  BY <1>1 DEF ThumbsInv, ThumbsTyped
<1>3. UNCHANGED <<kind, version, stampof, thumbs, torn>>
  BY DEF TH!Stat, TH!File, TH!Store
<1>4. CASE thumbs[TH!Stamp] # {}
  <2> DEFINE r == [view[v] EXCEPT !.at = "done", !.hit = TRUE, !.under = TH!Stamp,
                                  !.of = thumbs[TH!Stamp], !.then = version]
  <2>0. TH!Stamp \in Stamps /\ thumbs[TH!Stamp] \in SUBSET Nat
    BY <1>1, <1>2 DEF TH!Stamp
  <2>1. r \in Viewing /\ r.at = "done" /\ r.under = TH!Stamp /\ r.of = thumbs[TH!Stamp] /\ r.then = version
    BY <1>1, <2>0 DEF Viewing
  <2>2. TH!Goes(v, r)
    BY <1>4 DEF TH!Stat
  <2> HIDE DEF r
  <2>3. PICK n \in 1 .. version :
            stampof[n] = TH!Stamp /\ \A m \in thumbs[TH!Stamp] : m >= n
    BY <1>2, <1>4 DEF ThumbsInv, TH!FiledRight, TH!Stamp
  <2>4. \A m \in r.of : m \in 1 .. version /\ n \in 1 .. m
    BY <1>1, <1>2, <2>1, <2>3 DEF TH!Stamp
  <2>5. ServedRight(r, version, stampof)
    BY <1>1, <2>1, <2>3, <2>4 DEF ServedRight, TH!Stamp
  <2>6. MadeRight(r, version, stampof)
    BY <2>1 DEF MadeRight, Making
  <2>. QED
    BY <1>1, <1>3, <2>1, <2>2, <2>5, <2>6, ViewerGoesOn
<1>5. CASE thumbs[TH!Stamp] = {}
  <2>1. PICK at \in {"read", "native"} :
            TH!Goes(v, [view[v] EXCEPT !.under = TH!Stamp, !.then = version, !.at = at])
    BY <1>5 DEF TH!Stat
  <2> DEFINE r == [view[v] EXCEPT !.under = TH!Stamp, !.then = version, !.at = at]
  <2>2. r \in Viewing /\ r.at = at /\ r.under = TH!Stamp /\ r.then = version /\ r.of = view[v].of
    BY <1>1, <1>2 DEF Viewing, TH!Stamp, Making
  <2>3. view[v].of = {}
    BY DEF ThumbsInv, ViewsRight, MadeRight, TH!Stat, TH!Is
  <2> HIDE DEF r
  <2>4. MadeRight(r, version, stampof)
    BY <1>1, <1>2, <2>2, <2>3 DEF MadeRight, TH!Stamp
  <2>5. ServedRight(r, version, stampof)
    BY <2>2 DEF ServedRight
  <2>. QED
    BY <1>1, <1>3, <2>1, <2>2, <2>4, <2>5, ViewerGoesOn DEF r
<1>. QED
  BY <1>4, <1>5

\* A thumbnail is filed, whole or in part.
LEMMA ThumbFiled ==
  ASSUME ThumbsInv, NEW v \in Viewers, view[v].at = "store", UNCHANGED <<kind, version, stampof>>,
         thumbs' = [thumbs EXCEPT ![view[v].under] = view[v].of],
         torn' \in {torn \ {view[v].under}, torn \cup {view[v].under}},
         view' \in [Viewers -> Resting \cup Viewing],
         \A u \in Viewers : MadeRight(view'[u], version, stampof) /\ ServedRight(view'[u], version, stampof)
  PROVE  ThumbsInv'
<1>1. view[v] \in Viewing /\ kind # Missing /\ version \in Nat
  BY DEF ThumbsInv, ThumbsTyped, Resting
<1>2. /\ view[v].under \in Stamps /\ view[v].then \in 1 .. version
      /\ stampof[view[v].then] = view[v].under
      /\ \A m \in view[v].of : m \in 1 .. version /\ m >= view[v].then
      /\ view[v].of # {}
  BY DEF ThumbsInv, ViewsRight, MadeRight, Making
<1>3. view[v].of \in SUBSET (1 .. version)
  BY <1>2
<1>4. /\ thumbs' \in [Stamps -> SUBSET (1 .. version)] /\ thumbs'[view[v].under] = view[v].of
      /\ \A s \in Stamps \ {view[v].under} : thumbs'[s] = thumbs[s]
  BY <1>2, <1>3 DEF ThumbsInv, ThumbsTyped
<1>5. ThumbsTyped'
  <2>1. torn' \subseteq {s \in Stamps : thumbs'[s] # {}}
    BY <1>2, <1>4 DEF ThumbsInv, ThumbsTyped
  <2>. QED
    BY <1>1, <1>4, <2>1 DEF ThumbsInv, ThumbsTyped
<1>6. TH!FiledRight'
  BY <1>2, <1>4 DEF ThumbsInv, TH!FiledRight
<1>. QED
  BY <1>5, <1>6 DEF ThumbsInv, ViewsRight

LEMMA ThumbStored ==
  ASSUME ThumbsInv, NEW v \in Viewers, TH!StoreThumb(v) \/ TH!Crash(v)
  PROVE  ThumbsInv'
<1>1. /\ view[v].at = "store" /\ UNCHANGED <<kind, version, stampof>>
      /\ thumbs' = [thumbs EXCEPT ![view[v].under] = view[v].of]
      /\ torn' \in {torn \ {view[v].under}, torn \cup {view[v].under}}
  BY DEF TH!StoreThumb, TH!Crash, TH!Is, TH!File
<1>2. \A u \in Viewers : view[u].at # "rest" => view[u] \in Viewing
  BY DEF ThumbsInv, ThumbsTyped, Resting
<1>3. \A u \in Viewers : MadeRight(view[u], version, stampof) /\ ServedRight(view[u], version, stampof)
  BY DEF ThumbsInv, ViewsRight
<1>4. CASE TH!StoreThumb(v)
  <2> DEFINE r == [view[v] EXCEPT !.at = "done"]
  <2>1. /\ r \in Viewing /\ r.at = "done" /\ r.of = view[v].of /\ r.under = view[v].under
        /\ r.then = view[v].then
    BY <1>1, <1>2 DEF Viewing
  <2>2. view' = [view EXCEPT ![v] = r]
    BY <1>4 DEF TH!StoreThumb, TH!At, TH!Goes
  <2> HIDE DEF r
  <2>3. view' \in [Viewers -> Resting \cup Viewing]
    BY <2>1, <2>2 DEF ThumbsInv, ThumbsTyped
  <2>4. MadeRight(r, version, stampof) /\ ServedRight(r, version, stampof)
    BY <1>1, <1>3, <2>1 DEF MadeRight, ServedRight, Making
  <2>5. \A u \in Viewers : MadeRight(view'[u], version, stampof) /\ ServedRight(view'[u], version, stampof)
    BY <1>3, <2>2, <2>4 DEF ThumbsInv, ThumbsTyped
  <2>. QED
    BY <1>1, <2>3, <2>5, ThumbFiled
<1>5. CASE TH!Crash(v)
  <2>1. view' = [u \in Viewers |-> IF view[u].at \in TH!Over THEN view[u]
                                   ELSE [view[u] EXCEPT !.at = "failed"]]
    BY <1>5 DEF TH!Crash
  <2>2. ASSUME NEW u \in Viewers, view[u].at \notin TH!Over
        PROVE  /\ [view[u] EXCEPT !.at = "failed"] \in Viewing
               /\ [view[u] EXCEPT !.at = "failed"].at = "failed"
    BY <1>2, <2>2 DEF Viewing, TH!Over
  <2>3. \A u \in Viewers : view'[u] \in Resting \cup Viewing
    BY <2>1, <2>2 DEF ThumbsInv, ThumbsTyped
  <2>4. view' \in [Viewers -> Resting \cup Viewing]
    BY <2>1, <2>3
  <2>5. \A u \in Viewers : view'[u] = view[u] \/ view'[u].at = "failed"
    BY <2>1, <2>2
  <2>6. \A u \in Viewers : MadeRight(view'[u], version, stampof) /\ ServedRight(view'[u], version, stampof)
    BY <1>3, <2>5 DEF MadeRight, ServedRight, Making
  <2>. QED
    BY <1>1, <2>4, <2>6, ThumbFiled
<1>. QED
  BY <1>4, <1>5

\* The file gets a new version, or is there for the first time.
LEMMA ThumbRewritten ==
  ASSUME ThumbsInv, NEW s \in Stamps, TH!Rewrite(s)
  PROVE  ThumbsInv'
<1>1. /\ version \in 1 .. MaxVersions /\ version' = version + 1 /\ version < MaxVersions
      /\ stampof' = [stampof EXCEPT ![version'] = s] /\ kind # Missing
      /\ UNCHANGED <<kind, thumbs, torn, view>>
  BY DEF TH!Rewrite, TH!Store, ThumbsInv, ThumbsTyped
<1>2. MaxVersions \in Nat /\ version' \in 1 .. MaxVersions /\ \A n \in 1 .. version : n \in 1 .. version' /\ n # version'
  BY <1>1, ThumbsAssumption
<1>3. /\ stampof' \in [1 .. MaxVersions -> Stamps \cup {Missing}] /\ stampof'[version'] = s
      /\ \A n \in 1 .. version : stampof'[n] = stampof[n]
  BY <1>1, <1>2 DEF ThumbsInv, ThumbsTyped
<1>4. ThumbsTyped'
  <2>1. \A n \in 1 .. version' : n \in 1 .. version \/ n = version'
    BY <1>1
  <2>2. \A n \in 1 .. version' : stampof'[n] \in Stamps
    BY <1>1, <1>3, <2>1 DEF ThumbsInv, ThumbsTyped
  <2>3. SUBSET (1 .. version) \subseteq SUBSET (1 .. version')
    BY <1>2
  <2>4. thumbs' \in [Stamps -> SUBSET (1 .. version')]
    BY <1>1, <2>3 DEF ThumbsInv, ThumbsTyped
  <2>. QED
    BY <1>1, <1>2, <1>3, <2>2, <2>4 DEF ThumbsInv, ThumbsTyped
<1>5. TH!FiledRight'
  BY <1>1, <1>2, <1>3 DEF ThumbsInv, TH!FiledRight
<1>6. ASSUME NEW v \in Viewers
      PROVE  MadeRight(view'[v], version', stampof') /\ ServedRight(view'[v], version', stampof')
  <2>1. MadeRight(view[v], version, stampof) /\ ServedRight(view[v], version, stampof) /\ view'[v] = view[v]
    BY <1>1 DEF ThumbsInv, ViewsRight
  <2>2. MadeRight(view'[v], version', stampof')
    BY <1>2, <1>3, <2>1 DEF MadeRight
  <2>3. \A m \in 1 .. version : \A k \in 1 .. m : k \in 1 .. version
    BY <1>1
  <2>4. ServedRight(view'[v], version', stampof')
    BY <1>2, <1>3, <2>1, <2>3 DEF ServedRight
  <2>. QED
    BY <2>2, <2>4
<1>. QED
  BY <1>4, <1>5, <1>6 DEF ThumbsInv, ViewsRight

LEMMA ThumbFileNamed ==
  ASSUME ThumbsInv, NEW k \in {"image", "video", "other"}, NEW n, NEW s \in Stamps, TH!ThumbSetup(k, n, s)
  PROVE  ThumbsInv'
<1>1. /\ kind = Missing /\ version = 1 /\ kind' = k /\ stampof' = [stampof EXCEPT ![1] = s]
      /\ UNCHANGED <<version, thumbs, torn, view>> /\ kind' # Missing /\ 1 \in 1 .. MaxVersions
  BY ThumbsAssumption DEF TH!ThumbSetup, TH!Store, ThumbsInv, ThumbsTyped
<1>2. \A v \in Viewers : view[v].at = "rest"
  BY <1>1 DEF ThumbsInv, ThumbsTyped
<1>3. /\ stampof' \in [1 .. MaxVersions -> Stamps \cup {Missing}] /\ stampof'[1] = s
      /\ \A i \in 1 .. version' : i = 1
  BY <1>1 DEF ThumbsInv, ThumbsTyped
<1>4. ThumbsTyped'
  BY <1>1, <1>3 DEF ThumbsInv, ThumbsTyped
<1>5. TH!FiledRight'
  BY <1>1 DEF TH!FiledRight, ThumbsInv, ThumbsTyped
<1>6. ViewsRight'
  BY <1>1, <1>2 DEF ViewsRight, MadeRight, ServedRight, Making
<1>. QED
  BY <1>4, <1>5, <1>6 DEF ThumbsInv

\* A thumbnail is filed under the stamp of what it shows, and a viewer is shown the file as it
\* was when he asked, or later: whatever the number of viewers and of the file's versions, and
\* though a crash cuts a thumbnail off (virtual_fs/thumbnail.py).
THEOREM ThumbsAreFresh == Spec => []ThumbsFresh
<1>1. Init => ThumbsInv
  <2> SUFFICES ASSUME TH!Init PROVE ThumbsInv
    BY DEF Init
  <2>1. \A v \in Viewers : view[v] \in Resting /\ view[v].at = "rest"
    BY DEF TH!Init, Resting
  <2>2. ThumbsTyped
    BY <2>1, ThumbsAssumption DEF TH!Init, ThumbsTyped
  <2>3. TH!FiledRight
    BY DEF TH!Init, TH!FiledRight
  <2>4. ViewsRight
    BY <2>1 DEF ViewsRight, MadeRight, ServedRight, Making
  <2>. QED
    BY <2>2, <2>3, <2>4 DEF ThumbsInv
<1>2. ThumbsInv /\ [Next]_vars => ThumbsInv'
  <2> SUFFICES ASSUME ThumbsInv, [TH!Next]_thumbsvars PROVE ThumbsInv'
    BY Turns
  <2>1. ASSUME NEW v \in Viewers,
               \/ TH!View(v) \/ TH!Stat(v) \/ TH!Native(v) \/ TH!ReadImage(v) \/ TH!ReadHead(v)
               \/ TH!ReadTail(v) \/ TH!Frame(v) \/ TH!FrameAgain(v) \/ TH!FrameBlack(v)
               \/ TH!StoreThumb(v) \/ TH!Crash(v)
        PROVE  ThumbsInv'
    BY <2>1, ThumbAsked, ThumbLooked, ThumbMade, ThumbStored
  <2>2. CASE UNCHANGED thumbsvars
    <3>1. UNCHANGED <<kind, version, stampof, thumbs, torn, view>>
      BY <2>2 DEF thumbsvars
    <3>. QED
      BY <3>1 DEF ThumbsInv, ThumbsTyped, TH!FiledRight, ViewsRight
  <2>. QED
    BY <2>1, <2>2, ThumbRewritten, ThumbFileNamed DEF TH!Next
<1>3. ThumbsInv => ThumbsFresh
  <2> SUFFICES ASSUME ThumbsInv PROVE TH!TypeOK /\ TH!FiledRight /\ TH!ServedIsFresh
    BY DEF ThumbsFresh
  <2>1. TH!TypeOK
    <3>1. \A v \in Viewers : view[v].at \in TH!Over \cup {"stat"} \cup Making
      BY DEF ThumbsInv, ThumbsTyped, Resting, Viewing, TH!Over
    <3>. QED
      BY <3>1 DEF TH!TypeOK, ThumbsInv, ThumbsTyped, Making
  <2>2. TH!ServedIsFresh
    BY DEF TH!ServedIsFresh, TH!Is, ThumbsInv, ViewsRight, ServedRight
  <2>. QED
    BY <2>1, <2>2 DEF ThumbsInv
<1>. QED
  BY <1>1, <1>2, <1>3, PTL DEF Spec
-----------------------------------------------------------------------------
(* Video rooms: video_rooms/api.py and ws.py.                               *)

Handlers == [at : {"out", "loop", "closed"}]
            \cup [at : {"accept", "greet"}, row : 0 .. MaxStates]
            \cup [at : {"save", "saved"}, k : 1 .. MaxStates]
            \cup [at : {"cast"}, k : 1 .. MaxStates, rest : SUBSET Watchers]
Busy == {"save", "saved", "cast"}

RoomTyped ==
    /\ room \in 0 .. MaxStates /\ states \in 0 .. MaxStates /\ sockets \subseteq Watchers
    /\ desk \in [Watchers -> Handlers]
    /\ shown \in [Watchers -> 0 .. MaxStates]
    /\ mail \in [Watchers -> 1 .. MaxStates \cup {Silent}]
    /\ apart \subseteq Watchers /\ mixed \in BOOLEAN
    /\ \A c \in Watchers :
        /\ desk[c].at \in Busy \cup {"greet", "loop"} => c \in sockets
        /\ desk[c].at = "cast" => c \notin desk[c].rest
        /\ mail[c] # Silent => desk[c].at \in Busy \cup {"loop"}

\* Changes that overlap set everybody apart, until none is under way.
Overlapping ==
    /\ mixed => apart = Watchers /\ VR!Changing # {}
    /\ ~mixed => \A c, d \in VR!Changing : c = d

\* A broadcast under way will reach the viewer.
Awaits(d) == \E c \in Watchers \ {d} :
    \/ desk[c].at = "saved"
    \/ desk[c].at = "cast" /\ d \in desk[c].rest

\* Everybody shows the state of the row, or is known to be apart, or made a change himself
\* that is on its way, or will hear of one.
ViewersRight ==
    /\ \A d \in VR!Entering : desk[d].row = room \/ d \in apart
    /\ \A d \in Watchers : desk[d].at = "loop" =>
            shown[d] = room \/ d \in apart \/ d \in VR!Changing \/ Awaits(d)

\* A change alone is what its viewer shows, and, once saved, what the row says.
ChangerRight ==
    ~mixed => \A c \in Watchers :
        /\ desk[c].at \in {"saved", "cast"} => desk[c].k = room
        /\ desk[c].at \in Busy /\ mail[c] = Silent => shown[c] = desk[c].k
        /\ mail[c] # Silent => shown[c] = mail[c]

RoomInv == RoomTyped /\ Overlapping /\ ViewersRight /\ ChangerRight

\* What a handler holds at each of its steps.
LEMMA HandlerKinds ==
  ASSUME RoomTyped, NEW c \in Watchers
  PROVE  /\ desk[c].at \in Busy \cup {"out", "loop", "closed", "accept", "greet"}
         /\ desk[c].at \in {"accept", "greet"} =>
                desk[c].row \in 0 .. MaxStates /\ desk[c] = [at |-> desk[c].at, row |-> desk[c].row]
         /\ desk[c].at \in {"save", "saved"} =>
                desk[c].k \in 1 .. MaxStates /\ desk[c] = [at |-> desk[c].at, k |-> desk[c].k]
         /\ desk[c].at = "cast" =>
                /\ desk[c].k \in 1 .. MaxStates /\ desk[c].rest \subseteq Watchers
                /\ desk[c] = [at |-> "cast", k |-> desk[c].k, rest |-> desk[c].rest]
<1>1. desk[c] \in Handlers
  BY DEF RoomTyped
<1>. QED
  BY <1>1 DEF Handlers, Busy

\* One handler goes on.
LEMMA HandlerGoesOn ==
  ASSUME RoomTyped, NEW c \in Watchers, NEW r \in Handlers, VR!Goes(c, r)
  PROVE  desk' \in [Watchers -> Handlers] /\ desk'[c] = r /\ \A d \in Watchers \ {c} : desk'[d] = desk[d]
BY DEF VR!Goes, RoomTyped

\* What a step does to who changes: only a new change adds to them.
LEMMA ChangersStep ==
  ASSUME RoomInv, RoomTyped', VR!Step,
         mixed' = (VR!Changing' # {} /\ (mixed \/ \E c, d \in VR!Changing' : c # d)),
         VR!Changing' \subseteq VR!Changing \/ \E c \in Watchers : VR!Change(c)
  PROVE  Overlapping' /\ (mixed => apart' = Watchers) /\ (mixed' => apart' = Watchers)
<1>3. mixed => apart' = Watchers
  <2> SUFFICES ASSUME mixed PROVE apart' = Watchers
    OBVIOUS
  <2>1. apart = Watchers /\ VR!Changing # {} /\ apart' \subseteq Watchers
    BY DEF RoomInv, Overlapping, RoomTyped
  <2>2. UNCHANGED apart \/ apart' = Watchers \/ apart' = apart \cup VR!Entering
    BY <2>1 DEF VR!Step, VR!Connect, VR!Accept, VR!Greet, VR!Change, VR!Receive, VR!UpdateState,
                VR!Broadcast, VR!Sent, VR!Leave, VR!SaveFails, VR!Disconnect, VR!Send
  <2>. QED
    BY <2>1, <2>2
<1>4. ASSUME ~mixed, mixed' PROVE apart' = Watchers
  <2>1. PICK a \in VR!Changing', b \in VR!Changing' : a # b
    BY <1>4
  <2>2. ~(VR!Changing' \subseteq VR!Changing)
    BY <1>4, <2>1 DEF RoomInv, Overlapping
  <2>3. PICK c \in Watchers : VR!Change(c)
    BY <2>2
  <2>4. \A d \in Watchers \ {c} : desk' = desk /\ mail'[d] = mail[d]
    BY <2>3 DEF VR!Change, RoomInv, RoomTyped
  <2>5. VR!Changing' \subseteq VR!Changing \cup {c}
    BY <2>4 DEF VR!Changing
  <2>6. ~(VR!Changing \subseteq {c})
    BY <1>4, <2>1, <2>5 DEF RoomInv, Overlapping
  <2>. QED
    BY <2>3, <2>6 DEF VR!Change
<1>5. mixed' \in BOOLEAN
  BY DEF RoomTyped
<1>. QED
  BY <1>3, <1>4, <1>5 DEF Overlapping, RoomInv, RoomTyped

\* What every step keeps to be shown of it: its own kind, and who is in step after it, if not
\* everybody is apart.
LEMMA RoomStep ==
  ASSUME RoomInv, RoomTyped', VR!Step,
         mixed' = (VR!Changing' # {} /\ (mixed \/ \E c, d \in VR!Changing' : c # d)),
         VR!Changing' \subseteq VR!Changing \/ \E c \in Watchers : VR!Change(c),
         ~mixed => ViewersRight' /\ ChangerRight'
  PROVE  RoomInv'
<1>1. Overlapping' /\ (mixed => apart' = Watchers)
  BY ChangersStep
<1>2. CASE mixed
  <2>1. ViewersRight'
    BY <1>1, <1>2 DEF ViewersRight, VR!Entering
  <2>2. mixed' \/ VR!Changing' = {}
    BY <1>2
  <2>3. ChangerRight'
    BY <2>2 DEF ChangerRight, VR!Changing, Busy
  <2>. QED
    BY <1>1, <2>1, <2>3 DEF RoomInv
<1>. QED
  BY <1>1, <1>2 DEF RoomInv, RoomTyped

LEMMA RoomTypes ==
  ASSUME RoomInv, VR!Step, mixed' \in BOOLEAN
  PROVE  RoomTyped' /\ (VR!Changing' \subseteq VR!Changing \/ \E c \in Watchers : VR!Change(c))
<1> USE DEF VR!Is, VR!Outside
<1>0. RoomTyped /\ MaxStates \in Nat /\ Silent \notin 0 .. MaxStates
  BY RoomAssumption DEF RoomInv
<1>1. ASSUME NEW c \in Watchers, VR!Connect(c)
      PROVE  RoomTyped' /\ VR!Changing' \subseteq VR!Changing
  <2>1. [at |-> "accept", row |-> room] \in Handlers
    BY <1>0 DEF Handlers, RoomTyped
  <2>2. /\ desk' \in [Watchers -> Handlers] /\ desk'[c].at = "accept"
        /\ \A d \in Watchers \ {c} : desk'[d] = desk[d]
    BY <1>0, <1>1, <2>1, HandlerGoesOn DEF VR!Connect
  <2>3. RoomTyped'
    BY <1>0, <1>1, <2>2 DEF VR!Connect, RoomTyped, Busy
  <2>. QED
    BY <1>1, <2>2, <2>3 DEF VR!Connect, VR!Changing
<1>2. ASSUME NEW c \in Watchers, VR!Accept(c)
      PROVE  RoomTyped' /\ VR!Changing' \subseteq VR!Changing
  <2>1. [desk[c] EXCEPT !.at = "greet"] \in Handlers /\ [desk[c] EXCEPT !.at = "greet"].at = "greet"
    <3>1. desk[c].row \in 0 .. MaxStates /\ desk[c] = [at |-> desk[c].at, row |-> desk[c].row]
      BY <1>0, <1>2, HandlerKinds DEF VR!Accept
    <3>. QED
      BY <3>1 DEF Handlers
  <2>2. /\ desk' \in [Watchers -> Handlers] /\ desk'[c].at = "greet"
        /\ \A d \in Watchers \ {c} : desk'[d] = desk[d]
    BY <1>0, <1>2, <2>1, HandlerGoesOn DEF VR!Accept
  <2>3. RoomTyped'
    BY <1>0, <1>2, <2>2 DEF VR!Accept, RoomTyped, Busy
  <2>. QED
    BY <1>2, <2>2, <2>3 DEF VR!Accept, VR!Changing
<1>3. ASSUME NEW c \in Watchers, VR!Greet(c) \/ VR!Sent(c)
      PROVE  RoomTyped' /\ VR!Changing' \subseteq VR!Changing
  <2>1. [at |-> "loop"] \in Handlers
    BY DEF Handlers
  <2>2. /\ desk' \in [Watchers -> Handlers] /\ desk'[c].at = "loop"
        /\ \A d \in Watchers \ {c} : desk'[d] = desk[d]
    BY <1>0, <1>3, <2>1, HandlerGoesOn DEF VR!Greet, VR!Sent
  <2>3. shown' \in [Watchers -> 0 .. MaxStates]
    <3>1. VR!Greet(c) => desk[c].row \in 0 .. MaxStates
      BY <1>0, HandlerKinds DEF VR!Greet
    <3>. QED
      BY <1>0, <1>3, <3>1 DEF VR!Greet, VR!Sent, RoomTyped
  <2>4. RoomTyped'
    BY <1>0, <1>3, <2>2, <2>3 DEF VR!Greet, VR!Sent, RoomTyped, Busy
  <2>. QED
    BY <1>3, <2>2, <2>4 DEF VR!Greet, VR!Sent, VR!Changing
<1>4. ASSUME NEW c \in Watchers, VR!Change(c)
      PROVE  RoomTyped'
  <2>1. states + 1 \in 0 .. MaxStates /\ states + 1 \in 1 .. MaxStates
    BY <1>0, <1>4 DEF VR!Change, RoomTyped
  <2>. QED
    BY <1>0, <1>4, <2>1 DEF VR!Change, RoomTyped, Busy
<1>5. ASSUME NEW c \in Watchers, VR!Receive(c)
      PROVE  RoomTyped' /\ VR!Changing' \subseteq VR!Changing
  <2>1. [at |-> "save", k |-> mail[c]] \in Handlers
    BY <1>0, <1>5 DEF VR!Receive, RoomTyped, Handlers
  <2>2. /\ desk' \in [Watchers -> Handlers] /\ desk'[c].at = "save"
        /\ \A d \in Watchers \ {c} : desk'[d] = desk[d]
    BY <1>0, <1>5, <2>1, HandlerGoesOn DEF VR!Receive
  <2>3. RoomTyped'
    BY <1>0, <1>5, <2>2 DEF VR!Receive, RoomTyped, Busy
  <2>. QED
    BY <1>0, <1>5, <2>2, <2>3 DEF VR!Receive, VR!Changing, RoomTyped
<1>6. ASSUME NEW c \in Watchers, VR!UpdateState(c)
      PROVE  RoomTyped' /\ VR!Changing' \subseteq VR!Changing
  <2>0. desk[c].k \in 1 .. MaxStates /\ desk[c] = [at |-> desk[c].at, k |-> desk[c].k]
    BY <1>0, <1>6, HandlerKinds DEF VR!UpdateState
  <2>1. [desk[c] EXCEPT !.at = "saved"] \in Handlers /\ [desk[c] EXCEPT !.at = "saved"].at = "saved"
    BY <2>0 DEF Handlers
  <2>2. /\ desk' \in [Watchers -> Handlers] /\ desk'[c].at = "saved"
        /\ \A d \in Watchers \ {c} : desk'[d] = desk[d]
    BY <1>0, <1>6, <2>1, HandlerGoesOn DEF VR!UpdateState
  <2>3. RoomTyped'
    BY <1>0, <1>6, <2>0, <2>2 DEF VR!UpdateState, VR!Entering, RoomTyped, Busy
  <2>. QED
    BY <1>6, <2>2, <2>3 DEF VR!UpdateState, VR!Changing
<1>7. ASSUME NEW c \in Watchers, VR!Broadcast(c)
      PROVE  RoomTyped' /\ VR!Changing' \subseteq VR!Changing
  <2> DEFINE r == [at |-> "cast", k |-> desk[c].k, rest |-> sockets \ {c}]
  <2>1. desk[c].k \in 1 .. MaxStates
    BY <1>0, <1>7, HandlerKinds DEF VR!Broadcast
  <2>2. r \in Handlers /\ r.at = "cast" /\ r.rest = sockets \ {c}
    BY <1>0, <2>1 DEF Handlers, RoomTyped
  <2>3. VR!Goes(c, r)
    BY <1>7 DEF VR!Broadcast
  <2> HIDE DEF r
  <2>4. /\ desk' \in [Watchers -> Handlers] /\ desk'[c].at = "cast" /\ desk'[c].rest = sockets \ {c}
        /\ \A d \in Watchers \ {c} : desk'[d] = desk[d]
    BY <1>0, <2>2, <2>3, HandlerGoesOn
  <2>5. RoomTyped'
    BY <1>0, <1>7, <2>4 DEF VR!Broadcast, RoomTyped, Busy
  <2>. QED
    BY <1>7, <2>4, <2>5 DEF VR!Broadcast, VR!Changing
<1>8. ASSUME NEW c \in Watchers, NEW d \in Watchers, VR!Send(c, d)
      PROVE  RoomTyped' /\ VR!Changing' \subseteq VR!Changing
  <2> DEFINE r == [desk[c] EXCEPT !.rest = @ \ {d}]
  <2>1. /\ desk[c].k \in 1 .. MaxStates /\ desk[c].rest \subseteq Watchers
        /\ desk[c] = [at |-> "cast", k |-> desk[c].k, rest |-> desk[c].rest]
    BY <1>0, <1>8, HandlerKinds DEF VR!Send
  <2>2. r \in Handlers /\ r.at = "cast" /\ r.rest = desk[c].rest \ {d}
    BY <2>1 DEF Handlers
  <2>3. VR!Goes(c, r)
    BY <1>8 DEF VR!Send
  <2> HIDE DEF r
  <2>4. /\ desk' \in [Watchers -> Handlers] /\ desk'[c].at = "cast"
        /\ desk'[c].rest = desk[c].rest \ {d} /\ \A e \in Watchers \ {c} : desk'[e] = desk[e]
    BY <1>0, <2>2, <2>3, HandlerGoesOn
  <2>5. /\ shown' \in [Watchers -> 0 .. MaxStates] /\ sockets' \subseteq Watchers
        /\ \A e \in sockets : e \in sockets' \/ desk[e].at \in {"out", "closed"}
    BY <1>0, <1>8, <2>1 DEF VR!Send, RoomTyped
  <2>6. desk[c].at = "cast"
    BY <1>8 DEF VR!Send
  <2>7. RoomTyped'
    BY <1>0, <1>8, <2>4, <2>5, <2>6 DEF VR!Send, RoomTyped, Busy
  <2>. QED
    BY <1>8, <2>4, <2>6, <2>7 DEF VR!Send, VR!Changing
<1>9. ASSUME NEW c \in Watchers, VR!Leave(c) \/ VR!SaveFails(c) \/ VR!Disconnect(c)
      PROVE  RoomTyped' /\ VR!Changing' \subseteq VR!Changing
  <2>1. PICK at \in {"closed", "out"} : VR!Goes(c, [at |-> at])
    BY <1>9 DEF VR!Leave, VR!SaveFails, VR!Disconnect
  <2>2. [at |-> at] \in Handlers
    BY DEF Handlers
  <2>3. /\ desk' \in [Watchers -> Handlers] /\ desk'[c].at \in {"out", "closed"}
        /\ \A d \in Watchers \ {c} : desk'[d] = desk[d]
    BY <1>0, <2>1, <2>2, HandlerGoesOn
  <2>4. /\ mail' \in [Watchers -> 1 .. MaxStates \cup {Silent}] /\ mail'[c] = Silent
        /\ \A d \in Watchers \ {c} : mail'[d] = mail[d]
    BY <1>0, <1>9 DEF VR!Leave, VR!SaveFails, VR!Disconnect, RoomTyped, Busy
  <2>5. sockets' \subseteq Watchers /\ \A d \in sockets : d \in sockets' \/ d = c
    BY <1>0, <1>9 DEF VR!Leave, VR!SaveFails, VR!Disconnect, RoomTyped
  <2>6. UNCHANGED <<room, shown, states, apart>>
    BY <1>9 DEF VR!Leave, VR!SaveFails, VR!Disconnect
  <2>7. RoomTyped'
    BY <1>0, <2>3, <2>4, <2>5, <2>6 DEF RoomTyped, Busy
  <2>. QED
    BY <2>3, <2>4, <2>7 DEF VR!Changing
<1>. QED
  BY <1>1, <1>2, <1>3, <1>4, <1>5, <1>6, <1>7, <1>8, <1>9 DEF VR!Step

\* Whoever is not concerned stays in step.
LEMMA OthersInStep ==
  ASSUME ViewersRight, NEW c \in Watchers,
         \A d \in Watchers \ {c} : desk'[d] = desk[d] /\ shown'[d] = shown[d] /\ mail'[d] = mail[d],
         room' = room, apart \ {c} \subseteq apart',
         \A d \in Watchers \ {c} : desk[d].at = "loop" /\ Awaits(d) => Awaits(d)',
         desk'[c].at \in {"accept", "greet"} => desk'[c].row = room \/ c \in apart',
         desk'[c].at = "loop" => shown'[c] = room \/ c \in apart' \/ c \in VR!Changing' \/ Awaits(c)'
  PROVE  ViewersRight'
<1>1. ASSUME NEW d \in VR!Entering' PROVE desk'[d].row = room' \/ d \in apart'
  <2>1. d \in Watchers /\ desk'[d].at \in {"accept", "greet"}
    BY DEF VR!Entering
  <2>2. CASE d # c
    BY <2>1, <2>2 DEF VR!Entering, ViewersRight
  <2>. QED
    BY <2>1, <2>2
<1>2. ASSUME NEW d \in Watchers, desk'[d].at = "loop"
      PROVE  shown'[d] = room' \/ d \in apart' \/ d \in VR!Changing' \/ Awaits(d)'
  <2>1. CASE d # c
    <3>1. d \in VR!Changing => d \in VR!Changing'
      BY <2>1 DEF VR!Changing
    <3>. QED
      BY <1>2, <2>1, <3>1 DEF ViewersRight
  <2>. QED
    BY <1>2, <2>1
<1>. QED
  BY <1>1, <1>2 DEF ViewersRight

\* While no changes have overlapped every step keeps the viewers in step.
LEMMA AloneKeeps ==
  ASSUME RoomInv, ~mixed, VR!Step, RoomTyped', Overlapping', mixed' => apart' = Watchers
  PROVE  ViewersRight' /\ ChangerRight'
<1> USE DEF VR!Is, VR!Outside
<1>0. /\ RoomTyped /\ ViewersRight /\ ChangerRight /\ \A c, d \in VR!Changing : c = d
      /\ Silent \notin 0 .. MaxStates
  BY RoomAssumption DEF RoomInv, Overlapping
<1>f. desk \in [Watchers -> Handlers] /\ shown \in [Watchers -> 0 .. MaxStates]
      /\ mail \in [Watchers -> 1 .. MaxStates \cup {Silent}]
  BY <1>0 DEF RoomTyped
<1>1. ASSUME NEW c \in Watchers, VR!Connect(c)
      PROVE  ViewersRight' /\ ChangerRight'
  <2>1. /\ desk'[c] = [at |-> "accept", row |-> room] /\ \A d \in Watchers \ {c} : desk'[d] = desk[d]
        /\ UNCHANGED <<room, sockets, shown, mail>> /\ desk[c].at = "out"
        /\ apart' \in {apart, apart \ {c}}
    BY <1>f, <1>1 DEF VR!Connect, VR!Goes
  <2>2. VR!Changing' = VR!Changing
    <3>1. mail[c] = Silent
      BY <1>0, <2>1 DEF RoomTyped, Busy
    <3>. QED
      BY <2>1, <3>1 DEF VR!Changing
  <2>3. \A d \in Watchers : Awaits(d) => Awaits(d)'
    BY <2>1 DEF Awaits
  <2>4. ViewersRight'
    BY <1>0, <2>1, <2>3, OthersInStep
  <2>5. ChangerRight'
    BY <1>0, <2>1 DEF ChangerRight, RoomTyped, Busy
  <2>. QED
    BY <2>4, <2>5
<1>2. ASSUME NEW c \in Watchers, VR!Accept(c)
      PROVE  ViewersRight' /\ ChangerRight'
  <2>1. /\ desk'[c].at = "greet" /\ desk'[c].row = desk[c].row
        /\ \A d \in Watchers \ {c} : desk'[d] = desk[d]
        /\ UNCHANGED <<room, shown, mail, apart>> /\ desk[c].at = "accept"
    <3>1. desk[c] = [at |-> desk[c].at, row |-> desk[c].row]
      BY <1>0, <1>2, HandlerKinds DEF VR!Accept
    <3>. QED
      BY <1>f, <1>2, <3>1 DEF VR!Accept, VR!Goes
  <2>2. VR!Changing' = VR!Changing /\ VR!Entering' = VR!Entering
    BY <2>1 DEF VR!Changing, VR!Entering
  <2>3. \A d \in Watchers : Awaits(d) => Awaits(d)'
    BY <2>1 DEF Awaits
  <2>4. ViewersRight'
    <3>1. desk[c].row = room \/ c \in apart
      BY <1>0, <2>1 DEF ViewersRight, VR!Entering
    <3>. QED
      BY <1>0, <2>1, <2>3, <3>1, OthersInStep
  <2>5. ChangerRight'
    BY <1>0, <2>1 DEF ChangerRight, RoomTyped, Busy
  <2>. QED
    BY <2>4, <2>5
<1>3. ASSUME NEW c \in Watchers, VR!Greet(c)
      PROVE  ViewersRight' /\ ChangerRight'
  <2>1. /\ desk'[c].at = "loop" /\ \A d \in Watchers \ {c} : desk'[d] = desk[d]
        /\ shown'[c] = desk[c].row /\ \A d \in Watchers \ {c} : shown'[d] = shown[d]
        /\ UNCHANGED <<room, sockets, mail, apart>> /\ desk[c].at = "greet"
    BY <1>f, <1>3 DEF VR!Greet, VR!Goes
  <2>2. VR!Changing' = VR!Changing /\ \A d \in VR!Entering' : d \in VR!Entering /\ d # c
    BY <2>1 DEF VR!Changing, VR!Entering
  <2>3. \A d \in Watchers : Awaits(d) => Awaits(d)'
    BY <2>1 DEF Awaits
  <2>4. ViewersRight'
    <3>1. desk[c].row = room \/ c \in apart
      BY <1>0, <2>1 DEF ViewersRight, VR!Entering
    <3>. QED
      BY <1>0, <2>1, <2>3, <3>1, OthersInStep
  <2>5. ChangerRight'
    BY <1>0, <2>1 DEF ChangerRight, RoomTyped, Busy
  <2>. QED
    BY <2>4, <2>5
<1>4. ASSUME NEW c \in Watchers, VR!Change(c)
      PROVE  ViewersRight' /\ ChangerRight'
  <2>1. /\ UNCHANGED <<room, sockets, desk>> /\ mail[c] = Silent /\ desk[c].at \in Busy \cup {"loop"}
        /\ shown'[c] = states' /\ mail'[c] = states'
        /\ \A d \in Watchers \ {c} : shown'[d] = shown[d] /\ mail'[d] = mail[d]
        /\ apart' = IF VR!Changing \subseteq {c} THEN apart ELSE Watchers
    BY <1>f, <1>4 DEF VR!Change, Busy
  <2>2. VR!Changing' = VR!Changing \cup {c}
    <3>1. states' # Silent
      BY <1>0, <2>1 DEF RoomTyped
    <3>. QED
      BY <2>1, <3>1 DEF VR!Changing
  <2>3. \A d \in Watchers : Awaits(d) => Awaits(d)'
    BY <2>1 DEF Awaits
  <2>4. ViewersRight'
    <3>1. VR!Entering' = VR!Entering /\ apart \subseteq apart'
      BY <1>0, <2>1 DEF VR!Entering, RoomTyped
    <3>. QED
      BY <1>0, <2>1, <2>2, <2>3, <3>1 DEF ViewersRight
  <2>5. ChangerRight'
    <3>1. states' # Silent
      BY <1>0, <2>1 DEF RoomTyped
    <3>. QED
      BY <1>0, <2>1, <3>1 DEF ChangerRight
  <2>. QED
    BY <2>4, <2>5
<1>5. ASSUME NEW c \in Watchers, VR!Receive(c)
      PROVE  ViewersRight' /\ ChangerRight'
  <2>1. /\ desk'[c] = [at |-> "save", k |-> mail[c]] /\ \A d \in Watchers \ {c} : desk'[d] = desk[d]
        /\ mail'[c] = Silent /\ \A d \in Watchers \ {c} : mail'[d] = mail[d]
        /\ UNCHANGED <<room, sockets, shown, apart>> /\ desk[c].at = "loop" /\ mail[c] # Silent
    BY <1>f, <1>5 DEF VR!Receive, VR!Goes
  <2>2. VR!Changing' = VR!Changing /\ VR!Entering' = VR!Entering
    BY <2>1 DEF VR!Changing, VR!Entering
  <2>3. \A d \in Watchers : Awaits(d) => Awaits(d)'
    BY <2>1 DEF Awaits
  <2>4. ViewersRight'
    BY <1>0, <2>1, <2>3, OthersInStep
  <2>5. ChangerRight'
    BY <1>0, <2>1 DEF ChangerRight
  <2>. QED
    BY <2>4, <2>5
<1>6. ASSUME NEW c \in Watchers, VR!UpdateState(c)
      PROVE  ViewersRight' /\ ChangerRight'
  <2>1. /\ desk'[c].at = "saved" /\ desk'[c].k = desk[c].k
        /\ \A d \in Watchers \ {c} : desk'[d] = desk[d]
        /\ UNCHANGED <<sockets, shown, mail>> /\ desk[c].at = "save" /\ room' = desk[c].k
        /\ apart' = VR!Entering
    <3>1. desk[c] = [at |-> desk[c].at, k |-> desk[c].k]
      BY <1>0, <1>6, HandlerKinds DEF VR!UpdateState
    <3>. QED
      BY <1>f, <1>6, <3>1 DEF VR!UpdateState, VR!Goes
  <2>2. VR!Changing' = VR!Changing /\ VR!Entering' = VR!Entering /\ c \in VR!Changing
    BY <2>1 DEF VR!Changing, VR!Entering
  <2>3. \A d \in Watchers \ {c} : Awaits(d)'
    BY <2>1 DEF Awaits
  <2>4. ViewersRight'
    BY <2>1, <2>2, <2>3 DEF ViewersRight
  <2>5. \A d \in Watchers \ {c} : d \notin VR!Changing
    BY <1>0, <2>2
  <2>6. \A d \in Watchers \ {c} : desk[d].at \notin Busy /\ mail[d] = Silent
    BY <2>5 DEF VR!Changing, Busy
  <2>7. ChangerRight'
    BY <1>0, <2>1, <2>6 DEF ChangerRight, Busy
  <2>. QED
    BY <2>4, <2>7
<1>7. ASSUME NEW c \in Watchers, VR!Broadcast(c)
      PROVE  ViewersRight' /\ ChangerRight'
  <2>1. /\ desk'[c].at = "cast" /\ desk'[c].k = desk[c].k /\ desk'[c].rest = sockets \ {c}
        /\ \A d \in Watchers \ {c} : desk'[d] = desk[d]
        /\ UNCHANGED <<room, sockets, shown, mail, apart>> /\ desk[c].at = "saved"
    BY <1>f, <1>7 DEF VR!Broadcast, VR!Goes
  <2>2. VR!Changing' = VR!Changing /\ VR!Entering' = VR!Entering
    BY <2>1 DEF VR!Changing, VR!Entering
  <2>3. \A d \in Watchers : desk[d].at = "loop" /\ Awaits(d) => Awaits(d)'
    BY <1>0, <2>1 DEF Awaits, RoomTyped
  <2>4. ViewersRight'
    BY <1>0, <2>1, <2>2, <2>3 DEF ViewersRight, VR!Entering
  <2>5. ChangerRight'
    BY <1>0, <2>1 DEF ChangerRight, Busy
  <2>. QED
    BY <2>4, <2>5
<1>8. ASSUME NEW c \in Watchers, NEW d \in Watchers, VR!Send(c, d)
      PROVE  ViewersRight' /\ ChangerRight'
  <2>1. /\ desk'[c].at = "cast" /\ desk'[c].k = desk[c].k /\ desk'[c].rest = desk[c].rest \ {d}
        /\ \A e \in Watchers \ {c} : desk'[e] = desk[e]
        /\ UNCHANGED <<room, mail, apart>> /\ desk[c].at = "cast" /\ d # c
    <3>1. desk[c] = [at |-> "cast", k |-> desk[c].k, rest |-> desk[c].rest] /\ d # c
      BY <1>0, <1>8, HandlerKinds DEF VR!Send, RoomTyped
    <3>. QED
      BY <1>f, <1>8, <3>1 DEF VR!Send, VR!Goes
  <2>2. /\ desk[d].at \notin {"out", "closed"} => shown'[d] = desk[c].k
        /\ \A e \in Watchers \ {d} : shown'[e] = shown[e]
    BY <1>f, <1>8 DEF VR!Send
  <2>3. VR!Changing' = VR!Changing /\ VR!Entering' = VR!Entering /\ c \in VR!Changing
    BY <2>1 DEF VR!Changing, VR!Entering
  <2>4. \A e \in Watchers \ {d} : Awaits(e) => Awaits(e)'
    BY <2>1 DEF Awaits
  <2>5. desk[c].k = room
    BY <1>0, <2>1 DEF ChangerRight, RoomInv
  <2>6. ViewersRight'
    BY <1>0, <2>1, <2>2, <2>3, <2>4, <2>5 DEF ViewersRight, VR!Entering
  <2>7. \A e \in Watchers \ {c} : desk[e].at \notin Busy /\ mail[e] = Silent
    <3>1. \A e \in Watchers \ {c} : e \notin VR!Changing
      BY <1>0, <2>3
    <3>. QED
      BY <3>1 DEF VR!Changing, Busy
  <2>8. ChangerRight'
    BY <1>0, <2>1, <2>2, <2>7 DEF ChangerRight, Busy
  <2>. QED
    BY <2>6, <2>8
<1>9. ASSUME NEW c \in Watchers, VR!Sent(c)
      PROVE  ViewersRight' /\ ChangerRight'
  <2>1. /\ desk'[c].at = "loop" /\ \A d \in Watchers \ {c} : desk'[d] = desk[d]
        /\ UNCHANGED <<room, sockets, shown, mail, apart>> /\ desk[c].at = "cast" /\ desk[c].rest = {}
    BY <1>f, <1>9 DEF VR!Sent, VR!Goes
  <2>2. /\ c \in VR!Changing /\ VR!Changing' \subseteq VR!Changing /\ VR!Entering' = VR!Entering
        /\ \A d \in VR!Entering : d # c
    BY <2>1 DEF VR!Changing, VR!Entering
  <2>3. \A d \in Watchers : Awaits(d) => Awaits(d)'
    BY <2>1 DEF Awaits
  <2>4. shown[c] = room \/ c \in VR!Changing'
    <3>1. mail[c] = Silent => shown[c] = desk[c].k /\ desk[c].k = room
      BY <1>0, <2>1 DEF ChangerRight, Busy
    <3>. QED
      BY <2>1, <3>1 DEF VR!Changing
  <2>5. \A d \in Watchers \ {c} : d \notin VR!Changing
    BY <1>0, <2>2
  <2>6. ViewersRight'
    BY <1>0, <2>1, <2>3, <2>4, OthersInStep
  <2>7. ChangerRight'
    BY <1>0, <2>1 DEF ChangerRight, Busy
  <2>. QED
    BY <2>6, <2>7
<1>10. ASSUME NEW c \in Watchers, VR!Leave(c) \/ VR!SaveFails(c) \/ VR!Disconnect(c)
       PROVE  ViewersRight' /\ ChangerRight'
  <2>1. /\ desk'[c].at \in {"closed", "out"} /\ \A d \in Watchers \ {c} : desk'[d] = desk[d]
        /\ desk[c].at \in {"loop", "greet", "save", "closed"}
        /\ UNCHANGED <<room, shown, apart>>
    BY <1>f, <1>10 DEF VR!Leave, VR!SaveFails, VR!Disconnect, VR!Goes
  <2>2. mail'[c] = Silent /\ \A d \in Watchers \ {c} : mail'[d] = mail[d]
    BY <1>0, <1>f, <1>10 DEF VR!Leave, VR!SaveFails, VR!Disconnect, RoomTyped, Busy
  <2>3. \A d \in Watchers : Awaits(d) => Awaits(d)'
    BY <2>1 DEF Awaits
  <2>4. /\ \A d \in Watchers \ {c} : d \in VR!Changing => d \in VR!Changing'
        /\ \A d \in VR!Entering' : d \in VR!Entering /\ d # c
    BY <2>1, <2>2 DEF VR!Changing, VR!Entering
  <2>5. ViewersRight'
    BY <1>0, <2>1, <2>2, <2>3, OthersInStep
  <2>6. ChangerRight'
    BY <1>0, <2>1, <2>2 DEF ChangerRight, Busy
  <2>. QED
    BY <2>5, <2>6
<1>. QED
  BY <1>1, <1>2, <1>3, <1>4, <1>5, <1>6, <1>7, <1>8, <1>9, <1>10 DEF VR!Step

\* Everybody who watches sees the state of the room when nothing is under way, but where two
\* changes overlapped or the viewer had read the row before: whatever the number of viewers
\* and of changes (video_rooms/api.py, ws.py).
THEOREM RoomsAreInStep == Spec => []RoomInStep
<1>1. Init => RoomInv
  <2> SUFFICES ASSUME VR!Init PROVE RoomInv
    BY DEF Init
  <2>1. /\ desk \in [Watchers -> Handlers] /\ \A c \in Watchers : desk[c].at = "out" /\ mail[c] = Silent
    BY DEF VR!Init, VR!Outside, Handlers
  <2>2. RoomTyped
    <3>1. /\ room \in 0 .. MaxStates /\ states \in 0 .. MaxStates /\ sockets \subseteq Watchers
          /\ shown \in [Watchers -> 0 .. MaxStates]
          /\ mail \in [Watchers -> 1 .. MaxStates \cup {Silent}]
      BY RoomAssumption DEF VR!Init
    <3>2. apart \subseteq Watchers /\ mixed \in BOOLEAN
      BY Zenon DEF VR!Init
    <3>. QED
      BY <2>1, <3>1, <3>2 DEF RoomTyped, Busy
  <2>3. VR!Changing = {} /\ VR!Entering = {}
    BY <2>1 DEF VR!Changing, VR!Entering
  <2>4. Overlapping /\ ViewersRight /\ ChangerRight
    BY <2>1, <2>3 DEF VR!Init, Overlapping, ViewersRight, ChangerRight, Busy
  <2>. QED
    BY <2>2, <2>4 DEF RoomInv
<1>2. RoomInv /\ [Next]_vars => RoomInv'
  <2> SUFFICES ASSUME RoomInv, [VR!Next]_roomvars PROVE RoomInv'
    BY Turns
  <2>1. CASE VR!Next
    <3>1. /\ VR!Step
          /\ mixed' = (VR!Changing' # {} /\ (mixed \/ \E c, d \in VR!Changing' : c # d))
      BY <2>1, Zenon DEF VR!Next
    <3>2. mixed' \in BOOLEAN
      BY <3>1, Zenon
    <3>3. RoomTyped' /\ (VR!Changing' \subseteq VR!Changing \/ \E c \in Watchers : VR!Change(c))
      BY <3>1, <3>2, RoomTypes
    <3>4. Overlapping' /\ (mixed' => apart' = Watchers)
      BY <3>1, <3>3, ChangersStep
    <3>5. ~mixed => ViewersRight' /\ ChangerRight'
      BY <3>1, <3>3, <3>4, AloneKeeps
    <3>. QED
      BY <3>1, <3>3, <3>5, RoomStep
  <2>2. CASE UNCHANGED roomvars
    <3>1. UNCHANGED <<room, sockets, desk, shown, mail, states, apart, mixed>>
      BY <2>2 DEF roomvars
    <3>2. VR!Changing' = VR!Changing /\ VR!Entering' = VR!Entering /\ \A d \in Watchers : Awaits(d)' = Awaits(d)
      BY <3>1 DEF VR!Changing, VR!Entering, Awaits
    <3>. QED
      BY <3>1, <3>2 DEF RoomInv, RoomTyped, Overlapping, ViewersRight, ChangerRight
  <2>. QED
    BY <2>1, <2>2
<1>3. RoomInv => RoomInStep
  <2> SUFFICES ASSUME RoomInv PROVE VR!TypeOK /\ VR!InStep
    BY DEF RoomInStep
  <2>1. VR!TypeOK
    <3>1. \A c \in Watchers : desk[c].at \in Busy \cup {"out", "loop", "closed", "accept", "greet"}
      BY HandlerKinds DEF RoomInv
    <3>. QED
      BY <3>1 DEF VR!TypeOK, RoomInv, RoomTyped, Busy
  <2>2. VR!InStep
    <3> SUFFICES ASSUME VR!Changing = {}, NEW c \in Watchers, desk[c].at = "loop"
                 PROVE  shown[c] = room \/ c \in apart
      BY DEF VR!InStep, VR!Is
    <3>1. ~Awaits(c)
      BY DEF Awaits, VR!Changing
    <3>. QED
      BY <3>1 DEF RoomInv, ViewersRight
  <2>. QED
    BY <2>1, <2>2
<1>. QED
  BY <1>1, <1>2, <1>3, PTL DEF Spec
-----------------------------------------------------------------------------
(* The front ends that write: WebDAV, the uploads, the offline downloads.   *)

Jobs == [op : WR!Ops, keep : BOOLEAN, n : WR!Files, sure : BOOLEAN, before : SUBSET Writers,
         at : {"idle", "fetch", "allocate", "look", "put", "putting", "event", "done", "deaf",
               "refused", "failed"}]
StoredFile == [by : Writers, whole : BOOLEAN]
Writing == {"put", "putting"}
Wrote == {"putting", "event", "done", "deaf", "failed"}

WritersTyped ==
    /\ files \in [WR!Files -> StoredFile \cup {Nothing}]
    /\ store \in [looks : BOOLEAN, uploads : BOOLEAN, inplace : BOOLEAN]
    /\ jobs \in [Writers -> Jobs]
    /\ told \subseteq Writers /\ ruined \subseteq Writers \X Writers

\* The writers that one has seen done are done; none of them is at the place that was free,
\* and one replaces a file of theirs only where it did not look.
SeenAreDone ==
    /\ \A d \in Writers : jobs[d].before \subseteq WR!Written
    /\ \A d \in Writers : jobs[d].at \in {"idle", "fetch", "allocate", "look"} => jobs[d].before = {}
    /\ \A d \in Writers : jobs[d].at \in Writing /\ files[jobs[d].n] # Nothing
            => files[jobs[d].n].by = d \/ files[jobs[d].n].by \notin jobs[d].before
    /\ \A c, d \in Writers : <<c, d>> \in ruined => jobs[d].at \in Wrote /\ c \notin jobs[d].before

Ruined(c) == \E d \in Writers \ {c} : <<c, d>> \in ruined

\* What is being written in place, or is written, is there, if nobody has replaced or removed
\* it.
MineIsThere ==
    \A c \in Writers :
        /\ jobs[c].at = "putting" /\ store.inplace
            => files[jobs[c].n] = [by |-> c, whole |-> FALSE] \/ Ruined(c)
        /\ jobs[c].at \in {"event", "done"} /\ jobs[c].op # "delete"
            => files[jobs[c].n] = [by |-> c, whole |-> TRUE] \/ Ruined(c)
        /\ jobs[c].at = "done" => c \in told

WritersInv == WritersTyped /\ SeenAreDone /\ MineIsThere

\* A job goes on.
LEMMA JobGoesOn ==
  ASSUME WritersTyped, NEW c \in Writers, NEW at, at \in {"fetch", "allocate", "look", "put",
         "putting", "event", "done", "deaf", "refused", "failed"}, WR!Goes(c, at) \/ WR!Ends(c, at)
  PROVE  /\ jobs' \in [Writers -> Jobs] /\ \A d \in Writers \ {c} : jobs'[d] = jobs[d]
         /\ jobs'[c].at = at /\ jobs'[c].op = jobs[c].op /\ jobs'[c].n = jobs[c].n
         /\ jobs'[c].before = jobs[c].before
<1>1. jobs[c] \in Jobs /\ jobs' = [jobs EXCEPT ![c] = [jobs[c] EXCEPT !.at = at]]
  BY DEF WritersTyped, WR!Goes, WR!Ends
<1>2. /\ [jobs[c] EXCEPT !.at = at] \in Jobs /\ [jobs[c] EXCEPT !.at = at].at = at
      /\ [jobs[c] EXCEPT !.at = at].op = jobs[c].op /\ [jobs[c] EXCEPT !.at = at].n = jobs[c].n
      /\ [jobs[c] EXCEPT !.at = at].before = jobs[c].before
  BY <1>1 DEF Jobs
<1>. QED
  BY <1>1, <1>2 DEF WritersTyped

\* A job that writes nothing yet, or no more.
LEMMA JobRests ==
  ASSUME WritersInv, NEW c \in Writers, jobs' \in [Writers -> Jobs],
         \A d \in Writers \ {c} : jobs'[d] = jobs[d],
         c \in WR!Written => jobs'[c].at \in {"event", "done", "deaf"},
         jobs'[c].before = {} \/ jobs'[c].before = jobs[c].before
             \/ (jobs'[c].before = WR!Written /\ ~WR!Present(jobs'[c].n)),
         jobs'[c].at \notin {"putting"},
         jobs'[c].at \in {"event", "done"} =>
             /\ jobs[c].at = "event" /\ jobs'[c].n = jobs[c].n /\ jobs'[c].op = jobs[c].op
             /\ jobs'[c].at = "done" => c \in told',
         jobs[c].at \in Wrote => jobs'[c].at \in Wrote /\ jobs'[c].before = jobs[c].before,
         jobs'[c].at \in {"idle", "fetch", "allocate", "look"} => jobs'[c].before = {},
         jobs'[c].at = "put" => jobs'[c].before = {} \/ ~WR!Present(jobs'[c].n),
         told' \in {told, told \cup {c}}, UNCHANGED <<files, store, ruined>>
  PROVE  WritersInv'
<1> USE DEF WritersInv
<1>1. WritersTyped'
  BY DEF WritersTyped
<1>2. WR!Written \subseteq WR!Written'
  BY DEF WR!Written
<1>3. SeenAreDone'
  <2>1. \A d \in Writers : jobs'[d].before \subseteq WR!Written'
    BY <1>2 DEF SeenAreDone
  <2>2. ASSUME NEW d \in Writers, jobs'[d].at \in Writing, files'[jobs'[d].n] # Nothing
        PROVE  files'[jobs'[d].n].by = d \/ files'[jobs'[d].n].by \notin jobs'[d].before
    <3>1. CASE d # c
      BY <2>2, <3>1 DEF SeenAreDone
    <3>2. CASE d = c
      BY <2>2, <3>2 DEF WR!Present, Writing
    <3>. QED
      BY <3>1, <3>2
  <2>3. \A a, d \in Writers : <<a, d>> \in ruined' => jobs'[d].at \in Wrote /\ a \notin jobs'[d].before
    BY DEF SeenAreDone
  <2>4. \A d \in Writers : jobs'[d].at \in {"idle", "fetch", "allocate", "look"} => jobs'[d].before = {}
    BY DEF SeenAreDone
  <2>. QED
    BY <2>1, <2>2, <2>3, <2>4 DEF SeenAreDone
<1>4. MineIsThere'
  <2>1. \A d \in Writers : Ruined(d)' = Ruined(d)
    BY DEF Ruined
  <2>. QED
    <3>2. \A d \in Writers \ {c} : jobs'[d].at = "done" => d \in told'
      BY DEF MineIsThere
    <3>3. \A d \in Writers : jobs'[d].at = "putting" => d # c /\ jobs'[d] = jobs[d]
      OBVIOUS
    <3>4. ASSUME NEW d \in Writers, jobs'[d].at \in {"event", "done"} /\ jobs'[d].op # "delete"
          PROVE  files'[jobs'[d].n] = [by |-> d, whole |-> TRUE] \/ Ruined(d)'
      <4>1. jobs[d].at \in {"event", "done"} /\ jobs[d].op # "delete" /\ jobs'[d].n = jobs[d].n
        BY <3>4
      <4>. QED
        BY <2>1, <4>1 DEF MineIsThere
    <3>5. jobs'[c].at = "done" => c \in told'
      OBVIOUS
    <3>6. \A d \in Writers : jobs'[d].at = "putting" /\ store'.inplace
             => files'[jobs'[d].n] = [by |-> d, whole |-> FALSE] \/ Ruined(d)'
      BY <2>1, <3>3 DEF MineIsThere
    <3>. QED
      BY <3>2, <3>4, <3>5, <3>6 DEF MineIsThere
<1>. QED
  BY <1>1, <1>3, <1>4

\* A job writes, in place or for good, or removes, and is at its next step.
LEMMA JobWrites ==
  ASSUME WritersInv, NEW c \in Writers, NEW at \in {"putting", "event"}, WR!Goes(c, at),
         jobs[c].at \in Writing, NEW file2 \in StoredFile \cup {Nothing},
         files' = [files EXCEPT ![jobs[c].n] = file2], WR!Ruins(c, jobs[c].n),
         file2 # Nothing => file2.by = c,
         at = "putting" => file2 = [by |-> c, whole |-> FALSE],
         at = "event" /\ jobs[c].op # "delete" =>
             file2 = [by |-> c, whole |-> TRUE] \/ Ruined(c),
         UNCHANGED <<store, told>>
  PROVE  WritersInv'
<1> USE DEF WritersInv
<1> DEFINE n == jobs[c].n
<1>0. n \in WR!Files /\ files[n] \in StoredFile \cup {Nothing}
  BY DEF WritersTyped, Jobs
<1>1. /\ jobs' \in [Writers -> Jobs] /\ \A d \in Writers \ {c} : jobs'[d] = jobs[d]
      /\ jobs'[c].at = at /\ jobs'[c].op = jobs[c].op /\ jobs'[c].n = n
      /\ jobs'[c].before = jobs[c].before
  BY JobGoesOn
<1>2. /\ files' \in [WR!Files -> StoredFile \cup {Nothing}] /\ files'[n] = file2
      /\ \A m \in WR!Files \ {n} : files'[m] = files[m]
  BY <1>0 DEF WritersTyped
<1> HIDE DEF n
<1>3. /\ ruined \subseteq ruined' /\ ruined' \subseteq Writers \X Writers
      /\ \A a, d \in Writers : <<a, d>> \in ruined' =>
            \/ <<a, d>> \in ruined
            \/ d = c /\ a # c /\ files[n] # Nothing /\ files[n].by = a
      /\ files[n] # Nothing /\ files[n].by # c => <<files[n].by, c>> \in ruined'
  BY <1>0 DEF WR!Ruins, WR!Present, WritersTyped, StoredFile, n
<1>4. WritersTyped'
  BY <1>1, <1>2, <1>3 DEF WritersTyped
<1>5. c \notin WR!Written /\ WR!Written \subseteq WR!Written'
  BY <1>1 DEF WR!Written, Writing
<1>6. SeenAreDone'
  <2>1. \A d \in Writers : jobs'[d].before = jobs[d].before /\ c \notin jobs[d].before
    BY <1>1, <1>5 DEF SeenAreDone
  <2>2. \A d \in Writers : jobs'[d].before \subseteq WR!Written'
    BY <1>5, <2>1 DEF SeenAreDone
  <2>3. \A d \in Writers : jobs'[d].at \in {"idle", "fetch", "allocate", "look"} => jobs'[d].before = {}
    BY <1>1 DEF SeenAreDone
  <2>4. ASSUME NEW d \in Writers, jobs'[d].at \in Writing, files'[jobs'[d].n] # Nothing
        PROVE  files'[jobs'[d].n].by = d \/ files'[jobs'[d].n].by \notin jobs'[d].before
    <3>1. jobs[d].at \in Writing /\ jobs'[d].n = jobs[d].n /\ jobs[d].n \in WR!Files
      BY <1>1, <2>4 DEF n, WritersTyped, Jobs
    <3>2. CASE jobs[d].n = n
      BY <1>2, <2>1, <2>4, <3>1, <3>2
    <3>3. CASE jobs[d].n # n
      BY <1>2, <2>1, <2>4, <3>1, <3>3 DEF SeenAreDone
    <3>. QED
      BY <3>2, <3>3
  <2>5. ASSUME NEW a \in Writers, NEW d \in Writers, <<a, d>> \in ruined'
        PROVE  jobs'[d].at \in Wrote /\ a \notin jobs'[d].before
    <3>1. CASE <<a, d>> \in ruined
      BY <1>1, <3>1 DEF SeenAreDone, Wrote
    <3>2. CASE d = c /\ a # c /\ files[n] # Nothing /\ files[n].by = a
      BY <1>1, <3>2 DEF SeenAreDone, Wrote, n
    <3>. QED
      BY <1>3, <2>5, <3>1, <3>2
  <2>. QED
    BY <2>2, <2>3, <2>4, <2>5 DEF SeenAreDone
<1>7. MineIsThere'
  <2>1. \A d \in Writers : Ruined(d) => Ruined(d)'
    BY <1>3 DEF Ruined
  <2>2. ASSUME NEW d \in Writers \ {c}, NEW m \in WR!Files, NEW whole \in BOOLEAN,
               files[m] = [by |-> d, whole |-> whole]
        PROVE  files'[m] = [by |-> d, whole |-> whole] \/ Ruined(d)'
    <3>1. CASE m = n
      <4>1. files[n] # Nothing /\ files[n].by = d
        BY <2>2, <3>1, WritersAssumption
      <4>. QED
        BY <1>3, <4>1 DEF Ruined
    <3>. QED
      BY <1>2, <2>2, <3>1
  <2>4. ASSUME NEW d \in Writers, jobs'[d].at = "putting" /\ store'.inplace
        PROVE  files'[jobs'[d].n] = [by |-> d, whole |-> FALSE] \/ Ruined(d)'
    <3>1. CASE d = c
      BY <1>1, <1>2, <2>4, <3>1
    <3>2. CASE d # c
      <4>1. jobs[d].n \in WR!Files /\ jobs'[d] = jobs[d]
        BY <1>1, <3>2 DEF WritersTyped, Jobs
      <4>2. files[jobs[d].n] = [by |-> d, whole |-> FALSE] \/ Ruined(d)
        BY <2>4, <4>1 DEF MineIsThere
      <4>3. CASE Ruined(d)
        BY <2>1, <4>3
      <4>4. CASE files[jobs[d].n] = [by |-> d, whole |-> FALSE]
        BY <2>2, <3>2, <4>1, <4>4
      <4>. QED
        BY <4>2, <4>3, <4>4
    <3>. QED
      BY <3>1, <3>2
  <2>5. ASSUME NEW d \in Writers, jobs'[d].at \in {"event", "done"} /\ jobs'[d].op # "delete"
        PROVE  files'[jobs'[d].n] = [by |-> d, whole |-> TRUE] \/ Ruined(d)'
    <3>1. CASE d = c
      BY <1>1, <1>2, <2>1, <2>5, <3>1
    <3>2. CASE d # c
      <4>1. jobs[d].n \in WR!Files /\ jobs'[d] = jobs[d]
        BY <1>1, <3>2 DEF WritersTyped, Jobs
      <4>2. files[jobs[d].n] = [by |-> d, whole |-> TRUE] \/ Ruined(d)
        BY <2>5, <4>1 DEF MineIsThere
      <4>3. CASE Ruined(d)
        BY <2>1, <4>3
      <4>4. CASE files[jobs[d].n] = [by |-> d, whole |-> TRUE]
        BY <2>2, <3>2, <4>1, <4>4
      <4>. QED
        BY <4>2, <4>3, <4>4
    <3>. QED
      BY <3>1, <3>2
  <2>6. \A d \in Writers : jobs'[d].at = "done" => d \in told'
    BY <1>1 DEF MineIsThere
  <2>. QED
    BY <2>4, <2>5, <2>6 DEF MineIsThere
<1>. QED
  BY <1>4, <1>6, <1>7

LEMMA WriteSteps ==
  ASSUME WritersInv, NEW c \in Writers,
         WR!PutBegins(c) \/ WR!Delete(c) \/ \E whole \in BOOLEAN : WR!PutEnds(c, whole)
  PROVE  WritersInv'
<1>0. jobs[c].n \in WR!Files /\ jobs[c] \in Jobs
  BY DEF WritersInv, WritersTyped, Jobs
<1>1. ASSUME WR!PutBegins(c), store.inplace PROVE WritersInv'
  <2>1. [by |-> c, whole |-> FALSE] \in StoredFile
    BY DEF StoredFile
  <2>2. jobs[c].at \in Writing /\ WR!Goes(c, "putting") /\ UNCHANGED <<store, told>>
        /\ files' = [files EXCEPT ![jobs[c].n] = [by |-> c, whole |-> FALSE]] /\ WR!Ruins(c, jobs[c].n)
    BY <1>1 DEF WR!PutBegins, WR!At, Writing
  <2>. QED
    BY <2>1, <2>2, JobWrites
<1>2. ASSUME WR!PutBegins(c), ~store.inplace PROVE WritersInv'
  <2>1. jobs[c].at = "put" /\ WR!Goes(c, "putting") /\ UNCHANGED <<store, told, files, ruined>>
    BY <1>2 DEF WR!PutBegins, WR!At
  <2>2. /\ jobs' \in [Writers -> Jobs] /\ \A d \in Writers \ {c} : jobs'[d] = jobs[d]
        /\ jobs'[c].at = "putting" /\ jobs'[c].op = jobs[c].op /\ jobs'[c].n = jobs[c].n
        /\ jobs'[c].before = jobs[c].before
    BY <2>1, JobGoesOn DEF WritersInv
  <2>3. WritersTyped'
    BY <2>1, <2>2 DEF WritersInv, WritersTyped
  <2>4. WR!Written \subseteq WR!Written'
    BY <2>1, <2>2 DEF WR!Written
  <2>5. SeenAreDone'
    <3>1. \A d \in Writers : jobs'[d].at \in Writing => jobs[d].at \in Writing
      BY <2>1, <2>2 DEF Writing
    <3>2. \A d \in Writers : jobs'[d].before = jobs[d].before /\ jobs'[d].n = jobs[d].n
      BY <2>2
    <3>3. \A d \in Writers : jobs[d].at \in Wrote => jobs'[d].at \in Wrote
      BY <2>1, <2>2 DEF Wrote
    <3>4. \A d \in Writers : jobs'[d].at \in {"idle", "fetch", "allocate", "look"} => jobs'[d].before = {}
      BY <2>2 DEF WritersInv, SeenAreDone
    <3>. QED
      BY <2>1, <2>4, <3>1, <3>2, <3>3, <3>4 DEF WritersInv, SeenAreDone
  <2>6. MineIsThere'
    <3>1. \A d \in Writers : Ruined(d)' = Ruined(d)
      BY <2>1 DEF Ruined
    <3>. QED
      BY <1>2, <2>1, <2>2, <3>1 DEF WritersInv, MineIsThere
  <2>. QED
    BY <2>3, <2>5, <2>6 DEF WritersInv
<1>3. ASSUME NEW whole \in BOOLEAN, WR!PutEnds(c, whole) PROVE WritersInv'
  <2>1. [by |-> c, whole |-> whole] \in StoredFile
    BY DEF StoredFile
  <2>2. jobs[c].at = "putting" /\ WR!Goes(c, "event") /\ UNCHANGED <<store, told>>
        /\ files' = [files EXCEPT ![jobs[c].n] = [by |-> c, whole |-> whole]] /\ WR!Ruins(c, jobs[c].n)
        /\ (~store.inplace \/ files[jobs[c].n] = [by |-> c, whole |-> FALSE] => whole)
    BY <1>3 DEF WR!PutEnds, WR!At
  <2>3. whole = TRUE \/ Ruined(c)
    BY <2>2 DEF WritersInv, MineIsThere
  <2>4. [by |-> c, whole |-> whole].by = c /\ ([by |-> c, whole |-> whole] = [by |-> c, whole |-> TRUE] \/ Ruined(c))
    BY <2>3
  <2>. QED
    BY <2>1, <2>2, <2>4, JobWrites DEF Writing
<1>4. ASSUME WR!Delete(c) PROVE WritersInv'
  <2>1. /\ jobs[c].at = "put" /\ jobs[c].op = "delete" /\ WR!Goes(c, "event") /\ UNCHANGED <<store, told>>
        /\ files' = [files EXCEPT ![jobs[c].n] = Nothing] /\ WR!Ruins(c, jobs[c].n)
    BY <1>4 DEF WR!Delete, WR!At
  <2>2. Nothing \in StoredFile \cup {Nothing}
    OBVIOUS
  <2>. QED
    BY <2>1, <2>2, JobWrites DEF Writing
<1>. QED
  BY <1>1, <1>2, <1>3, <1>4

\* A job of the same directory looks, or is refused, or fails, or is done.
LEMMA LookSteps ==
  ASSUME WritersInv, NEW c \in Writers,
         \/ WR!Fetch(c) \/ WR!LookDav(c) \/ WR!OfflineFails(c) \/ WR!PutFails(c)
         \/ WR!Trigger(c) \/ WR!TriggerFails(c)
  PROVE  WritersInv'
<1>1. PICK at \in {"allocate", "put", "failed", "done", "deaf"} :
        /\ WR!Goes(c, at) \/ WR!Ends(c, at)
        /\ \/ jobs[c].at = "fetch" /\ at = "allocate"
           \/ jobs[c].at = "look" /\ at = "put"
           \/ jobs[c].at \in {"fetch", "allocate", "put", "putting"} /\ at = "failed"
           \/ jobs[c].at = "event" /\ at \in {"done", "deaf"}
        /\ (at = "done" => c \in told') /\ told' \in {told, told \cup {c}}
        /\ UNCHANGED <<files, store, ruined>>
  BY DEF WR!Fetch, WR!LookDav, WR!OfflineFails, WR!PutFails, WR!Trigger, WR!TriggerFails, WR!At
<1>2. /\ jobs' \in [Writers -> Jobs] /\ \A d \in Writers \ {c} : jobs'[d] = jobs[d]
      /\ jobs'[c].at = at /\ jobs'[c].op = jobs[c].op /\ jobs'[c].n = jobs[c].n
      /\ jobs'[c].before = jobs[c].before
  BY <1>1, JobGoesOn DEF WritersInv
<1>3. jobs[c].at \in {"fetch", "look"} => jobs[c].before = {}
  BY DEF WritersInv, SeenAreDone
<1>4. c \in WR!Written => jobs'[c].at \in {"event", "done", "deaf"}
  BY <1>1, <1>2 DEF WR!Written
<1>5. jobs[c].at \in Wrote => jobs'[c].at \in Wrote
  BY <1>1, <1>2 DEF Wrote
<1>. QED
  BY <1>1, <1>2, <1>3, <1>4, <1>5, JobRests

LEMMA AskStep ==
  ASSUME WritersInv, NEW c \in Writers, NEW op \in WR!Ops, NEW keep \in BOOLEAN, NEW n \in WR!Files,
         WR!Ask(c, op, keep, n)
  PROVE  WritersInv'
<1>1. PICK at \in {"fetch", "put", "look"} :
        jobs' = [jobs EXCEPT ![c] =
            [op |-> op, keep |-> keep, n |-> n, sure |-> FALSE, before |-> {}, at |-> at]]
  BY DEF WR!Ask
<1> DEFINE r == [op |-> op, keep |-> keep, n |-> n, sure |-> FALSE, before |-> {}, at |-> at]
<1>2. r \in Jobs /\ r.before = {} /\ r.at = at
  BY DEF Jobs
<1>3. jobs' = [jobs EXCEPT ![c] = r]
  BY <1>1
<1> HIDE DEF r
<1>4. /\ jobs' \in [Writers -> Jobs] /\ \A d \in Writers \ {c} : jobs'[d] = jobs[d]
      /\ jobs'[c].at = at /\ jobs'[c].before = {}
  BY <1>2, <1>3 DEF WritersInv, WritersTyped
<1>5. jobs[c].at = "idle" /\ UNCHANGED <<files, store, told, ruined>>
  BY DEF WR!Ask, WR!At
<1>6. c \notin WR!Written /\ jobs[c].at \notin Wrote
  BY <1>5 DEF WR!Written, Wrote
<1>. QED
  BY <1>4, <1>5, <1>6, JobRests

\* Looking for the file: the name is free, or the next one is tried, or the job ends.
LEMMA SearchSteps ==
  ASSUME WritersInv, NEW c \in Writers, WR!Allocate(c) \/ WR!Look(c) \/ WR!LookFails(c)
  PROVE  WritersInv'
<1>0. /\ jobs[c] \in Jobs /\ jobs[c].at \in {"allocate", "look"} /\ jobs[c].before = {}
      /\ UNCHANGED <<files, store, told, ruined>> /\ jobs \in [Writers -> Jobs]
  BY DEF WR!Allocate, WR!Look, WR!LookFails, WR!At, WritersInv, WritersTyped, SeenAreDone
<1>6. c \notin WR!Written /\ jobs[c].at \notin Wrote /\ WR!Written \subseteq Writers
  BY <1>0 DEF WR!Written, Wrote
<1>1. ASSUME NEW at \in {"put", "refused", "failed"}, WR!Goes(c, at) \/ WR!Ends(c, at)
      PROVE  WritersInv'
  <2>1. /\ jobs' \in [Writers -> Jobs] /\ \A d \in Writers \ {c} : jobs'[d] = jobs[d]
        /\ jobs'[c].at = at /\ jobs'[c].before = jobs[c].before
    BY <1>1, JobGoesOn DEF WritersInv
  <2>. QED
    BY <1>0, <1>6, <2>1, JobRests
<1>2. ASSUME WR!Saw(c, "put"), ~WR!Present(jobs[c].n) PROVE WritersInv'
  <2> DEFINE r == [jobs[c] EXCEPT !.at = "put", !.sure = TRUE, !.before = WR!Written]
  <2>1. jobs' = [jobs EXCEPT ![c] = r]
    BY <1>0, <1>2 DEF WR!Saw
  <2>2. r \in Jobs /\ r.at = "put" /\ r.before = WR!Written /\ r.n = jobs[c].n
    BY <1>0, <1>6 DEF Jobs
  <2> HIDE DEF r
  <2>3. /\ jobs' \in [Writers -> Jobs] /\ \A d \in Writers \ {c} : jobs'[d] = jobs[d]
        /\ jobs'[c].at = "put" /\ jobs'[c].before = WR!Written /\ jobs'[c].n = jobs[c].n
    BY <1>0, <2>1, <2>2
  <2>. QED
    BY <1>0, <1>2, <1>6, <2>3, JobRests
<1>3. ASSUME jobs' = [jobs EXCEPT ![c].op = "raw"] PROVE WritersInv'
  <2> DEFINE r == [jobs[c] EXCEPT !.op = "raw"]
  <2>1. r \in Jobs /\ r.at = jobs[c].at /\ r.before = {}
    BY <1>0 DEF Jobs, WR!Ops
  <2>2. jobs' = [jobs EXCEPT ![c] = r]
    BY <1>0, <1>3
  <2> HIDE DEF r
  <2>3. /\ jobs' \in [Writers -> Jobs] /\ \A d \in Writers \ {c} : jobs'[d] = jobs[d]
        /\ jobs'[c].at = jobs[c].at /\ jobs'[c].before = {}
    BY <1>0, <2>1, <2>2
  <2>. QED
    BY <1>0, <1>6, <2>3, JobRests
<1>4. ASSUME jobs[c].n < MaxName, jobs' = [jobs EXCEPT ![c].n = jobs[c].n + 1] PROVE WritersInv'
  <2> DEFINE r == [jobs[c] EXCEPT !.n = jobs[c].n + 1]
  <2>0. jobs[c].n + 1 \in WR!Files
    BY <1>0, <1>4, WritersAssumption DEF Jobs, WR!Files
  <2>1. r \in Jobs /\ r.at = jobs[c].at /\ r.before = {}
    BY <1>0, <2>0 DEF Jobs
  <2>2. jobs' = [jobs EXCEPT ![c] = r]
    BY <1>0, <1>4
  <2> HIDE DEF r
  <2>3. /\ jobs' \in [Writers -> Jobs] /\ \A d \in Writers \ {c} : jobs'[d] = jobs[d]
        /\ jobs'[c].at = jobs[c].at /\ jobs'[c].before = {}
    BY <1>0, <2>1, <2>2
  <2>. QED
    BY <1>0, <1>6, <2>3, JobRests
<1>5. CASE WR!Allocate(c)
  BY <1>0, <1>2, <1>4, <1>5 DEF WR!Allocate
<1>7. CASE WR!Look(c)
  BY <1>1, <1>2, <1>3, <1>7 DEF WR!Look
<1>8. CASE WR!LookFails(c)
  BY <1>1, <1>3, <1>8 DEF WR!LookFails
<1>. QED
  BY <1>5, <1>7, <1>8

\* Who asked not to overwrite replaces no file whose write he could have seen ended, and a
\* write that is done has its whole file there and the automation tasks know, whatever the
\* number of writers and of names (virtual_fs/file_ops.py, routes.py, offline_downloads).
THEOREM WritesAreKept == Spec => []WritesKept
<1>1. Init => WritersInv
  <2> SUFFICES ASSUME WR!Init PROVE WritersInv
    BY DEF Init
  <2>1. WR!Idle \in Jobs /\ WR!Idle.at = "idle" /\ WR!Idle.before = {}
    BY WritersAssumption DEF WR!Idle, Jobs, WR!Ops, WR!Files
  <2>2. jobs \in [Writers -> Jobs] /\ \A c \in Writers : jobs[c].at = "idle" /\ jobs[c].before = {}
    BY <2>1 DEF WR!Init
  <2>3. WritersTyped /\ ruined = {}
    BY <2>2 DEF WR!Init, WritersTyped
  <2>. QED
    BY <2>2, <2>3 DEF WritersInv, SeenAreDone, MineIsThere, Writing
<1>2. WritersInv /\ [Next]_vars => WritersInv'
  <2> SUFFICES ASSUME WritersInv, [WR!Next]_writersvars PROVE WritersInv'
    BY Turns
  <2>1. ASSUME NEW c \in Writers, NEW op \in WR!Ops, NEW keep \in BOOLEAN, NEW n \in WR!Files,
               WR!Ask(c, op, keep, n)
        PROVE  WritersInv'
    BY <2>1, AskStep
  <2>2. ASSUME NEW c \in Writers,
               \/ WR!Fetch(c) \/ WR!Allocate(c) \/ WR!LookDav(c) \/ WR!Look(c) \/ WR!LookFails(c)
               \/ WR!OfflineFails(c) \/ WR!PutBegins(c) \/ WR!PutFails(c) \/ WR!Delete(c)
               \/ WR!Trigger(c) \/ WR!TriggerFails(c)
               \/ \E whole \in BOOLEAN : WR!PutEnds(c, whole)
        PROVE  WritersInv'
    BY <2>2, LookSteps, SearchSteps, WriteSteps
  <2>3. CASE UNCHANGED writersvars
    <3>1. UNCHANGED <<files, store, jobs, told, ruined>>
      BY <2>3 DEF writersvars
    <3>2. WR!Written' = WR!Written /\ \A d \in Writers : Ruined(d)' = Ruined(d)
      BY <3>1 DEF WR!Written, Ruined
    <3>. QED
      BY <3>1, <3>2 DEF WritersInv, WritersTyped, SeenAreDone, MineIsThere
  <2>. QED
    BY <2>1, <2>2, <2>3 DEF WR!Next
<1>3. WritersInv => WritesKept
  <2> SUFFICES ASSUME WritersInv PROVE WR!TypeOK /\ WR!KeptUnlessRaced /\ WR!DoneIsWhole
    BY DEF WritesKept
  <2>1. WR!TypeOK
    BY DEF WR!TypeOK, WritersInv, WritersTyped, Jobs, StoredFile
  <2>2. WR!KeptUnlessRaced
    BY DEF WR!KeptUnlessRaced, WritersInv, SeenAreDone
  <2>3. WR!DoneIsWhole
    BY DEF WR!DoneIsWhole, WR!At, WritersInv, MineIsThere, Ruined
  <2>. QED
    BY <2>1, <2>2, <2>3
<1>. QED
  BY <1>1, <1>2, <1>3, PTL DEF Spec
-----------------------------------------------------------------------------
(* Multipart uploads: s3_api.py.                                            *)

Chunky == [1 .. Chunks -> (Nat \X Nat) \cup {Absent}]
CallFields == {"do", "at", "u", "n", "ns", "k", "sent", "file", "got", "told", "sure"}
AtWork == {"open", "chunk", "replace", "info"}
Stages == [part |-> {"load"} \cup AtWork, complete |-> {"load", "infos", "merge", "clean"},
           create |-> {"make", "meta"}, abort |-> {"load", "remove"}, put |-> {"put", "look"}]

\* A request r that is, or was, under way, of k requests so far.
Requested(r, k) ==
    /\ DOMAIN r = CallFields
    /\ r.do \in DOMAIN Stages /\ r.at \in Stages[r.do] \cup {"done", "failed"}
    /\ r.do # "put" => r.u \in Uploads
    /\ r.do = "part" => r.n \in Parts
    /\ r.ns \in Seq(Parts) /\ r.k \in 1 .. k /\ r.sent \in 0 .. Chunks /\ r.got \in Seq(Chunky)
    /\ r.at = "chunk" => r.sent < Chunks
    /\ r.at = "replace" => r.sent = Chunks
    /\ r.at \in {"load", "open"} => r.sent = 0
    /\ r.at \in {"chunk", "replace"} => r.file \in 1 .. k
    /\ r.at \in {"load", "infos"} => r.got = <<>>
    /\ r.do = "complete" /\ r.at \in {"merge", "clean", "done"} =>
        /\ DOMAIN r.told = DOMAIN r.ns /\ (\A i \in DOMAIN r.ns : r.told[i] # Absent)
        /\ Len(r.got) <= Len(r.ns)
        /\ r.at # "merge" => Len(r.got) = Len(r.ns)

GwTyped ==
    /\ dirs \subseteq Uploads /\ metas \subseteq dirs /\ ended \subseteq Uploads /\ stray \subseteq Uploads
    /\ gwmixed \subseteq GW!Files
    /\ gwcalls \in 0 .. MaxGatewayCalls
    /\ part \in [GW!Files -> 1 .. gwcalls \cup {Absent}]
    /\ temp \in [GW!Files -> 1 .. gwcalls \cup {Absent}]
    /\ info \in [GW!Files -> 1 .. gwcalls \cup {Absent}]
    /\ blob \in [1 .. MaxGatewayCalls -> Chunky]
    /\ DOMAIN gwcall = S3Clients
    /\ \A c \in S3Clients : gwcall[c] = [at |-> "rest", do |-> "none"] \/ Requested(gwcall[c], gwcalls)

\* An upload is made once; who has found its meta.json has found one that is there or has
\* ended.
UploadsMade ==
    /\ metas \cap ended = {}
    /\ \A c \in S3Clients : gwcall[c].at = "meta" => gwcall[c].u \in dirs \ (metas \cup ended)
    /\ \A c, d \in S3Clients :
        gwcall[c].at = "meta" /\ gwcall[d].at = "meta" /\ gwcall[c].u = gwcall[d].u => c = d
    /\ \A c \in S3Clients : gwcall[c].at \in AtWork \cup {"infos", "merge", "clean", "remove"} =>
        gwcall[c].u \in metas \cup ended
    /\ \A f \in GW!Files : f[1] \notin metas \cup ended =>
        part[f] = Absent /\ temp[f] = Absent /\ info[f] = Absent

\* An ended upload of which a part is still being sent is a stray one.
StraysTold ==
    /\ ended \cap dirs \subseteq stray
    /\ \A c \in S3Clients : gwcall[c].at \in AtWork /\ gwcall[c].u \in ended => gwcall[c].u \in stray

\* The files of a part, and of those who write it, are nobody else's; a request that has not
\* made its file has a number no file has.
WritesTo(c, f) == gwcall[c].at \in {"chunk", "replace"} /\ GW!F(c) = f
Has(f, k) == part[f] = k \/ temp[f] = k \/ \E c \in S3Clients : WritesTo(c, f) /\ gwcall[c].file = k
FilesApart ==
    /\ \A k \in 1 .. MaxGatewayCalls, f, g \in GW!Files : Has(f, k) /\ Has(g, k) => f = g
    /\ \A c \in S3Clients : gwcall[c].do = "part" /\ gwcall[c].at \in {"load", "open"} =>
        /\ \A f \in GW!Files : ~Has(f, gwcall[c].k)
        /\ \A d \in S3Clients : gwcall[d].do = "part" /\ gwcall[d].at \in {"load", "open"}
                                /\ gwcall[d].k = gwcall[c].k => d = c

\* What the disk holds of a part, while request r sends it and when nobody does.
Whole(f) ==
    info[f] # Absent => /\ part[f] # Absent => blob[part[f]] = GW!ContentOf(info[f])
                        /\ f[1] \in metas => part[f] # Absent
Sent(f, r) ==
    /\ r.at \in {"open", "info"} => temp[f] = Absent
    /\ r.at \in {"chunk", "replace"} =>
        /\ temp[f] \in {Absent, r.file} /\ (f[1] \in metas => temp[f] = r.file) /\ part[f] # r.file
        /\ blob[r.file] = [i \in 1 .. Chunks |-> IF i <= r.sent THEN <<r.k, i>> ELSE Absent]
    /\ r.at = "info" => /\ part[f] # Absent => blob[part[f]] = GW!ContentOf(r.k)
                        /\ f[1] \in metas => part[f] # Absent
    /\ r.at # "info" => Whole(f)
Sends(c, f) == gwcall[c].at \in AtWork /\ GW!F(c) = f
PartWhole(f) ==
    /\ \A c, d \in S3Clients : Sends(c, f) /\ Sends(d, f) => c = d
    /\ \A c \in S3Clients : Sends(c, f) => Sent(f, gwcall[c])
    /\ (\A c \in S3Clients : ~Sends(c, f)) => temp[f] = Absent /\ Whole(f)
PartsWhole == \A f \in GW!Files \ gwmixed : PartWhole(f)

\* What was merged is what the descriptions told.
MergedRight ==
    gwmixed = {} => \A c \in S3Clients :
        gwcall[c].do = "complete" /\ gwcall[c].at \in {"merge", "clean", "done"} /\ gwcall[c].sure =>
            \A i \in 1 .. Len(gwcall[c].got) : gwcall[c].got[i] = GW!ContentOf(gwcall[c].told[i])

GwInv == GwTyped /\ UploadsMade /\ StraysTold /\ FilesApart /\ PartsWhole /\ MergedRight

LEMMA GwBegins ==
  ASSUME GatewayAssumption, Init
  PROVE  GwInv
<1>1. /\ dirs = {} /\ metas = {} /\ ended = {} /\ stray = {} /\ gwmixed = {} /\ gwcalls = 0
      /\ temp = [f \in GW!Files |-> Absent] /\ part = temp /\ info = temp
      /\ blob = [k \in 1 .. MaxGatewayCalls |-> GW!Empty]
      /\ gwcall = [c \in S3Clients |-> [at |-> "rest", do |-> "none"]]
  BY DEF Init, GW!Init
<1>2. \A c \in S3Clients : gwcall[c].at = "rest" /\ gwcall[c].do = "none"
  BY <1>1
<1>3. GW!Empty \in Chunky
  BY DEF GW!Empty, Chunky
<1>4. blob \in [1 .. MaxGatewayCalls -> Chunky]
  BY <1>1, <1>3
<1>5. gwcalls \in 0 .. MaxGatewayCalls
  BY <1>1 DEF GatewayAssumption
<1>6. GwTyped
  BY <1>1, <1>4, <1>5 DEF GwTyped
<1>7. \A f \in GW!Files : temp[f] = Absent /\ part[f] = Absent /\ info[f] = Absent
  BY <1>1
<1>8. UploadsMade /\ StraysTold
  BY <1>1, <1>2, <1>7 DEF UploadsMade, StraysTold, AtWork
<1>9. FilesApart
  <2>1. \A k \in 1 .. MaxGatewayCalls : Absent # k
    BY DEF GatewayAssumption
  <2> QED BY <1>2, <1>7, <2>1 DEF FilesApart, Has, WritesTo
<1>10. PartsWhole
  BY <1>2, <1>7 DEF PartsWhole, PartWhole, Sends, Whole, AtWork
<1>11. MergedRight
  BY <1>2 DEF MergedRight
<1> QED BY <1>6, <1>8, <1>9, <1>10, <1>11 DEF GwInv

\* A request under way is one that was made.
LEMMA UnderWay ==
  ASSUME GwTyped, NEW c \in S3Clients, gwcall[c].at \notin {"rest"}
  PROVE  Requested(gwcall[c], gwcalls)
BY DEF GwTyped

LEMMA OnlyParts ==
  ASSUME GwTyped, NEW c \in S3Clients, gwcall[c].at \in AtWork
  PROVE  gwcall[c].do = "part"
<1>1. Requested(gwcall[c], gwcalls)
  BY UnderWay DEF AtWork
<1>2. gwcall[c].do \in {"part", "complete", "create", "abort", "put"}
  BY <1>1 DEF Requested, Stages
<1>3. gwcall[c].at \in Stages[gwcall[c].do] \cup {"done", "failed"}
  BY <1>1 DEF Requested
<1> QED BY <1>2, <1>3 DEF Stages, AtWork

LEMMA NobodySends ==
  ASSUME GwTyped, NEW f \in GW!Files
  PROVE  GW!Uploading(f) = {} <=> \A c \in S3Clients : ~Sends(c, f)
BY OnlyParts DEF GW!Uploading, Sends, AtWork

\* Where a step of c leaves the other requests.
Only(c) == DOMAIN gwcall' = S3Clients /\ \A d \in S3Clients \ {c} : gwcall'[d] = gwcall[d]

LEMMA CallGoes ==
  ASSUME GwTyped, NEW c \in S3Clients, NEW r, GW!Goes(c, r)
  PROVE  Only(c) /\ gwcall'[c] = r
BY DEF GwTyped, GW!Goes, Only

LEMMA CallAt ==
  ASSUME GwTyped, NEW c \in S3Clients, gwcall[c].at # "rest", NEW at, GW!At(c, at)
  PROVE  /\ Only(c) /\ DOMAIN gwcall'[c] = CallFields /\ gwcall'[c].at = at
         /\ gwcall'[c].do = gwcall[c].do /\ gwcall'[c].u = gwcall[c].u /\ gwcall'[c].n = gwcall[c].n
         /\ gwcall'[c].ns = gwcall[c].ns /\ gwcall'[c].k = gwcall[c].k /\ gwcall'[c].sent = gwcall[c].sent
         /\ gwcall'[c].file = gwcall[c].file /\ gwcall'[c].got = gwcall[c].got
         /\ gwcall'[c].told = gwcall[c].told /\ gwcall'[c].sure = gwcall[c].sure
<1>1. DOMAIN gwcall[c] = CallFields
  BY UnderWay DEF Requested
<1>2. Only(c) /\ gwcall'[c] = [gwcall[c] EXCEPT !.at = at]
  BY CallGoes DEF GW!At
<1> QED BY <1>1, <1>2 DEF CallFields

\* What is not touched of a part stays as it is.
LEMMA PartLeft ==
  ASSUME GatewayAssumption, GwTyped, NEW f \in GW!Files, PartWhole(f),
         part'[f] = part[f], temp'[f] = temp[f], info'[f] = info[f],
         f[1] \in metas' => f[1] \in metas,
         \A k \in 1 .. MaxGatewayCalls : Has(f, k) => blob'[k] = blob[k],
         \A d \in S3Clients : /\ Sends(d, f)' <=> Sends(d, f)
                              /\ Sends(d, f) => gwcall'[d] = gwcall[d]
  PROVE  PartWhole(f)'
<1>6. \A k \in 1 .. gwcalls : k \in 1 .. MaxGatewayCalls
  BY DEF GwTyped, GatewayAssumption
<1>7. part[f] # Absent => part[f] \in 1 .. MaxGatewayCalls /\ blob'[part[f]] = blob[part[f]]
  BY <1>6 DEF GwTyped, Has
<1>1. Whole(f) => Whole(f)'
  BY <1>7 DEF Whole
<1>2. ASSUME NEW d \in S3Clients, Sends(d, f), Sent(f, gwcall[d])
      PROVE  Sent(f, gwcall[d])'
  <2>1. PICK r : r = gwcall[d] /\ r = gwcall'[d]
    BY <1>2
  <2>2. r.at \in {"chunk", "replace"} => blob'[r.file] = blob[r.file]
    <3>1. r.at \in {"chunk", "replace"} => r.file \in 1 .. gwcalls
      BY <2>1, UnderWay DEF Requested
    <3> QED BY <1>2, <1>6, <2>1, <3>1 DEF Has, WritesTo, Sends
  <2>4. Sent(f, r) => Sent(f, r)'
    BY <1>1, <1>7, <2>2 DEF Sent
  <2> QED BY <1>2, <2>1, <2>4
<1>3. (\A c \in S3Clients : ~Sends(c, f)') => temp'[f] = Absent /\ Whole(f)'
  BY <1>1 DEF PartWhole
<1>4. \A c, d \in S3Clients : Sends(c, f)' /\ Sends(d, f)' => c = d
  BY DEF PartWhole
<1>5. \A d \in S3Clients : Sends(d, f)' => Sent(f, gwcall[d])'
  BY <1>2 DEF PartWhole
<1> QED BY <1>3, <1>4, <1>5 DEF PartWhole

LEMMA TypedStays ==
  ASSUME GatewayAssumption, GwTyped, NEW c \in S3Clients, Only(c),
         gwcalls' \in Nat, gwcalls <= gwcalls', gwcalls' <= MaxGatewayCalls,
         dirs' \subseteq Uploads, metas' \subseteq dirs', ended' \subseteq Uploads, stray' \subseteq Uploads,
         gwmixed' \subseteq GW!Files,
         part' \in [GW!Files -> 1 .. gwcalls \cup {Absent}],
         temp' \in [GW!Files -> 1 .. gwcalls \cup {Absent}],
         info' \in [GW!Files -> 1 .. gwcalls \cup {Absent}],
         blob' \in [1 .. MaxGatewayCalls -> Chunky],
         Requested(gwcall'[c], gwcalls')
  PROVE  GwTyped'
<1>1. gwcalls \in Nat /\ MaxGatewayCalls \in Nat
  BY DEF GwTyped, GatewayAssumption
<1>2. \A k \in 1 .. gwcalls : k \in 1 .. gwcalls'
  BY <1>1
<1>3. ASSUME NEW r, Requested(r, gwcalls)
      PROVE  Requested(r, gwcalls')
  BY <1>2, <1>3 DEF Requested
<1>4. \A d \in S3Clients : gwcall'[d] = [at |-> "rest", do |-> "none"] \/ Requested(gwcall'[d], gwcalls')
  BY <1>3 DEF GwTyped, Only
<1>5. /\ part' \in [GW!Files -> 1 .. gwcalls' \cup {Absent}]
      /\ temp' \in [GW!Files -> 1 .. gwcalls' \cup {Absent}]
      /\ info' \in [GW!Files -> 1 .. gwcalls' \cup {Absent}]
  BY <1>2
<1>6. gwcalls' \in 0 .. MaxGatewayCalls
  BY <1>1
<1>7. DOMAIN gwcall' = S3Clients
  BY DEF Only
<1>8. GW!Files' = GW!Files /\ Chunky' = Chunky
  BY DEF GW!Files, Chunky
<1> QED BY <1>4, <1>5, <1>6, <1>7, <1>8 DEF GwTyped, Requested

LEMMA MadeStays ==
  ASSUME UploadsMade, NEW c \in S3Clients, Only(c), metas' = metas, ended' = ended,
         \A u \in dirs \ (metas \cup ended) : u \in dirs',
         gwcall'[c].at # "meta",
         gwcall'[c].at \in AtWork \cup {"infos", "merge", "clean", "remove"} => gwcall'[c].u \in metas \cup ended,
         \A f \in GW!Files : f[1] \notin metas \cup ended =>
            part'[f] = part[f] /\ temp'[f] = temp[f] /\ info'[f] = info[f]
  PROVE  UploadsMade'
<1>1. \A d \in S3Clients : gwcall'[d].at = "meta" => d # c /\ gwcall'[d] = gwcall[d]
  BY DEF Only
<1>2. \A d \in S3Clients : gwcall'[d].at = "meta" => gwcall'[d].u \in dirs' \ (metas' \cup ended')
  BY <1>1 DEF UploadsMade
<1>3. \A d, e \in S3Clients :
        gwcall'[d].at = "meta" /\ gwcall'[e].at = "meta" /\ gwcall'[d].u = gwcall'[e].u => d = e
  BY <1>1 DEF UploadsMade
<1>4. \A d \in S3Clients : gwcall'[d].at \in AtWork \cup {"infos", "merge", "clean", "remove"} =>
        gwcall'[d].u \in metas' \cup ended'
  BY DEF UploadsMade, Only
<1>5. \A f \in GW!Files : f[1] \notin metas' \cup ended' =>
        part'[f] = Absent /\ temp'[f] = Absent /\ info'[f] = Absent
  BY DEF UploadsMade
<1> QED BY <1>2, <1>3, <1>4, <1>5 DEF UploadsMade

LEMMA StraysStay ==
  ASSUME StraysTold, NEW c \in S3Clients, Only(c), ended' = ended, stray' = stray,
         ended \cap dirs' \subseteq stray,
         gwcall'[c].at \in AtWork /\ gwcall'[c].u \in ended => gwcall'[c].u \in stray
  PROVE  StraysTold'
BY DEF StraysTold, Only

LEMMA ApartAgain ==
  ASSUME \A k \in 1 .. MaxGatewayCalls, f, g \in GW!Files : Has(f, k)' /\ Has(g, k)' => f = g,
         \A d \in S3Clients : gwcall'[d].do = "part" /\ gwcall'[d].at \in {"load", "open"} =>
            \E k : k = gwcall'[d].k /\ \A f \in GW!Files : ~Has(f, k)',
         \A d, e \in S3Clients : (/\ gwcall'[d].do = "part" /\ gwcall'[d].at \in {"load", "open"}
                                  /\ gwcall'[e].do = "part" /\ gwcall'[e].at \in {"load", "open"}
                                  /\ gwcall'[d].k = gwcall'[e].k) => e = d
  PROVE  FilesApart'
<1>1. GW!Files' = GW!Files
  BY DEF GW!Files
<1>2. ASSUME NEW d \in S3Clients, gwcall'[d].do = "part", gwcall'[d].at \in {"load", "open"}
      PROVE  \A f \in GW!Files :
               /\ part'[f] # gwcall'[d].k /\ temp'[f] # gwcall'[d].k
               /\ \A e \in S3Clients : WritesTo(e, f)' => gwcall'[e].file # gwcall'[d].k
  BY <1>2 DEF Has
<1> QED BY <1>1, <1>2 DEF FilesApart, Has

LEMMA FilesStay ==
  ASSUME GatewayAssumption, GwTyped, FilesApart, NEW c \in S3Clients, Only(c),
         \A f \in GW!Files, k \in 1 .. MaxGatewayCalls : Has(f, k)' => Has(f, k),
         \/ ~(gwcall'[c].do = "part" /\ gwcall'[c].at \in {"load", "open"})
         \/ gwcall[c].do = "part" /\ gwcall[c].at \in {"load", "open"} /\ gwcall'[c].k = gwcall[c].k
  PROVE  FilesApart'
<1>2. \A k \in 1 .. MaxGatewayCalls, f, g \in GW!Files : Has(f, k)' /\ Has(g, k)' => f = g
  BY DEF FilesApart
<1>3. ASSUME NEW d \in S3Clients, gwcall'[d].do = "part", gwcall'[d].at \in {"load", "open"}
      PROVE  gwcall[d].do = "part" /\ gwcall[d].at \in {"load", "open"} /\ gwcall'[d].k = gwcall[d].k
  BY <1>3 DEF Only
<1>4. ASSUME NEW d \in S3Clients, gwcall'[d].do = "part", gwcall'[d].at \in {"load", "open"}
      PROVE  \E k : k = gwcall'[d].k /\ \A f \in GW!Files : ~Has(f, k)'
  <2>1. Requested(gwcall[d], gwcalls)
    BY <1>3, <1>4, UnderWay
  <2>2. gwcall[d].k \in 1 .. MaxGatewayCalls
    BY <2>1 DEF Requested, GwTyped, GatewayAssumption
  <2>3. PICK k \in 1 .. MaxGatewayCalls : k = gwcall[d].k
    BY <2>2
  <2>4. \A f \in GW!Files : ~Has(f, k)
    BY <1>3, <1>4, <2>3 DEF FilesApart
  <2>5. \A f \in GW!Files : ~Has(f, k)'
    BY <2>4
  <2>6. gwcall'[d].k = k
    BY <1>3, <1>4, <2>3
  <2> QED BY <2>5, <2>6
<1>5. ASSUME NEW d \in S3Clients, gwcall'[d].do = "part", gwcall'[d].at \in {"load", "open"},
             NEW e \in S3Clients, gwcall'[e].do = "part", gwcall'[e].at \in {"load", "open"},
             gwcall'[d].k = gwcall'[e].k
      PROVE  e = d
  BY <1>3, <1>5 DEF FilesApart
<1>6. \A d \in S3Clients : gwcall'[d].do = "part" /\ gwcall'[d].at \in {"load", "open"} =>
        \E k : k = gwcall'[d].k /\ \A f \in GW!Files : ~Has(f, k)'
  BY <1>4
<1>7. \A d, e \in S3Clients : (/\ gwcall'[d].do = "part" /\ gwcall'[d].at \in {"load", "open"}
                               /\ gwcall'[e].do = "part" /\ gwcall'[e].at \in {"load", "open"}
                               /\ gwcall'[d].k = gwcall'[e].k) => e = d
  BY <1>5
<1> QED BY <1>2, <1>6, <1>7, ApartAgain

LEMMA MergedStays ==
  ASSUME MergedRight, NEW c \in S3Clients, Only(c), gwmixed \subseteq gwmixed',
         gwmixed = {} /\ gwcall'[c].do = "complete" /\ gwcall'[c].at \in {"merge", "clean", "done"} /\ gwcall'[c].sure =>
            \A i \in 1 .. Len(gwcall'[c].got) : gwcall'[c].got[i] = GW!ContentOf(gwcall'[c].told[i])
  PROVE  MergedRight'
<1>1. SUFFICES ASSUME gwmixed' = {} PROVE \A d \in S3Clients :
        gwcall'[d].do = "complete" /\ gwcall'[d].at \in {"merge", "clean", "done"} /\ gwcall'[d].sure =>
            \A i \in 1 .. Len(gwcall'[d].got) : gwcall'[d].got[i] = GW!ContentOf(gwcall'[d].told[i])
  BY DEF MergedRight, GW!ContentOf
<1>2. gwmixed = {}
  BY <1>1
<1> QED BY <1>2 DEF MergedRight, Only

\* A step of a request that sends no part, and goes on to send none.
LEMMA QuietParts ==
  ASSUME GatewayAssumption, GwTyped, PartsWhole, NEW c \in S3Clients, Only(c),
         gwcall[c].at \notin AtWork, gwcall'[c].at \notin AtWork,
         temp' = temp, part' = part, info' = info, blob' = blob, gwmixed' = gwmixed,
         \A f \in GW!Files : f[1] \in metas' => f[1] \in metas
  PROVE  /\ PartsWhole'
         /\ \A f \in GW!Files, k \in 1 .. MaxGatewayCalls : Has(f, k)' => Has(f, k)
<1>1. ASSUME NEW f \in GW!Files, NEW d \in S3Clients
      PROVE  /\ Sends(d, f)' <=> Sends(d, f)
             /\ Sends(d, f) => gwcall'[d] = gwcall[d]
             /\ WritesTo(d, f)' => WritesTo(d, f) /\ gwcall'[d] = gwcall[d]
  <2>1. CASE d = c
    BY <2>1 DEF Sends, WritesTo, AtWork
  <2>2. CASE d # c
    <3>1. gwcall'[d] = gwcall[d]
      BY <2>2 DEF Only
    <3> QED BY <3>1 DEF Sends, WritesTo, GW!F
  <2> QED BY <2>1, <2>2
<1>2. ASSUME NEW f \in GW!Files \ gwmixed PROVE PartWhole(f)'
  BY <1>1, <1>2, PartLeft DEF PartsWhole
<1>3. PartsWhole'
  BY <1>2 DEF PartsWhole, GW!Files
<1>4. ASSUME NEW f \in GW!Files, NEW k \in 1 .. MaxGatewayCalls, Has(f, k)' PROVE Has(f, k)
  BY <1>1, <1>4 DEF Has
<1> QED BY <1>3, <1>4

LEMMA RequestedMoves ==
  ASSUME NEW r, NEW s, NEW k, Requested(r, k), DOMAIN s = CallFields,
         s.do = r.do, s.u = r.u, s.n = r.n, s.ns = r.ns, s.k = r.k, s.sent = r.sent,
         s.got = r.got, s.told = r.told,
         s.at \in (Stages[r.do] \cup {"done", "failed"}) \ {"load", "open", "chunk", "replace", "infos"},
         r.do = "complete" /\ s.at \in {"merge", "clean", "done"} =>
            r.at \in {"merge", "clean", "done"} /\ (s.at # "merge" => Len(r.got) = Len(r.ns))
  PROVE  Requested(s, k)
BY DEF Requested

LEMMA GwParts ==
  ASSUME GwInv
  PROVE  /\ GwTyped /\ UploadsMade /\ StraysTold /\ FilesApart /\ PartsWhole /\ MergedRight
         /\ gwcalls \in 0 .. MaxGatewayCalls
         /\ dirs \subseteq Uploads /\ metas \subseteq dirs /\ ended \subseteq Uploads /\ stray \subseteq Uploads
         /\ gwmixed \subseteq GW!Files
         /\ part \in [GW!Files -> 1 .. gwcalls \cup {Absent}]
         /\ temp \in [GW!Files -> 1 .. gwcalls \cup {Absent}]
         /\ info \in [GW!Files -> 1 .. gwcalls \cup {Absent}]
         /\ blob \in [1 .. MaxGatewayCalls -> Chunky]
BY DEF GwInv, GwTyped

LEMMA ListsAreParts ==
  ASSUME NEW ns \in GW!Lists
  PROVE  ns \in Seq(Parts)
<1>1. CASE \E n \in Parts : ns = <<n>>
  BY <1>1
<1>2. CASE ns \in [{1, 2} -> Parts]
  <2>1. {1, 2} = 1 .. 2
    OBVIOUS
  <2>2. ns \in [1 .. 2 -> Parts]
    BY <1>2, <2>1
  <2>3. PICK m \in Nat : m = 2
    OBVIOUS
  <2>4. ns \in [1 .. m -> Parts]
    BY <2>2, <2>3
  <2>5. Seq(Parts) = UNION {[1 .. n -> Parts] : n \in Nat}
    BY SeqDef
  <2> QED BY <2>4, <2>5
<1> QED BY <1>1, <1>2 DEF GW!Lists

LEMMA GwBegin ==
  ASSUME GatewayAssumption, GwInv, NEW c \in S3Clients, NEW do \in DOMAIN Stages, NEW u, NEW ns \in Seq(Parts),
         do # "put" => u \in Uploads, do = "part" => ns # <<>>,
         GW!Begin(c, do, u, ns)
  PROVE  GwInv'
<1> DEFINE r == gwcall'[c]
<1>1. /\ gwcall[c].at \in {"rest", "done", "failed"} /\ gwcalls < MaxGatewayCalls /\ gwcalls' = gwcalls + 1
      /\ dirs' = dirs /\ metas' = metas /\ temp' = temp /\ part' = part /\ info' = info /\ blob' = blob
      /\ ended' = ended /\ stray' = stray /\ gwmixed' = gwmixed
  BY DEF GW!Begin, GW!Idle, GW!Disk, GW!History
<1>2. Only(c) /\ gwcall'[c] = [do |-> do, at |-> IF do = "create" THEN "make" ELSE IF do = "put" THEN "put" ELSE "load", u |-> u,
                n |-> IF do = "part" THEN Head(ns) ELSE Absent, ns |-> ns, k |-> gwcalls', sent |-> 0,
                file |-> Absent, got |-> <<>>, told |-> <<>>, sure |-> TRUE]
  BY CallGoes, GwParts DEF GW!Begin
<1>3. /\ DOMAIN r = CallFields /\ r.do = do /\ r.u = u /\ r.ns = ns /\ r.k = gwcalls' /\ r.sent = 0 /\ r.got = <<>>
      /\ r.n = IF do = "part" THEN Head(ns) ELSE Absent
      /\ r.at = IF do = "create" THEN "make" ELSE IF do = "put" THEN "put" ELSE "load"
  BY <1>2 DEF CallFields
<1>4. r.at \in {"make", "put", "load"} /\ (do = "part" => r.n \in Parts) /\ r.at \in Stages[do]
  <2>1. do \in {"part", "complete", "create", "abort", "put"}
    BY DEF Stages
  <2> QED BY <1>3, <2>1 DEF Stages
<1>5. gwcalls' \in Nat /\ gwcalls <= gwcalls' /\ gwcalls' <= MaxGatewayCalls /\ r.k \in 1 .. gwcalls'
  BY <1>1, <1>3, GwParts DEF GatewayAssumption
<1>6. Requested(r, gwcalls')
  <2>1. 0 \in 0 .. Chunks
    BY DEF GatewayAssumption
  <2>2. r.ns \in Seq(Parts) /\ r.sent \in 0 .. Chunks /\ r.got \in Seq(Chunky)
    BY <1>3, <2>1
  <2> HIDE DEF r
  <2> QED BY <1>3, <1>4, <1>5, <2>2 DEF Requested
<1>7. GwTyped'
  BY <1>1, <1>2, <1>5, <1>6, TypedStays, GwParts
<1>8. UploadsMade'
  BY <1>1, <1>2, <1>4, MadeStays, GwParts DEF AtWork
<1>9. StraysTold'
  <2>1. ended \cap dirs \subseteq stray
    BY GwParts DEF StraysTold
  <2> QED BY <1>1, <1>2, <1>4, <2>1, StraysStay, GwParts DEF AtWork
<1>10. PartsWhole' /\ \A f \in GW!Files, k \in 1 .. MaxGatewayCalls : Has(f, k)' => Has(f, k)
  BY <1>1, <1>2, <1>4, QuietParts, GwParts DEF AtWork
<1>11. MergedRight'
  BY <1>1, <1>2, <1>4, MergedStays, GwParts
<1>12. FilesApart'
  <2>1. \A f \in GW!Files, k \in 1 .. MaxGatewayCalls : Has(f, k) => k <= gwcalls
    <3>1. ASSUME NEW f \in GW!Files, NEW k \in 1 .. MaxGatewayCalls, Has(f, k) PROVE k <= gwcalls
      <4>1. CASE part[f] = k \/ temp[f] = k
        BY <4>1, GwParts DEF GatewayAssumption
      <4>2. ASSUME NEW d \in S3Clients, WritesTo(d, f), gwcall[d].file = k PROVE k <= gwcalls
        <5>1. Requested(gwcall[d], gwcalls)
          BY <4>2, UnderWay, GwParts DEF WritesTo
        <5> QED BY <4>2, <5>1, GwParts DEF Requested, WritesTo
      <4> QED BY <3>1, <4>1, <4>2 DEF Has
    <3> QED BY <3>1
  <2>2. PICK k \in 1 .. MaxGatewayCalls : k = gwcalls'
    BY <1>5 DEF GatewayAssumption
  <2>3. \A f \in GW!Files : ~Has(f, k)'
    BY <1>1, <1>10, <2>1, <2>2, GwParts DEF GatewayAssumption
  <2>4. \A f, g \in GW!Files, j \in 1 .. MaxGatewayCalls : Has(f, j)' /\ Has(g, j)' => f = g
    BY <1>10, GwParts DEF FilesApart
  <2>5. ASSUME NEW d \in S3Clients, d # c, gwcall'[d].do = "part", gwcall'[d].at \in {"load", "open"}
        PROVE  /\ gwcall'[d] = gwcall[d] /\ gwcall[d].k \in 1 .. gwcalls
               /\ \A f \in GW!Files : ~Has(f, gwcall[d].k)
    <3>1. gwcall'[d] = gwcall[d]
      BY <1>2, <2>5 DEF Only
    <3>2. Requested(gwcall[d], gwcalls)
      BY <2>5, <3>1, UnderWay, GwParts
    <3> QED BY <2>5, <3>1, <3>2, GwParts DEF Requested, FilesApart
  <2>6. ASSUME NEW d \in S3Clients, gwcall'[d].do = "part", gwcall'[d].at \in {"load", "open"}
        PROVE  \E j : j = gwcall'[d].k /\ \A f \in GW!Files : ~Has(f, j)'
    <3>1. CASE d = c
      BY <1>3, <2>2, <2>3, <3>1
    <3>2. CASE d # c
      <4>1. PICK j \in 1 .. gwcalls : j = gwcall[d].k
        BY <2>5, <2>6, <3>2
      <4>2. j \in 1 .. MaxGatewayCalls
        BY GwParts DEF GatewayAssumption
      <4>3. \A f \in GW!Files : ~Has(f, j)
        BY <2>5, <2>6, <3>2, <4>1
      <4> QED BY <1>10, <2>5, <2>6, <3>2, <4>1, <4>2, <4>3
    <3> QED BY <3>1, <3>2
  <2>7. ASSUME NEW d \in S3Clients, gwcall'[d].do = "part", gwcall'[d].at \in {"load", "open"},
               NEW e \in S3Clients, gwcall'[e].do = "part", gwcall'[e].at \in {"load", "open"},
               gwcall'[d].k = gwcall'[e].k
        PROVE  e = d
    <3>1. ASSUME NEW x \in S3Clients, x # c, gwcall'[x].do = "part", gwcall'[x].at \in {"load", "open"}
          PROVE  gwcall'[x].k # gwcalls'
      BY <1>1, <2>5, <3>1, GwParts
    <3> QED BY <1>3, <2>5, <2>7, <3>1, GwParts DEF FilesApart
  <2>8. \A m \in 1 .. MaxGatewayCalls, f, g \in GW!Files : Has(f, m)' /\ Has(g, m)' => f = g
    BY <2>4
  <2>9. \A d \in S3Clients : gwcall'[d].do = "part" /\ gwcall'[d].at \in {"load", "open"} =>
          \E j : j = gwcall'[d].k /\ \A f \in GW!Files : ~Has(f, j)'
    BY <2>6
  <2>10. \A d, e \in S3Clients : (/\ gwcall'[d].do = "part" /\ gwcall'[d].at \in {"load", "open"}
                                  /\ gwcall'[e].do = "part" /\ gwcall'[e].at \in {"load", "open"}
                                  /\ gwcall'[d].k = gwcall'[e].k) => e = d
    BY <2>7
  <2> QED BY <2>8, <2>9, <2>10, ApartAgain
<1> QED BY <1>7, <1>8, <1>9, <1>10, <1>11, <1>12 DEF GwInv

\* A step that leaves the disk alone and sends no part.
LEMMA Quietly ==
  ASSUME GatewayAssumption, GwInv, NEW c \in S3Clients, Only(c), Requested(gwcall'[c], gwcalls),
         UNCHANGED <<dirs, metas, temp, part, info, blob, gwcalls, ended, stray, gwmixed>>,
         gwcall[c].at \notin AtWork, gwcall'[c].at \notin AtWork \cup {"meta", "load"},
         gwcall'[c].at \in {"infos", "merge", "clean", "remove"} => gwcall'[c].u \in metas \cup ended,
         gwmixed = {} /\ gwcall'[c].do = "complete" /\ gwcall'[c].at \in {"merge", "clean", "done"} /\ gwcall'[c].sure =>
            \A i \in 1 .. Len(gwcall'[c].got) : gwcall'[c].got[i] = GW!ContentOf(gwcall'[c].told[i])
  PROVE  GwInv'
<1>1. GwTyped'
  <2>1. gwcalls \in Nat /\ gwcalls <= gwcalls /\ gwcalls <= MaxGatewayCalls
    BY GwParts DEF GatewayAssumption
  <2> QED BY <2>1, TypedStays, GwParts
<1>2. UploadsMade'
  BY MadeStays, GwParts
<1>3. StraysTold'
  <2>1. ended \cap dirs \subseteq stray
    BY GwParts DEF StraysTold
  <2> QED BY <2>1, StraysStay, GwParts
<1>4. PartsWhole' /\ \A f \in GW!Files, k \in 1 .. MaxGatewayCalls : Has(f, k)' => Has(f, k)
  BY QuietParts, GwParts
<1>5. FilesApart'
  <2>1. gwcall'[c].at \notin {"load", "open"}
    BY DEF AtWork
  <2> QED BY <1>4, <2>1, FilesStay, GwParts
<1>6. MergedRight'
  BY MergedStays, GwParts
<1> QED BY <1>1, <1>2, <1>3, <1>4, <1>5, <1>6 DEF GwInv

LEMMA GwMake ==
  ASSUME GatewayAssumption, GwInv, NEW c \in S3Clients, GW!Make(c)
  PROVE  GwInv'
<1>1. /\ gwcall[c].at = "make" /\ gwcall[c].u \notin dirs \cup ended /\ dirs' = dirs \cup {gwcall[c].u}
      /\ GW!At(c, "meta")
      /\ UNCHANGED <<metas, temp, part, info, blob, gwcalls, ended, stray, gwmixed>>
  BY DEF GW!Make, GW!Is, GW!History
<1>2. Requested(gwcall[c], gwcalls) /\ gwcall[c].do = "create" /\ gwcall[c].u \in Uploads
  <2>1. Requested(gwcall[c], gwcalls)
    BY <1>1, UnderWay, GwParts
  <2>2. gwcall[c].do \in {"part", "complete", "create", "abort", "put"}
    BY <2>1 DEF Requested, Stages
  <2>3. gwcall[c].do = "create"
    BY <1>1, <2>1, <2>2 DEF Requested, Stages, AtWork
  <2> QED BY <2>1, <2>3 DEF Requested
<1>3. /\ Only(c) /\ DOMAIN gwcall'[c] = CallFields /\ gwcall'[c].at = "meta"
      /\ gwcall'[c].do = "create" /\ gwcall'[c].u = gwcall[c].u
  BY <1>1, <1>2, CallAt, GwParts
<1>4. Requested(gwcall'[c], gwcalls)
  <2>1. "meta" \in (Stages["create"] \cup {"done", "failed"}) \ {"load", "open", "chunk", "replace", "infos"}
    BY DEF Stages
  <2> QED BY <1>1, <1>2, <1>3, <2>1, CallAt, RequestedMoves, GwParts
<1>5. GwTyped'
  <2>1. gwcalls \in Nat /\ gwcalls <= gwcalls /\ gwcalls <= MaxGatewayCalls
    BY GwParts DEF GatewayAssumption
  <2>2. dirs' \subseteq Uploads /\ metas' \subseteq dirs'
    BY <1>1, <1>2, GwParts
  <2> QED BY <1>1, <1>3, <1>4, <2>1, <2>2, TypedStays, GwParts
<1>6. UploadsMade'
  <2>1. PICK u : u = gwcall[c].u
    OBVIOUS
  <2>2. \A d \in S3Clients : d # c => gwcall'[d] = gwcall[d]
    BY <1>3 DEF Only
  <2>3. u \notin metas \cup ended /\ dirs' = dirs \cup {u} /\ gwcall'[c].u = u /\ u \notin dirs
    BY <1>1, <1>3, <2>1, GwParts
  <2>4. \A d \in S3Clients : gwcall'[d].at = "meta" => gwcall'[d].u \in dirs' \ (metas' \cup ended')
    BY <1>1, <2>2, <2>3, GwParts DEF UploadsMade
  <2>5. \A d, e \in S3Clients :
          gwcall'[d].at = "meta" /\ gwcall'[e].at = "meta" /\ gwcall'[d].u = gwcall'[e].u => d = e
    BY <1>1, <2>2, <2>3, GwParts DEF UploadsMade
  <2>6. \A d \in S3Clients : gwcall'[d].at \in AtWork \cup {"infos", "merge", "clean", "remove"} =>
          gwcall'[d].u \in metas' \cup ended'
    BY <1>1, <1>3, <2>2, GwParts DEF UploadsMade, AtWork
  <2> QED BY <1>1, <2>4, <2>5, <2>6, GwParts DEF UploadsMade
<1>7. StraysTold'
  <2>1. ended \cap dirs' \subseteq stray
    BY <1>1, GwParts DEF StraysTold
  <2> QED BY <1>1, <1>3, <2>1, StraysStay, GwParts DEF AtWork
<1>8. PartsWhole' /\ \A f \in GW!Files, k \in 1 .. MaxGatewayCalls : Has(f, k)' => Has(f, k)
  BY <1>1, <1>3, QuietParts, GwParts DEF AtWork
<1>9. FilesApart'
  BY <1>3, <1>8, FilesStay, GwParts
<1>10. MergedRight'
  BY <1>1, <1>3, MergedStays, GwParts
<1> QED BY <1>5, <1>6, <1>7, <1>8, <1>9, <1>10 DEF GwInv

LEMMA GwWriteMeta ==
  ASSUME GatewayAssumption, GwInv, NEW c \in S3Clients, GW!WriteMeta(c)
  PROVE  GwInv'
<1>1. /\ gwcall[c].at = "meta" /\ metas' = metas \cup {gwcall[c].u} /\ GW!At(c, "done")
      /\ UNCHANGED <<dirs, temp, part, info, blob, gwcalls, ended, stray, gwmixed>>
  BY DEF GW!WriteMeta, GW!Is, GW!History
<1>2. Requested(gwcall[c], gwcalls) /\ gwcall[c].do = "create"
  <2>1. Requested(gwcall[c], gwcalls)
    BY <1>1, UnderWay, GwParts
  <2>2. gwcall[c].do \in {"part", "complete", "create", "abort", "put"}
    BY <2>1 DEF Requested, Stages
  <2> QED BY <1>1, <2>1, <2>2 DEF Requested, Stages, AtWork
<1>3. /\ Only(c) /\ DOMAIN gwcall'[c] = CallFields /\ gwcall'[c].at = "done"
      /\ gwcall'[c].do = "create" /\ gwcall'[c].u = gwcall[c].u
  BY <1>1, <1>2, CallAt, GwParts
<1>4. Requested(gwcall'[c], gwcalls)
  <2>1. "done" \in (Stages["create"] \cup {"done", "failed"}) \ {"load", "open", "chunk", "replace", "infos"}
    BY DEF Stages
  <2> QED BY <1>1, <1>2, <1>3, <2>1, CallAt, RequestedMoves, GwParts
<1>5. PICK u : u = gwcall[c].u
  OBVIOUS
<1>6. u \in dirs \ (metas \cup ended) /\ metas' = metas \cup {u}
  BY <1>1, <1>5, GwParts DEF UploadsMade
<1>7. GwTyped'
  <2>1. gwcalls \in Nat /\ gwcalls <= gwcalls /\ gwcalls <= MaxGatewayCalls
    BY GwParts DEF GatewayAssumption
  <2>2. metas' \subseteq dirs'
    BY <1>1, <1>6, GwParts
  <2> QED BY <1>1, <1>3, <1>4, <2>1, <2>2, TypedStays, GwParts
<1>8. UploadsMade'
  <2>1. \A d \in S3Clients : d # c => gwcall'[d] = gwcall[d]
    BY <1>3 DEF Only
  <2>2. \A d \in S3Clients : gwcall'[d].at = "meta" => gwcall[d].at = "meta" /\ gwcall'[d].u = gwcall[d].u /\ gwcall[d].u # u
    BY <1>1, <1>3, <1>5, <2>1, GwParts DEF UploadsMade
  <2>3. metas' \cap ended' = {}
    BY <1>1, <1>6, GwParts DEF UploadsMade
  <2>4. \A d \in S3Clients : gwcall'[d].at = "meta" => gwcall'[d].u \in dirs' \ (metas' \cup ended')
    BY <1>1, <1>6, <2>2, GwParts DEF UploadsMade
  <2>5. \A d, e \in S3Clients :
          gwcall'[d].at = "meta" /\ gwcall'[e].at = "meta" /\ gwcall'[d].u = gwcall'[e].u => d = e
    BY <2>2, GwParts DEF UploadsMade
  <2>6. \A d \in S3Clients : gwcall'[d].at \in AtWork \cup {"infos", "merge", "clean", "remove"} =>
          gwcall'[d].u \in metas' \cup ended'
    BY <1>1, <1>3, <1>6, <2>1, GwParts DEF UploadsMade, AtWork
  <2>7. \A f \in GW!Files : f[1] \notin metas' \cup ended' =>
          part'[f] = Absent /\ temp'[f] = Absent /\ info'[f] = Absent
    BY <1>1, <1>6, GwParts DEF UploadsMade
  <2> QED BY <2>3, <2>4, <2>5, <2>6, <2>7 DEF UploadsMade
<1>9. StraysTold'
  <2>1. ended \cap dirs' \subseteq stray
    BY <1>1, GwParts DEF StraysTold
  <2> QED BY <1>1, <1>3, <2>1, StraysStay, GwParts DEF AtWork
<1>10. ASSUME NEW f \in GW!Files, NEW d \in S3Clients
       PROVE  /\ Sends(d, f)' <=> Sends(d, f)
              /\ Sends(d, f) => gwcall'[d] = gwcall[d]
              /\ WritesTo(d, f)' => WritesTo(d, f) /\ gwcall'[d] = gwcall[d]
  <2>1. CASE d = c
    BY <1>1, <1>3, <2>1 DEF Sends, WritesTo, AtWork
  <2>2. CASE d # c
    <3>1. gwcall'[d] = gwcall[d]
      BY <1>3, <2>2 DEF Only
    <3> QED BY <3>1 DEF Sends, WritesTo, GW!F
  <2> QED BY <2>1, <2>2
<1>11. ASSUME NEW f \in GW!Files \ gwmixed PROVE PartWhole(f)'
  <2>1. CASE f[1] # u
    BY <1>1, <1>6, <1>10, <1>11, <2>1, PartLeft, GwParts DEF PartsWhole
  <2>2. CASE f[1] = u
    <3>1. temp[f] = Absent /\ info[f] = Absent
      BY <1>6, <2>2, GwParts DEF UploadsMade
    <3>2. \A d \in S3Clients : ~Sends(d, f)
      BY <1>6, <2>2, GwParts DEF UploadsMade, Sends, GW!F
    <3>3. \A d \in S3Clients : ~Sends(d, f)'
      BY <1>10, <3>2
    <3> QED BY <1>1, <3>1, <3>3 DEF PartWhole, Whole
  <2> QED BY <2>1, <2>2
<1>12. PartsWhole'
  BY <1>1, <1>11 DEF PartsWhole, GW!Files
<1>13. \A f \in GW!Files, k \in 1 .. MaxGatewayCalls : Has(f, k)' => Has(f, k)
  BY <1>1, <1>10 DEF Has
<1>14. FilesApart'
  BY <1>3, <1>13, FilesStay, GwParts
<1>15. MergedRight'
  BY <1>1, <1>3, MergedStays, GwParts
<1> QED BY <1>7, <1>8, <1>9, <1>12, <1>14, <1>15 DEF GwInv

\* What a request can be at tells what it does.
LEMMA DoesWhat ==
  ASSUME GwTyped, NEW c \in S3Clients, gwcall[c].at \notin {"rest", "done", "failed"}
  PROVE  /\ Requested(gwcall[c], gwcalls)
         /\ gwcall[c].do \in {"part", "complete", "create", "abort", "put"}
         /\ gwcall[c].at \in Stages[gwcall[c].do]
         /\ gwcall[c].at = "load" => gwcall[c].do \in {"part", "complete", "abort"}
         /\ gwcall[c].at \in {"infos", "merge", "clean"} => gwcall[c].do = "complete"
         /\ gwcall[c].at = "remove" => gwcall[c].do = "abort"
         /\ gwcall[c].at \in {"put", "look"} => gwcall[c].do = "put"
         /\ gwcall[c].at \in AtWork => gwcall[c].do = "part"
         /\ gwcall[c].at \in {"make", "meta"} => gwcall[c].do = "create"
<1>1. Requested(gwcall[c], gwcalls)
  BY UnderWay
<1>2. PICK do, at : do \in {"part", "complete", "create", "abort", "put"} /\ do = gwcall[c].do /\ at = gwcall[c].at
  BY <1>1 DEF Requested, Stages
<1>3. at \in Stages[do]
  BY <1>1, <1>2 DEF Requested
<1>4. CASE do = "part"
  BY <1>1, <1>2, <1>3, <1>4 DEF Stages, AtWork
<1>5. CASE do = "complete"
  BY <1>1, <1>2, <1>3, <1>5 DEF Stages, AtWork
<1>6. CASE do = "create"
  BY <1>1, <1>2, <1>3, <1>6 DEF Stages, AtWork
<1>7. CASE do = "abort"
  BY <1>1, <1>2, <1>3, <1>7 DEF Stages, AtWork
<1>8. CASE do = "put"
  BY <1>1, <1>2, <1>3, <1>8 DEF Stages, AtWork
<1> QED BY <1>2, <1>4, <1>5, <1>6, <1>7, <1>8

LEMMA GwLoadFinds ==
  ASSUME GatewayAssumption, GwInv, NEW c \in S3Clients, GW!LoadMeta(c),
         gwcall[c].u \notin metas \/ gwcall[c].do \in {"abort", "complete"}
  PROVE  GwInv'
<1>1. gwcall[c].at = "load" /\ UNCHANGED <<dirs, metas, temp, part, info, blob, gwcalls, ended, stray>>
  BY DEF GW!LoadMeta, GW!Is, GW!Disk
<1>2. gwmixed' = gwmixed
  BY DEF GW!LoadMeta
<1>3. /\ Requested(gwcall[c], gwcalls) /\ gwcall[c].do \in {"part", "complete", "abort"}
      /\ gwcall[c].at \in Stages[gwcall[c].do] /\ gwcall[c].u \in Uploads
  <2>1. Requested(gwcall[c], gwcalls) /\ gwcall[c].do \in {"part", "complete", "abort"} /\ gwcall[c].at \in Stages[gwcall[c].do]
    BY <1>1, DoesWhat, GwParts
  <2>2. gwcall[c].u \in Uploads
    BY <2>1 DEF Requested
  <2> QED BY <2>1, <2>2
<1>4. PICK at \in {"failed", "remove", "infos"} :
        /\ GW!At(c, at) /\ (at = "failed" \/ gwcall[c].u \in metas)
        /\ at = "remove" => gwcall[c].do = "abort"
        /\ at = "infos" => gwcall[c].do = "complete"
  <2>1. CASE gwcall[c].u \notin metas
    BY <2>1 DEF GW!LoadMeta
  <2>2. CASE gwcall[c].u \in metas /\ gwcall[c].do = "abort"
    BY <2>2 DEF GW!LoadMeta
  <2>3. CASE gwcall[c].u \in metas /\ gwcall[c].do = "complete"
    BY <2>3 DEF GW!LoadMeta
  <2> QED BY <1>3, <2>1, <2>2, <2>3
<1>5. /\ Only(c) /\ DOMAIN gwcall'[c] = CallFields /\ gwcall'[c].at = at
      /\ gwcall'[c].do = gwcall[c].do /\ gwcall'[c].u = gwcall[c].u /\ gwcall'[c].n = gwcall[c].n
      /\ gwcall'[c].ns = gwcall[c].ns /\ gwcall'[c].k = gwcall[c].k /\ gwcall'[c].sent = gwcall[c].sent
      /\ gwcall'[c].got = gwcall[c].got /\ gwcall'[c].told = gwcall[c].told
  BY <1>1, <1>4, CallAt, GwParts
<1>6. Requested(gwcall'[c], gwcalls)
  <2>1. CASE at # "infos"
    <3>1. at \in (Stages[gwcall[c].do] \cup {"done", "failed"}) \ {"load", "open", "chunk", "replace", "infos"}
      BY <1>4, <2>1 DEF Stages
    <3>2. at \notin {"merge", "clean", "done"}
      BY <1>4
    <3>3. PICK r, s : r = gwcall[c] /\ s = gwcall'[c]
      OBVIOUS
    <3> QED BY <1>3, <1>5, <3>1, <3>2, <3>3, RequestedMoves
  <2>2. CASE at = "infos"
    <3>1. gwcall[c].do = "complete" /\ "infos" \in Stages["complete"]
      BY <1>4, <2>2 DEF Stages
    <3>2. gwcall[c].got = <<>>
      BY <1>1, <1>3 DEF Requested
    <3> QED BY <1>3, <1>5, <2>2, <3>1, <3>2 DEF Requested
  <2> QED BY <2>1, <2>2
<1> QED BY <1>1, <1>2, <1>3, <1>4, <1>5, <1>6, Quietly DEF AtWork

LEMMA GwLoadInfos ==
  ASSUME GatewayAssumption, GwInv, NEW c \in S3Clients, GW!LoadInfos(c)
  PROVE  GwInv'
<1> DEFINE infos == [i \in DOMAIN gwcall[c].ns |-> info[<<gwcall[c].u, gwcall[c].ns[i]>>]]
           quiet == \A n \in GW!Range(gwcall[c].ns) : GW!Uploading(<<gwcall[c].u, n>>) = {}
           at == IF Absent \in GW!Range(infos) THEN "failed" ELSE "merge"
<1>1. /\ gwcall[c].at = "infos"
      /\ UNCHANGED <<dirs, metas, temp, part, info, blob, gwcalls, ended, stray, gwmixed>>
  BY DEF GW!LoadInfos, GW!Is, GW!Disk, GW!History
<1>2. /\ Requested(gwcall[c], gwcalls) /\ gwcall[c].do = "complete" /\ gwcall[c].got = <<>>
  <2>1. Requested(gwcall[c], gwcalls) /\ gwcall[c].do = "complete"
    BY <1>1, DoesWhat, GwParts
  <2> QED BY <1>1, <2>1 DEF Requested
<1>3. PICK b \in BOOLEAN : b = quiet
  OBVIOUS
<1>4. GW!Goes(c, [gwcall[c] EXCEPT !.told = infos, !.sure = b, !.at = at])
  BY <1>3, Zenon DEF GW!LoadInfos
<1>5. Only(c) /\ gwcall'[c] = [gwcall[c] EXCEPT !.told = infos, !.sure = b, !.at = at]
  BY <1>4, CallGoes, GwParts
<1>6. /\ DOMAIN gwcall'[c] = CallFields /\ gwcall'[c].at = at
      /\ gwcall'[c].do = gwcall[c].do /\ gwcall'[c].u = gwcall[c].u /\ gwcall'[c].n = gwcall[c].n
      /\ gwcall'[c].ns = gwcall[c].ns /\ gwcall'[c].k = gwcall[c].k /\ gwcall'[c].sent = gwcall[c].sent
      /\ gwcall'[c].got = gwcall[c].got /\ gwcall'[c].told = infos
  <2>1. DOMAIN gwcall[c] = CallFields
    BY <1>2 DEF Requested
  <2> HIDE DEF infos, at
  <2> QED BY <1>5, <2>1 DEF CallFields
<1>7. /\ at \in {"failed", "merge"}
      /\ at = "merge" => \A i \in DOMAIN gwcall[c].ns : infos[i] # Absent
  BY DEF GW!Range
<1>8. DOMAIN infos = DOMAIN gwcall[c].ns
  OBVIOUS
<1>9. Requested(gwcall'[c], gwcalls)
  <2> HIDE DEF infos, at
  <2>1. Len(gwcall'[c].got) = 0 /\ Len(gwcall'[c].ns) \in Nat
    BY <1>2, <1>6 DEF Requested
  <2>2. gwcall'[c].at \in Stages[gwcall'[c].do] \cup {"done", "failed"}
    BY <1>2, <1>6, <1>7 DEF Stages
  <2> QED BY <1>2, <1>6, <1>7, <1>8, <2>1, <2>2 DEF Requested
<1>10. gwcall[c].u \in metas \cup ended
  BY <1>1, GwParts DEF UploadsMade
<1>11. \A i \in 1 .. Len(gwcall'[c].got) : gwcall'[c].got[i] = GW!ContentOf(gwcall'[c].told[i])
  <2> HIDE DEF infos, at
  <2>1. Len(gwcall'[c].got) = 0
    BY <1>2, <1>6
  <2> QED BY <2>1
<1>12. gwcall'[c].at \in {"infos", "merge", "clean", "remove"} => gwcall'[c].u \in metas \cup ended
  BY <1>6, <1>10
<1> HIDE DEF infos, at, quiet
<1> QED BY <1>1, <1>5, <1>6, <1>7, <1>9, <1>11, <1>12, Quietly DEF AtWork

LEMMA GwMerged ==
  ASSUME GatewayAssumption, GwInv, NEW c \in S3Clients, GW!Merged(c) \/ GW!PutObject(c) \/ GW!PutLook(c)
  PROVE  GwInv'
<1>1. /\ gwcall[c].at \in {"merge", "put", "look"}
      /\ UNCHANGED <<dirs, metas, temp, part, info, blob, gwcalls, ended, stray, gwmixed>>
  BY DEF GW!Merged, GW!PutObject, GW!PutLook, GW!Is, GW!Disk, GW!History
<1>2. /\ Requested(gwcall[c], gwcalls) /\ gwcall[c].do \in {"complete", "put"}
      /\ gwcall[c].at = "merge" <=> gwcall[c].do = "complete"
  BY <1>1, DoesWhat, GwParts DEF Stages, AtWork
<1>3. PICK at \in {"clean", "look", "done", "failed"} :
        /\ GW!At(c, at)
        /\ gwcall[c].at = "merge" => at = "clean" /\ Len(gwcall[c].got) = Len(gwcall[c].ns)
        /\ gwcall[c].at # "merge" => at \in {"look", "done", "failed"}
  BY <1>1 DEF GW!Merged, GW!PutObject, GW!PutLook, GW!Is
<1>4. /\ Only(c) /\ DOMAIN gwcall'[c] = CallFields /\ gwcall'[c].at = at
      /\ gwcall'[c].do = gwcall[c].do /\ gwcall'[c].u = gwcall[c].u /\ gwcall'[c].n = gwcall[c].n
      /\ gwcall'[c].ns = gwcall[c].ns /\ gwcall'[c].k = gwcall[c].k /\ gwcall'[c].sent = gwcall[c].sent
      /\ gwcall'[c].got = gwcall[c].got /\ gwcall'[c].told = gwcall[c].told /\ gwcall'[c].sure = gwcall[c].sure
  BY <1>1, <1>3, CallAt, GwParts
<1>5. Requested(gwcall'[c], gwcalls)
  <2>1. at \in (Stages[gwcall[c].do] \cup {"done", "failed"}) \ {"load", "open", "chunk", "replace", "infos"}
    BY <1>1, <1>2, <1>3 DEF Stages
  <2>2. gwcall[c].do = "complete" => gwcall[c].at = "merge" /\ at = "clean" /\ Len(gwcall[c].got) = Len(gwcall[c].ns)
    BY <1>2, <1>3
  <2>3. PICK r, s : r = gwcall[c] /\ s = gwcall'[c]
    OBVIOUS
  <2> QED BY <1>2, <1>4, <2>1, <2>2, <2>3, RequestedMoves
<1>6. gwcall[c].at = "merge" => gwcall[c].u \in metas \cup ended
  BY GwParts DEF UploadsMade
<1>7. at \in {"merge", "clean"} => gwcall[c].at = "merge"
  BY <1>3
<1>8. ASSUME gwmixed = {}, gwcall[c].do = "complete", gwcall[c].sure
      PROVE  \A i \in 1 .. Len(gwcall[c].got) : gwcall[c].got[i] = GW!ContentOf(gwcall[c].told[i])
  BY <1>2, <1>8, GwParts DEF MergedRight
<1> QED BY <1>1, <1>3, <1>4, <1>5, <1>6, <1>7, <1>8, Quietly DEF AtWork

LEMMA GwMerge ==
  ASSUME GatewayAssumption, GwInv, NEW c \in S3Clients, GW!Merge(c)
  PROVE  GwInv'
<1>1. /\ gwcall[c].at = "merge" /\ Len(gwcall[c].got) < Len(gwcall[c].ns)
      /\ UNCHANGED <<dirs, metas, temp, part, info, blob, gwcalls, ended, stray, gwmixed>>
  BY DEF GW!Merge, GW!Is, GW!Disk, GW!History
<1>2. Requested(gwcall[c], gwcalls) /\ gwcall[c].do = "complete" /\ gwcall[c].u \in Uploads
  <2>1. Requested(gwcall[c], gwcalls) /\ gwcall[c].do = "complete"
    BY <1>1, DoesWhat, GwParts
  <2> QED BY <2>1 DEF Requested
<1>3. gwcall[c].u \in metas \cup ended
  BY <1>1, GwParts DEF UploadsMade
<1>4. PICK j \in Nat : j = Len(gwcall[c].got) + 1
  BY <1>2 DEF Requested
<1>5. j \in 1 .. Len(gwcall[c].ns) /\ j \in DOMAIN gwcall[c].ns /\ gwcall[c].ns[j] \in Parts
  BY <1>1, <1>2, <1>4 DEF Requested
<1>6. PICK f \in GW!Files : f = <<gwcall[c].u, gwcall[c].ns[j]>>
  BY <1>2, <1>5 DEF GW!Files
<1>7. CASE part[f] = Absent
  <2>1. GW!At(c, "failed")
    BY <1>4, <1>6, <1>7 DEF GW!Merge
  <2>2. /\ Only(c) /\ DOMAIN gwcall'[c] = CallFields /\ gwcall'[c].at = "failed"
        /\ gwcall'[c].do = gwcall[c].do /\ gwcall'[c].u = gwcall[c].u /\ gwcall'[c].n = gwcall[c].n
        /\ gwcall'[c].ns = gwcall[c].ns /\ gwcall'[c].k = gwcall[c].k /\ gwcall'[c].sent = gwcall[c].sent
        /\ gwcall'[c].got = gwcall[c].got /\ gwcall'[c].told = gwcall[c].told
    BY <1>1, <2>1, CallAt, GwParts
  <2>3. Requested(gwcall'[c], gwcalls)
    <3>1. PICK r, s : r = gwcall[c] /\ s = gwcall'[c]
      OBVIOUS
    <3> QED BY <1>2, <2>2, <3>1, RequestedMoves
  <2> QED BY <1>1, <2>2, <2>3, Quietly DEF AtWork
<1>8. CASE part[f] # Absent
  <2> DEFINE whole == gwcall[c].sure /\ GW!Uploading(f) = {} /\ info[f] = gwcall[c].told[j]
  <2>1. PICK b \in BOOLEAN : b <=> whole
    OBVIOUS
  <2>2. PICK v \in Chunky : v = blob[part[f]]
    BY <1>8, GwParts DEF GatewayAssumption
  <2>3. GW!Goes(c, [gwcall[c] EXCEPT !.got = Append(gwcall[c].got, v), !.sure = b])
    BY <1>4, <1>6, <1>8, <2>1, <2>2 DEF GW!Merge
  <2>4. Only(c) /\ gwcall'[c] = [gwcall[c] EXCEPT !.got = Append(gwcall[c].got, v), !.sure = b]
    BY <2>3, CallGoes, GwParts
  <2>5. /\ DOMAIN gwcall'[c] = CallFields /\ gwcall'[c].at = "merge"
        /\ gwcall'[c].do = gwcall[c].do /\ gwcall'[c].u = gwcall[c].u /\ gwcall'[c].n = gwcall[c].n
        /\ gwcall'[c].ns = gwcall[c].ns /\ gwcall'[c].k = gwcall[c].k /\ gwcall'[c].sent = gwcall[c].sent
        /\ gwcall'[c].got = Append(gwcall[c].got, v) /\ gwcall'[c].told = gwcall[c].told /\ gwcall'[c].sure = b
    <3>1. DOMAIN gwcall[c] = CallFields
      BY <1>2 DEF Requested
    <3> QED BY <1>1, <2>4, <3>1 DEF CallFields
  <2>6. gwcall[c].got \in Seq(Chunky) /\ Len(gwcall'[c].got) = j /\ gwcall'[c].got \in Seq(Chunky)
    BY <1>2, <1>4, <2>5 DEF Requested
  <2>7. Requested(gwcall'[c], gwcalls)
    <3>1. gwcall'[c].at \in Stages[gwcall'[c].do]
      BY <1>2, <2>5 DEF Stages
    <3>2. Len(gwcall'[c].got) <= Len(gwcall[c].ns)
      BY <1>5, <2>6
    <3> QED BY <1>1, <1>2, <2>5, <2>6, <3>1, <3>2 DEF Requested
  <2>8. ASSUME gwmixed = {}, b
        PROVE  \A i \in 1 .. j : gwcall'[c].got[i] = GW!ContentOf(gwcall[c].told[i])
    <3>1. v = GW!ContentOf(gwcall[c].told[j])
      <4>1. \A d \in S3Clients : ~Sends(d, f)
        BY <2>1, <2>8, NobodySends, GwParts
      <4>2. Whole(f)
        BY <2>8, <4>1, GwParts DEF PartsWhole, PartWhole
      <4>3. info[f] # Absent /\ info[f] = gwcall[c].told[j]
        BY <1>1, <1>2, <1>5, <2>1, <2>8 DEF Requested
      <4> QED BY <1>8, <2>2, <4>2, <4>3 DEF Whole
    <3>2. \A i \in 1 .. Len(gwcall[c].got) : gwcall[c].got[i] = GW!ContentOf(gwcall[c].told[i])
      BY <1>1, <1>2, <2>1, <2>8, GwParts DEF MergedRight
    <3>3. \A i \in 1 .. j : gwcall'[c].got[i] = IF i = j THEN v ELSE gwcall[c].got[i]
      BY <1>4, <2>5, <2>6
    <3>4. \A i \in 1 .. j : i = j \/ i \in 1 .. Len(gwcall[c].got)
      BY <1>4, <2>6
    <3> QED BY <3>1, <3>2, <3>3, <3>4
  <2>9. gwmixed = {} /\ gwcall'[c].do = "complete" /\ gwcall'[c].at \in {"merge", "clean", "done"} /\ gwcall'[c].sure =>
            \A i \in 1 .. Len(gwcall'[c].got) : gwcall'[c].got[i] = GW!ContentOf(gwcall'[c].told[i])
    BY <2>5, <2>6, <2>8
  <2>10. gwcall'[c].at \in {"infos", "merge", "clean", "remove"} => gwcall'[c].u \in metas \cup ended
    BY <1>3, <2>5
  <2> HIDE DEF whole
  <2> QED BY <1>1, <2>4, <2>5, <2>7, <2>9, <2>10, Quietly DEF AtWork
<1> QED BY <1>7, <1>8

LEMMA GwDelete ==
  ASSUME GatewayAssumption, GwInv, NEW c \in S3Clients, GW!DeleteObject(c)
  PROVE  GwInv'
<1>1. /\ gwcalls < MaxGatewayCalls /\ gwcalls' = gwcalls + 1
      /\ UNCHANGED <<dirs, metas, temp, part, info, blob, gwcall, ended, stray, gwmixed>>
  BY DEF GW!DeleteObject, GW!Disk, GW!History
<1>2. /\ gwcalls \in Nat /\ gwcalls' \in 0 .. MaxGatewayCalls /\ \A k \in 1 .. gwcalls : k \in 1 .. gwcalls'
  BY <1>1, GwParts DEF GatewayAssumption
<1>3. ASSUME NEW r, Requested(r, gwcalls) PROVE Requested(r, gwcalls')
  BY <1>2, <1>3 DEF Requested
<1>4. \A d \in S3Clients : gwcall'[d] = [at |-> "rest", do |-> "none"] \/ Requested(gwcall'[d], gwcalls')
  BY <1>1, <1>3, GwParts DEF GwTyped
<1>5. /\ part' \in [GW!Files -> 1 .. gwcalls' \cup {Absent}]
      /\ temp' \in [GW!Files -> 1 .. gwcalls' \cup {Absent}]
      /\ info' \in [GW!Files -> 1 .. gwcalls' \cup {Absent}]
  BY <1>1, <1>2, GwParts
<1>6. GwTyped'
  BY <1>1, <1>2, <1>4, <1>5, GwParts DEF GwTyped, Requested, GW!Files, Chunky
<1>7. UploadsMade' /\ StraysTold'
  BY <1>1, GwParts DEF UploadsMade, StraysTold, GW!Files
<1>8. FilesApart'
  BY <1>1, GwParts DEF FilesApart, Has, WritesTo, GW!F, GW!Files
<1>9. PartsWhole'
  <2>1. ASSUME NEW f \in GW!Files \ gwmixed PROVE PartWhole(f)'
    <3>1. \A d \in S3Clients : (Sends(d, f)' <=> Sends(d, f)) /\ gwcall'[d] = gwcall[d]
      BY <1>1 DEF Sends, GW!F
    <3> QED BY <1>1, <2>1, <3>1, PartLeft, GwParts DEF PartsWhole
  <2> QED BY <1>1, <2>1 DEF PartsWhole, GW!Files
<1>10. MergedRight'
  <2>1. Only(c)
    BY <1>1, GwParts DEF Only, GwTyped
  <2> QED BY <1>1, <2>1, MergedStays, GwParts DEF MergedRight
<1> QED BY <1>6, <1>7, <1>8, <1>9, <1>10 DEF GwInv

\* A step of a request that sends part f, seen from the other parts.
LEMMA OtherParts ==
  ASSUME GatewayAssumption, GwTyped, PartsWhole, NEW c \in S3Clients, NEW f \in GW!Files,
         GW!F(c) = f, Only(c), gwcall'[c].u = gwcall[c].u, gwcall'[c].n = gwcall[c].n,
         \A g \in GW!Files \ {f} : part'[g] = part[g] /\ temp'[g] = temp[g] /\ info'[g] = info[g],
         metas' = metas, gwmixed \subseteq gwmixed',
         \A g \in GW!Files \ {f}, k \in 1 .. MaxGatewayCalls : Has(g, k) => blob'[k] = blob[k],
         f \notin gwmixed' => PartWhole(f)'
  PROVE  /\ PartsWhole'
         /\ \A g \in GW!Files \ {f}, k \in 1 .. MaxGatewayCalls : Has(g, k)' => Has(g, k)
<1>1. ASSUME NEW g \in GW!Files \ {f}, NEW d \in S3Clients
      PROVE  /\ Sends(d, g)' <=> Sends(d, g)
             /\ Sends(d, g) => gwcall'[d] = gwcall[d]
             /\ WritesTo(d, g)' => WritesTo(d, g) /\ gwcall'[d] = gwcall[d]
  <2>1. CASE d = c
    <3>1. GW!F(d)' = GW!F(d) /\ GW!F(d) # g
      BY <2>1 DEF GW!F
    <3> QED BY <3>1 DEF Sends, WritesTo
  <2>2. CASE d # c
    <3>1. gwcall'[d] = gwcall[d]
      BY <2>2 DEF Only
    <3> QED BY <3>1 DEF Sends, WritesTo, GW!F
  <2> QED BY <2>1, <2>2
<1>2. ASSUME NEW g \in GW!Files \ gwmixed' PROVE PartWhole(g)'
  <2>1. CASE g = f
    BY <1>2, <2>1
  <2>2. CASE g # f
    BY <1>1, <1>2, <2>2, PartLeft DEF PartsWhole
  <2> QED BY <2>1, <2>2
<1>3. PartsWhole'
  BY <1>2 DEF PartsWhole, GW!Files
<1>4. ASSUME NEW g \in GW!Files \ {f}, NEW k \in 1 .. MaxGatewayCalls, Has(g, k)' PROVE Has(g, k)
  BY <1>1, <1>4 DEF Has
<1> QED BY <1>3, <1>4

\* What the numbers of f's files are, nobody else's are.
LEMMA ApartFrom ==
  ASSUME FilesApart, NEW f \in GW!Files, NEW w \in 1 .. MaxGatewayCalls,
         Has(f, w) \/ \A g \in GW!Files : ~Has(g, w)
  PROVE  \A g \in GW!Files \ {f}, k \in 1 .. MaxGatewayCalls : Has(g, k) => k # w
BY DEF FilesApart

\* What one needs to know of a request that sends a part.
LEMMA SenderIs ==
  ASSUME GatewayAssumption, GwInv, NEW c \in S3Clients, gwcall[c].at \in AtWork
  PROVE  /\ Requested(gwcall[c], gwcalls) /\ gwcall[c].do = "part" /\ DOMAIN gwcall[c] = CallFields
         /\ gwcall[c].u \in Uploads /\ gwcall[c].n \in Parts /\ gwcall[c].u \in metas \cup ended
         /\ gwcall[c].k \in 1 .. gwcalls /\ gwcall[c].k \in 1 .. MaxGatewayCalls
         /\ gwcall[c].at \in {"chunk", "replace"} => gwcall[c].file \in 1 .. gwcalls
         /\ GW!F(c) \in GW!Files /\ GW!F(c)[1] = gwcall[c].u
         /\ Sends(c, GW!F(c))
<1>1. Requested(gwcall[c], gwcalls) /\ gwcall[c].do = "part"
  BY OnlyParts, UnderWay, GwParts DEF AtWork
<1>2. /\ DOMAIN gwcall[c] = CallFields /\ gwcall[c].u \in Uploads /\ gwcall[c].n \in Parts
      /\ gwcall[c].k \in 1 .. gwcalls
      /\ gwcall[c].at \in {"chunk", "replace"} => gwcall[c].file \in 1 .. gwcalls
  BY <1>1 DEF Requested
<1>3. gwcall[c].k \in 1 .. MaxGatewayCalls
  BY <1>2, GwParts DEF GatewayAssumption
<1>4. gwcall[c].u \in metas \cup ended
  BY GwParts DEF UploadsMade
<1> QED BY <1>1, <1>2, <1>3, <1>4 DEF GW!F, GW!Files, Sends

\* The rest of the invariant, for a step of one that sends a part.
LEMMA SenderSteps ==
  ASSUME GatewayAssumption, GwInv, NEW c \in S3Clients, Only(c), Requested(gwcall'[c], gwcalls),
         gwcall[c].u \in metas \cup ended, gwcall[c].u \in Uploads,
         gwcall'[c].do = "part", gwcall'[c].u = gwcall[c].u, gwcall'[c].n = gwcall[c].n, gwcall'[c].at # "meta",
         gwcall'[c].at \in AtWork /\ gwcall[c].u \in ended => gwcall[c].u \in stray,
         GW!F(c) \in GW!Files,
         dirs' \in {dirs, dirs \cup {gwcall[c].u}}, dirs' # dirs => (gwcall[c].u \in ended => gwcall[c].u \in stray),
         UNCHANGED <<metas, gwcalls, ended, stray>>, gwmixed \subseteq gwmixed', gwmixed' \subseteq GW!Files,
         part' \in [GW!Files -> 1 .. gwcalls \cup {Absent}],
         temp' \in [GW!Files -> 1 .. gwcalls \cup {Absent}],
         info' \in [GW!Files -> 1 .. gwcalls \cup {Absent}],
         blob' \in [1 .. MaxGatewayCalls -> Chunky],
         \A g \in GW!Files \ {GW!F(c)} : part'[g] = part[g] /\ temp'[g] = temp[g] /\ info'[g] = info[g]
  PROVE  GwTyped' /\ UploadsMade' /\ StraysTold' /\ MergedRight'
<1>1. GwTyped'
  <2>1. gwcalls \in Nat /\ gwcalls <= gwcalls /\ gwcalls <= MaxGatewayCalls
    BY GwParts DEF GatewayAssumption
  <2>2. dirs' \subseteq Uploads /\ metas' \subseteq dirs'
    BY GwParts
  <2> QED BY <2>1, <2>2, TypedStays, GwParts
<1>2. UploadsMade'
  <2>1. \A u \in dirs \ (metas \cup ended) : u \in dirs'
    OBVIOUS
  <2>2. \A g \in GW!Files : g[1] \notin metas \cup ended =>
            part'[g] = part[g] /\ temp'[g] = temp[g] /\ info'[g] = info[g]
    BY DEF GW!F
  <2> QED BY <2>1, <2>2, MadeStays, GwParts
<1>3. StraysTold'
  <2>1. ended \cap dirs' \subseteq stray
    BY GwParts DEF StraysTold
  <2> QED BY <2>1, StraysStay, GwParts
<1>4. MergedRight'
  BY MergedStays, GwParts
<1> QED BY <1>1, <1>2, <1>3, <1>4

\* When only c sends part f, and rightly.
LEMMA SentAgain ==
  ASSUME NEW f, NEW c \in S3Clients, \A d \in S3Clients : Sends(d, f)' => d = c,
         \/ \E r : r = gwcall'[c] /\ Sent(f, r)' /\ Sends(c, f)'
         \/ ~Sends(c, f)' /\ temp'[f] = Absent /\ Whole(f)'
  PROVE  PartWhole(f)'
<1>1. Sends(c, f)' => Sent(f, gwcall[c])'
  BY DEF Sent
<1>2. \A d \in S3Clients : Sends(d, f)' => Sent(f, gwcall[d])'
  BY <1>1
<1>3. (\A d \in S3Clients : ~Sends(d, f)') => temp'[f] = Absent /\ Whole(f)'
  OBVIOUS
<1> QED BY <1>2, <1>3 DEF PartWhole

LEMMA GwLoadOpens ==
  ASSUME GatewayAssumption, GwInv, NEW c \in S3Clients, GW!LoadMeta(c),
         gwcall[c].u \in metas, gwcall[c].do = "part"
  PROVE  GwInv'
<1>1. gwcall[c].at = "load" /\ UNCHANGED <<dirs, metas, temp, part, info, blob, gwcalls, ended, stray>>
  BY DEF GW!LoadMeta, GW!Is, GW!Disk
<1>2. PICK f : f = GW!F(c)
  OBVIOUS
<1>3. gwmixed' = IF GW!Uploading(f) # {} THEN gwmixed \cup {f} ELSE gwmixed
  BY <1>2 DEF GW!LoadMeta
<1>4. Requested(gwcall[c], gwcalls)
  BY <1>1, DoesWhat, GwParts
<1>5. gwcall[c].u \in Uploads /\ f \in GW!Files /\ f[1] = gwcall[c].u
  BY <1>2, <1>4 DEF Requested, GW!F, GW!Files
<1>6. GW!At(c, "open")
  BY DEF GW!LoadMeta
<1>7. /\ Only(c) /\ DOMAIN gwcall'[c] = CallFields /\ gwcall'[c].at = "open"
      /\ gwcall'[c].do = gwcall[c].do /\ gwcall'[c].u = gwcall[c].u /\ gwcall'[c].n = gwcall[c].n
      /\ gwcall'[c].ns = gwcall[c].ns /\ gwcall'[c].k = gwcall[c].k /\ gwcall'[c].sent = gwcall[c].sent
      /\ gwcall'[c].got = gwcall[c].got /\ gwcall'[c].told = gwcall[c].told
  BY <1>1, <1>6, CallAt, GwParts
<1>8. Requested(gwcall'[c], gwcalls)
  <2>1. "open" \in Stages["part"]
    BY DEF Stages, AtWork
  <2> QED BY <1>1, <1>4, <1>7, <2>1 DEF Requested
<1>9. gwcall[c].u \notin ended
  BY GwParts DEF UploadsMade
<1>10. GwTyped' /\ UploadsMade' /\ StraysTold' /\ MergedRight'
  BY <1>1, <1>2, <1>3, <1>5, <1>7, <1>8, <1>9, SenderSteps, GwParts
<1>11. ASSUME f \notin gwmixed' PROVE PartWhole(f)'
  <2>1. f \notin gwmixed /\ GW!Uploading(f) = {}
    BY <1>3, <1>11
  <2>2. \A d \in S3Clients : ~Sends(d, f)
    BY <1>5, <2>1, NobodySends, GwParts
  <2>3. temp[f] = Absent /\ Whole(f)
    BY <1>5, <2>1, <2>2, GwParts DEF PartsWhole, PartWhole
  <2>4. \A d \in S3Clients : d # c => ~Sends(d, f)'
    BY <1>7, <2>2 DEF Only, Sends, GW!F
  <2>5. Whole(f)'
    BY <1>1, <2>3 DEF Whole, GW!ContentOf
  <2>6. Sent(f, gwcall[c])'
    BY <1>1, <1>7, <2>3, <2>5 DEF Sent
  <2>7. Sends(c, f)'
    BY <1>2, <1>7 DEF Sends, AtWork, GW!F
  <2> QED BY <2>4, <2>6, <2>7 DEF PartWhole
<1>12. PartsWhole' /\ \A g \in GW!Files \ {f}, k \in 1 .. MaxGatewayCalls : Has(g, k)' => Has(g, k)
  BY <1>1, <1>2, <1>3, <1>5, <1>7, <1>11, OtherParts, GwParts
<1>13. ASSUME NEW k \in 1 .. MaxGatewayCalls, Has(f, k)' PROVE Has(f, k)
  <2>1. \A d \in S3Clients : WritesTo(d, f)' => WritesTo(d, f) /\ gwcall'[d] = gwcall[d]
    BY <1>7 DEF WritesTo, GW!F, Only
  <2> QED BY <1>1, <1>13, <2>1 DEF Has
<1>14. FilesApart'
  <2>1. \A g \in GW!Files, k \in 1 .. MaxGatewayCalls : Has(g, k)' => Has(g, k)
    BY <1>12, <1>13
  <2> QED BY <1>1, <1>7, <2>1, FilesStay, GwParts
<1> QED BY <1>10, <1>12, <1>14 DEF GwInv

\* A part's request that fails where its file, or its directory, is gone.
LEMMA GwPartFails ==
  ASSUME GatewayAssumption, GwInv, NEW c \in S3Clients,
         \/ GW!OpenPart(c) /\ gwcall[c].u \notin dirs
         \/ GW!ReplacePart(c) /\ temp[GW!F(c)] = Absent
  PROVE  GwInv'
<1>1. /\ gwcall[c].at \in {"open", "replace"} /\ GW!At(c, "failed")
      /\ UNCHANGED <<dirs, metas, temp, part, info, blob, gwcalls, ended, stray, gwmixed>>
  BY DEF GW!OpenPart, GW!ReplacePart, GW!Is, GW!History
<1>2. PICK f : f = GW!F(c)
  OBVIOUS
<1>3. /\ Requested(gwcall[c], gwcalls) /\ gwcall[c].do = "part" /\ gwcall[c].u \in Uploads
      /\ gwcall[c].u \in metas \cup ended /\ f \in GW!Files /\ f[1] = gwcall[c].u /\ Sends(c, f)
  BY <1>1, <1>2, SenderIs DEF AtWork
<1>4. /\ Only(c) /\ DOMAIN gwcall'[c] = CallFields /\ gwcall'[c].at = "failed"
      /\ gwcall'[c].do = gwcall[c].do /\ gwcall'[c].u = gwcall[c].u /\ gwcall'[c].n = gwcall[c].n
      /\ gwcall'[c].ns = gwcall[c].ns /\ gwcall'[c].k = gwcall[c].k /\ gwcall'[c].sent = gwcall[c].sent
      /\ gwcall'[c].got = gwcall[c].got /\ gwcall'[c].told = gwcall[c].told
  BY <1>1, CallAt, GwParts
<1>5. Requested(gwcall'[c], gwcalls)
  <2>1. PICK r, s : r = gwcall[c] /\ s = gwcall'[c]
    OBVIOUS
  <2> QED BY <1>3, <1>4, <2>1, RequestedMoves
<1>6. GwTyped' /\ UploadsMade' /\ StraysTold' /\ MergedRight'
  <2>1. gwcall'[c].at \notin AtWork
    BY <1>4 DEF AtWork
  <2> QED BY <1>1, <1>2, <1>3, <1>4, <1>5, <2>1, SenderSteps, GwParts
<1>7. ASSUME f \notin gwmixed PROVE PartWhole(f)'
  <2>1. Sent(f, gwcall[c]) /\ \A d \in S3Clients : Sends(d, f) => d = c
    BY <1>3, <1>7, GwParts DEF PartsWhole, PartWhole
  <2>2. \A d \in S3Clients : ~Sends(d, f)'
    BY <1>4, <2>1 DEF Only, Sends, AtWork, GW!F
  <2>3. Whole(f) /\ temp[f] = Absent
    <3>1. CASE gwcall[c].at = "open"
      BY <2>1, <3>1 DEF Sent
    <3>2. CASE gwcall[c].at = "replace"
      BY <1>2, <2>1, <3>2 DEF Sent, GW!OpenPart, GW!ReplacePart, GW!Is
    <3> QED BY <1>1, <3>1, <3>2
  <2>4. Whole(f)'
    BY <1>1, <2>3 DEF Whole, GW!ContentOf
  <2> QED BY <1>1, <2>2, <2>3, <2>4 DEF PartWhole
<1>8. PartsWhole' /\ \A g \in GW!Files \ {f}, k \in 1 .. MaxGatewayCalls : Has(g, k)' => Has(g, k)
  BY <1>1, <1>2, <1>3, <1>4, <1>7, OtherParts, GwParts
<1>9. ASSUME NEW k \in 1 .. MaxGatewayCalls, Has(f, k)' PROVE Has(f, k)
  <2>1. \A d \in S3Clients : WritesTo(d, f)' => WritesTo(d, f) /\ gwcall'[d] = gwcall[d]
    BY <1>4 DEF WritesTo, GW!F, Only
  <2> QED BY <1>1, <1>9, <2>1 DEF Has
<1>10. FilesApart'
  <2>1. \A g \in GW!Files, k \in 1 .. MaxGatewayCalls : Has(g, k)' => Has(g, k)
    BY <1>8, <1>9
  <2> QED BY <1>4, <2>1, FilesStay, GwParts
<1> QED BY <1>6, <1>8, <1>10 DEF GwInv

LEMMA GwOpen ==
  ASSUME GatewayAssumption, GwInv, NEW c \in S3Clients, GW!OpenPart(c), gwcall[c].u \in dirs
  PROVE  GwInv'
<1>1. /\ gwcall[c].at = "open"
      /\ UNCHANGED <<dirs, metas, part, info, gwcalls, ended, stray, gwmixed>>
  BY DEF GW!OpenPart, GW!Is, GW!History
<1>2. PICK f : f = GW!F(c)
  OBVIOUS
<1>3. /\ Requested(gwcall[c], gwcalls) /\ gwcall[c].do = "part" /\ gwcall[c].u \in Uploads
      /\ gwcall[c].u \in metas \cup ended /\ f \in GW!Files /\ f[1] = gwcall[c].u /\ Sends(c, f)
      /\ gwcall[c].k \in 1 .. gwcalls /\ DOMAIN gwcall[c] = CallFields
  BY <1>1, <1>2, SenderIs DEF AtWork
<1>4. PICK k0 \in 1 .. MaxGatewayCalls : k0 = gwcall[c].k
  BY <1>1, SenderIs DEF AtWork
<1>5. PICK w \in 1 .. gwcalls : w = IF temp[f] = Absent THEN k0 ELSE temp[f]
  BY <1>3, <1>4, GwParts
<1>6. w \in 1 .. MaxGatewayCalls
  BY <1>5, GwParts DEF GatewayAssumption
<1>7. /\ temp' = [temp EXCEPT ![f] = w] /\ blob' = [blob EXCEPT ![w] = GW!Empty]
      /\ GW!Goes(c, [gwcall[c] EXCEPT !.at = "chunk", !.file = w])
  BY <1>2, <1>4, <1>5 DEF GW!OpenPart
<1>8. Only(c) /\ gwcall'[c] = [gwcall[c] EXCEPT !.at = "chunk", !.file = w]
  BY <1>7, CallGoes, GwParts
<1>9. /\ DOMAIN gwcall'[c] = CallFields /\ gwcall'[c].at = "chunk" /\ gwcall'[c].file = w
      /\ gwcall'[c].do = gwcall[c].do /\ gwcall'[c].u = gwcall[c].u /\ gwcall'[c].n = gwcall[c].n
      /\ gwcall'[c].ns = gwcall[c].ns /\ gwcall'[c].k = gwcall[c].k /\ gwcall'[c].sent = gwcall[c].sent
      /\ gwcall'[c].got = gwcall[c].got /\ gwcall'[c].told = gwcall[c].told
  BY <1>3, <1>8 DEF CallFields
<1>10. Requested(gwcall'[c], gwcalls)
  <2>1. "chunk" \in Stages["part"]
    BY DEF Stages, AtWork
  <2>2. gwcall[c].sent = 0 /\ 0 < Chunks
    BY <1>1, <1>3 DEF Requested, GatewayAssumption
  <2> QED BY <1>3, <1>5, <1>9, <2>1, <2>2 DEF Requested
<1>11. GW!Empty \in Chunky
  BY DEF GW!Empty, Chunky
<1>12. /\ blob' \in [1 .. MaxGatewayCalls -> Chunky]
       /\ temp' \in [GW!Files -> 1 .. gwcalls \cup {Absent}]
  BY <1>5, <1>7, <1>11, GwParts
<1>13. \A g \in GW!Files \ {f} : temp'[g] = temp[g]
  BY <1>7, GwParts
<1>14. GwTyped' /\ UploadsMade' /\ StraysTold' /\ MergedRight'
  <2>1. gwcall[c].u \in ended => gwcall[c].u \in stray
    BY <1>1, GwParts DEF StraysTold, AtWork
  <2> QED BY <1>1, <1>2, <1>3, <1>9, <1>8, <1>10, <1>12, <1>13, <2>1, SenderSteps, GwParts
<1>15. Has(f, w) \/ (w = k0 /\ \A g \in GW!Files : ~Has(g, w))
  <2>1. \A g \in GW!Files : ~Has(g, k0)
    BY <1>1, <1>3, <1>4, GwParts DEF FilesApart
  <2> QED BY <1>5, <2>1 DEF Has
<1>16. \A g \in GW!Files \ {f}, k \in 1 .. MaxGatewayCalls : Has(g, k) => k # w
  BY <1>3, <1>6, <1>15, ApartFrom, GwParts
<1>17. \A g \in GW!Files \ {f}, k \in 1 .. MaxGatewayCalls : Has(g, k) => blob'[k] = blob[k]
  BY <1>7, <1>16, GwParts
<1>18. ASSUME f \notin gwmixed PROVE PartWhole(f)'
  <2>1. Sent(f, gwcall[c]) /\ \A d \in S3Clients : Sends(d, f) => d = c
    BY <1>3, <1>18, GwParts DEF PartsWhole, PartWhole
  <2>2. temp[f] = Absent /\ w = k0 /\ Whole(f)
    BY <1>1, <1>5, <2>1 DEF Sent
  <2>3. ~Has(f, w)
    BY <1>1, <1>3, <1>4, <2>2, GwParts DEF FilesApart
  <2>4. part[f] # w
    BY <2>3 DEF Has
  <2>5. part[f] # Absent => blob'[part[f]] = blob[part[f]]
    BY <1>3, <1>7, <2>4, GwParts DEF GatewayAssumption
  <2>6. Whole(f)'
    BY <1>1, <2>2, <2>5 DEF Whole, GW!ContentOf
  <2>7. blob'[w] = [i \in 1 .. Chunks |-> IF i <= gwcall'[c].sent THEN <<gwcall'[c].k, i>> ELSE Absent]
    <3>1. blob'[w] = [i \in 1 .. Chunks |-> Absent]
      BY <1>6, <1>7, GwParts DEF GW!Empty
    <3>2. gwcall'[c].sent = 0
      BY <1>1, <1>3, <1>9 DEF Requested
    <3> QED BY <3>1, <3>2 DEF GatewayAssumption
  <2>8. temp'[f] = w
    BY <1>3, <1>7, GwParts
  <2>9. PICK r : r = gwcall'[c]
    OBVIOUS
  <2>10. r.at = "chunk" /\ r.file = w /\ blob'[w] = [i \in 1 .. Chunks |-> IF i <= r.sent THEN <<r.k, i>> ELSE Absent]
    BY <1>9, <2>7, <2>9
  <2>11. Sent(f, r)'
    BY <1>1, <2>4, <2>6, <2>8, <2>10 DEF Sent
  <2>12. \A d \in S3Clients : Sends(d, f)' => d = c
    BY <1>8, <2>1 DEF Only, Sends, GW!F
  <2>13. Sends(c, f)'
    BY <1>2, <1>9 DEF Sends, AtWork, GW!F
  <2> QED BY <2>9, <2>11, <2>12, <2>13, SentAgain
<1>19. PartsWhole' /\ \A g \in GW!Files \ {f}, k \in 1 .. MaxGatewayCalls : Has(g, k)' => Has(g, k)
  BY <1>1, <1>2, <1>3, <1>8, <1>9, <1>13, <1>17, <1>18, OtherParts, GwParts
<1>20. ASSUME NEW k \in 1 .. MaxGatewayCalls, Has(f, k)' PROVE Has(f, k) \/ k = w
  <2>1. \A d \in S3Clients : d # c /\ WritesTo(d, f)' => WritesTo(d, f) /\ gwcall'[d] = gwcall[d]
    BY <1>8 DEF WritesTo, GW!F, Only
  <2>2. temp'[f] = w
    BY <1>3, <1>7, GwParts
  <2> QED BY <1>1, <1>9, <1>20, <2>1, <2>2 DEF Has
<1>21. FilesApart'
  <2>1. \A k \in 1 .. MaxGatewayCalls, g, h \in GW!Files : Has(g, k)' /\ Has(h, k)' => g = h
    <3>1. \A k \in 1 .. MaxGatewayCalls, g \in GW!Files \ {f} : Has(g, k)' => Has(g, k) /\ k # w
      BY <1>16, <1>19
    <3> QED BY <1>3, <1>20, <3>1, GwParts DEF FilesApart
  <2>2. ASSUME NEW d \in S3Clients, gwcall'[d].do = "part", gwcall'[d].at \in {"load", "open"}
        PROVE  d # c /\ gwcall'[d] = gwcall[d] /\ gwcall[d].k \in 1 .. MaxGatewayCalls /\ gwcall[d].k # w
    <3>1. d # c
      BY <1>9, <2>2
    <3>2. gwcall'[d] = gwcall[d]
      BY <1>8, <3>1 DEF Only
    <3>3. gwcall[d].k \in 1 .. MaxGatewayCalls
      <4>1. gwcall[d].k \in 1 .. gwcalls
        BY <2>2, <3>2, UnderWay, GwParts DEF Requested
      <4> QED BY <4>1, GwParts DEF GatewayAssumption
    <3>4. \A g \in GW!Files : ~Has(g, gwcall[d].k)
      BY <2>2, <3>2, GwParts DEF FilesApart
    <3>5. gwcall[d].k # k0
      BY <1>1, <1>3, <1>4, <2>2, <3>1, <3>2, GwParts DEF FilesApart
    <3>6. ASSUME Has(f, w) PROVE gwcall[d].k # w
      <4>1. PICK j : j = gwcall[d].k
        OBVIOUS
      <4>2. ~Has(f, j)
        BY <1>3, <3>4, <4>1 DEF Has
      <4> QED BY <3>6, <4>1, <4>2
    <3> QED BY <1>15, <3>1, <3>2, <3>3, <3>5, <3>6
  <2>3. \A d \in S3Clients : gwcall'[d].do = "part" /\ gwcall'[d].at \in {"load", "open"} =>
          \E j : j = gwcall'[d].k /\ \A g \in GW!Files : ~Has(g, j)'
    <3>1. ASSUME NEW d \in S3Clients, gwcall'[d].do = "part", gwcall'[d].at \in {"load", "open"}
          PROVE  \E j : j = gwcall'[d].k /\ \A g \in GW!Files : ~Has(g, j)'
      <4>1. PICK j \in 1 .. MaxGatewayCalls : j = gwcall[d].k /\ j = gwcall'[d].k /\ j # w
        BY <2>2, <3>1
      <4>2. \A g \in GW!Files : ~Has(g, j)
        BY <2>2, <3>1, <4>1, GwParts DEF FilesApart
      <4>3. \A g \in GW!Files : ~Has(g, j)'
        BY <1>19, <1>20, <4>1, <4>2
      <4> QED BY <4>1, <4>3
    <3> QED BY <3>1
  <2>4. \A d, e \in S3Clients : (/\ gwcall'[d].do = "part" /\ gwcall'[d].at \in {"load", "open"}
                                 /\ gwcall'[e].do = "part" /\ gwcall'[e].at \in {"load", "open"}
                                 /\ gwcall'[d].k = gwcall'[e].k) => e = d
    BY <2>2, GwParts DEF FilesApart
  <2> QED BY <2>1, <2>3, <2>4, ApartAgain
<1> QED BY <1>14, <1>19, <1>21 DEF GwInv

LEMMA GwChunk ==
  ASSUME GatewayAssumption, GwInv, NEW c \in S3Clients, GW!PartChunk(c)
  PROVE  GwInv'
<1>1. /\ gwcall[c].at = "chunk"
      /\ UNCHANGED <<dirs, metas, temp, part, info, gwcalls, ended, stray, gwmixed>>
  BY DEF GW!PartChunk, GW!Is, GW!History
<1>2. PICK f : f = GW!F(c)
  OBVIOUS
<1>3. /\ Requested(gwcall[c], gwcalls) /\ gwcall[c].do = "part" /\ gwcall[c].u \in Uploads
      /\ gwcall[c].u \in metas \cup ended /\ f \in GW!Files /\ f[1] = gwcall[c].u /\ Sends(c, f)
      /\ gwcall[c].k \in 1 .. gwcalls /\ DOMAIN gwcall[c] = CallFields
      /\ gwcall[c].file \in 1 .. gwcalls
  BY <1>1, <1>2, SenderIs DEF AtWork
<1>4. PICK w \in 1 .. MaxGatewayCalls : w = gwcall[c].file
  BY <1>3, GwParts DEF GatewayAssumption
<1>5. PICK i \in 1 .. Chunks : i = gwcall[c].sent + 1
  BY <1>1, <1>3 DEF Requested, GatewayAssumption
<1>6. PICK at \in {"replace", "chunk"} : at = IF i = Chunks THEN "replace" ELSE "chunk"
  OBVIOUS
<1>7. /\ blob' = [blob EXCEPT ![w] = [blob[w] EXCEPT ![i] = <<gwcall[c].k, i>>]]
      /\ GW!Goes(c, [gwcall[c] EXCEPT !.sent = i, !.at = at])
  BY <1>4, <1>5, <1>6 DEF GW!PartChunk
<1>8. Only(c) /\ gwcall'[c] = [gwcall[c] EXCEPT !.sent = i, !.at = at]
  BY <1>7, CallGoes, GwParts
<1>9. /\ DOMAIN gwcall'[c] = CallFields /\ gwcall'[c].at = at /\ gwcall'[c].file = w
      /\ gwcall'[c].do = gwcall[c].do /\ gwcall'[c].u = gwcall[c].u /\ gwcall'[c].n = gwcall[c].n
      /\ gwcall'[c].ns = gwcall[c].ns /\ gwcall'[c].k = gwcall[c].k /\ gwcall'[c].sent = i
      /\ gwcall'[c].got = gwcall[c].got /\ gwcall'[c].told = gwcall[c].told
  BY <1>3, <1>4, <1>8 DEF CallFields
<1>10. Requested(gwcall'[c], gwcalls)
  <2>1. at \in Stages["part"]
    BY DEF Stages, AtWork
  <2>2. i \in 0 .. Chunks /\ (at = "chunk" => i < Chunks) /\ (at = "replace" => i = Chunks)
    BY <1>6 DEF GatewayAssumption
  <2>3. PICK r, s : r = gwcall[c] /\ s = gwcall'[c]
    OBVIOUS
  <2>4. Requested(r, gwcalls) /\ r.do = "part"
    BY <1>3, <2>3
  <2>5. /\ DOMAIN s = CallFields /\ s.at = at /\ s.file = r.file /\ s.do = "part" /\ s.u = r.u /\ s.n = r.n
        /\ s.ns = r.ns /\ s.k = r.k /\ s.sent = i /\ s.got = r.got
    BY <1>3, <1>4, <1>9, <2>3
  <2>6. r.file \in 1 .. gwcalls
    BY <1>3, <2>3
  <2>7. s.at \in Stages[s.do] \cup {"done", "failed"} /\ s.at \notin {"load", "open", "infos"}
    BY <2>1, <2>5
  <2>8. Requested(s, gwcalls)
    BY <2>2, <2>4, <2>5, <2>6, <2>7 DEF Requested
  <2> QED BY <2>3, <2>8
<1>11. blob[w] \in Chunky /\ [blob[w] EXCEPT ![i] = <<gwcall[c].k, i>>] \in Chunky
  <2>1. blob[w] \in Chunky
    BY GwParts
  <2>2. <<gwcall[c].k, i>> \in Nat \X Nat
    BY <1>3, GwParts DEF GatewayAssumption
  <2> QED BY <2>1, <2>2 DEF Chunky
<1>12. blob' \in [1 .. MaxGatewayCalls -> Chunky]
  BY <1>7, <1>11, GwParts
<1>13. GwTyped' /\ UploadsMade' /\ StraysTold' /\ MergedRight'
  <2>1. gwcall[c].u \in ended => gwcall[c].u \in stray
    BY <1>1, GwParts DEF StraysTold, AtWork
  <2> QED BY <1>1, <1>2, <1>3, <1>8, <1>9, <1>10, <1>12, <2>1, SenderSteps, GwParts
<1>14. Has(f, w)
  BY <1>1, <1>2, <1>4 DEF Has, WritesTo
<1>15. \A g \in GW!Files \ {f}, k \in 1 .. MaxGatewayCalls : Has(g, k) => k # w
  BY <1>3, <1>14, ApartFrom, GwParts
<1>16. \A g \in GW!Files \ {f}, k \in 1 .. MaxGatewayCalls : Has(g, k) => blob'[k] = blob[k]
  BY <1>7, <1>15, GwParts
<1>17. ASSUME f \notin gwmixed PROVE PartWhole(f)'
  <2>1. Sent(f, gwcall[c]) /\ \A d \in S3Clients : Sends(d, f) => d = c
    BY <1>3, <1>17, GwParts DEF PartsWhole, PartWhole
  <2>2. /\ temp[f] \in {Absent, w} /\ (f[1] \in metas => temp[f] = w) /\ part[f] # w /\ Whole(f)
        /\ blob[w] = [j \in 1 .. Chunks |-> IF j <= gwcall[c].sent THEN <<gwcall[c].k, j>> ELSE Absent]
    BY <1>1, <1>4, <2>1 DEF Sent
  <2>3. part[f] # Absent => blob'[part[f]] = blob[part[f]]
    BY <1>3, <1>7, <2>2, GwParts DEF GatewayAssumption
  <2>4. Whole(f)'
    BY <1>1, <2>2, <2>3 DEF Whole, GW!ContentOf
  <2>5. PICK k \in 1 .. gwcalls : k = gwcall[c].k
    BY <1>3
  <2>6. blob'[w] = [j \in 1 .. Chunks |-> IF j <= i THEN <<k, j>> ELSE Absent]
    <3>1. blob'[w] = [blob[w] EXCEPT ![i] = <<k, i>>]
      BY <1>4, <1>7, <2>5, GwParts
    <3>2. gwcall[c].sent \in Nat /\ i = gwcall[c].sent + 1
      BY <1>3, <1>5 DEF Requested
    <3>3. \A j \in 1 .. Chunks : j <= i <=> j <= gwcall[c].sent \/ j = i
      BY <3>2 DEF GatewayAssumption
    <3>4. \A j \in 1 .. Chunks : blob'[w][j] = IF j <= i THEN <<k, j>> ELSE Absent
      BY <2>2, <2>5, <3>1, <3>3
    <3>5. DOMAIN blob'[w] = 1 .. Chunks /\ blob'[w] \in Chunky
      BY <1>12, <1>4 DEF Chunky
    <3> QED BY <3>4, <3>5 DEF Chunky
  <2>7. PICK r : r = gwcall'[c]
    OBVIOUS
  <2>8. r.at \in {"chunk", "replace"} /\ r.file = w /\ r.sent = i /\ r.k = k
    BY <1>6, <1>9, <2>5, <2>7
  <2>9. blob'[r.file] = [j \in 1 .. Chunks |-> IF j <= r.sent THEN <<r.k, j>> ELSE Absent]
    BY <2>6, <2>8
  <2>10. Sent(f, r)'
    BY <1>1, <2>2, <2>4, <2>8, <2>9 DEF Sent
  <2>11. \A d \in S3Clients : Sends(d, f)' => d = c
    BY <1>8, <2>1 DEF Only, Sends, GW!F
  <2>12. Sends(c, f)'
    BY <1>2, <1>9 DEF Sends, AtWork, GW!F
  <2> QED BY <2>7, <2>10, <2>11, <2>12, SentAgain
<1>18. PartsWhole' /\ \A g \in GW!Files \ {f}, k \in 1 .. MaxGatewayCalls : Has(g, k)' => Has(g, k)
  BY <1>1, <1>2, <1>3, <1>8, <1>9, <1>16, <1>17, OtherParts, GwParts
<1>19. ASSUME NEW k \in 1 .. MaxGatewayCalls, Has(f, k)' PROVE Has(f, k)
  <2>1. \A d \in S3Clients : d # c /\ WritesTo(d, f)' => WritesTo(d, f) /\ gwcall'[d] = gwcall[d]
    BY <1>8 DEF WritesTo, GW!F, Only
  <2> QED BY <1>1, <1>9, <1>14, <1>19, <2>1 DEF Has
<1>20. FilesApart'
  <2>1. \A g \in GW!Files, k \in 1 .. MaxGatewayCalls : Has(g, k)' => Has(g, k)
    BY <1>18, <1>19
  <2>2. gwcall'[c].at \notin {"load", "open"}
    BY <1>9
  <2> QED BY <1>8, <2>1, <2>2, FilesStay, GwParts
<1> QED BY <1>13, <1>18, <1>20 DEF GwInv

LEMMA GwReplace ==
  ASSUME GatewayAssumption, GwInv, NEW c \in S3Clients, GW!ReplacePart(c), temp[GW!F(c)] # Absent
  PROVE  GwInv'
<1>1. /\ gwcall[c].at = "replace" /\ GW!At(c, "info")
      /\ UNCHANGED <<dirs, metas, info, blob, gwcalls, ended, stray, gwmixed>>
  BY DEF GW!ReplacePart, GW!Is, GW!History
<1>2. PICK f : f = GW!F(c)
  OBVIOUS
<1>3. /\ Requested(gwcall[c], gwcalls) /\ gwcall[c].do = "part" /\ gwcall[c].u \in Uploads
      /\ gwcall[c].u \in metas \cup ended /\ f \in GW!Files /\ f[1] = gwcall[c].u /\ Sends(c, f)
      /\ gwcall[c].file \in 1 .. gwcalls
  BY <1>1, <1>2, SenderIs DEF AtWork
<1>4. PICK w \in 1 .. gwcalls : w = temp[f]
  BY <1>2, <1>3, GwParts
<1>5. part' = [part EXCEPT ![f] = w] /\ temp' = [temp EXCEPT ![f] = Absent]
  BY <1>2, <1>4 DEF GW!ReplacePart
<1>6. /\ Only(c) /\ DOMAIN gwcall'[c] = CallFields /\ gwcall'[c].at = "info"
      /\ gwcall'[c].do = gwcall[c].do /\ gwcall'[c].u = gwcall[c].u /\ gwcall'[c].n = gwcall[c].n
      /\ gwcall'[c].ns = gwcall[c].ns /\ gwcall'[c].k = gwcall[c].k /\ gwcall'[c].sent = gwcall[c].sent
      /\ gwcall'[c].got = gwcall[c].got /\ gwcall'[c].told = gwcall[c].told
  BY <1>1, CallAt, GwParts
<1>7. Requested(gwcall'[c], gwcalls)
  <2>1. PICK r, s : r = gwcall[c] /\ s = gwcall'[c]
    OBVIOUS
  <2>2. "info" \in (Stages["part"] \cup {"done", "failed"}) \ {"load", "open", "chunk", "replace", "infos"}
    BY DEF Stages, AtWork
  <2> QED BY <1>3, <1>6, <2>1, <2>2, RequestedMoves
<1>8. /\ part' \in [GW!Files -> 1 .. gwcalls \cup {Absent}] /\ temp' \in [GW!Files -> 1 .. gwcalls \cup {Absent}]
      /\ part'[f] = w /\ temp'[f] = Absent
      /\ \A g \in GW!Files \ {f} : part'[g] = part[g] /\ temp'[g] = temp[g]
  BY <1>3, <1>5, GwParts
<1>9. GwTyped' /\ UploadsMade' /\ StraysTold' /\ MergedRight'
  <2>1. gwcall[c].u \in ended => gwcall[c].u \in stray
    BY <1>1, GwParts DEF StraysTold, AtWork
  <2> QED BY <1>1, <1>2, <1>3, <1>6, <1>7, <1>8, <2>1, SenderSteps, GwParts
<1>10. ASSUME f \notin gwmixed PROVE PartWhole(f)'
  <2>1. Sent(f, gwcall[c]) /\ \A d \in S3Clients : Sends(d, f) => d = c
    BY <1>3, <1>10, GwParts DEF PartsWhole, PartWhole
  <2>2. PICK k : k = gwcall[c].k
    OBVIOUS
  <2>3. blob[w] = GW!ContentOf(k)
    <3>1. w = gwcall[c].file /\ gwcall[c].sent = Chunks
      BY <1>1, <1>2, <1>3, <1>4, <2>1 DEF Sent, Requested
    <3>2. blob[w] = [j \in 1 .. Chunks |-> IF j <= Chunks THEN <<k, j>> ELSE Absent]
      BY <1>1, <2>1, <2>2, <3>1 DEF Sent
    <3> QED BY <3>2 DEF GW!ContentOf
  <2>4. PICK r : r = gwcall'[c]
    OBVIOUS
  <2>5. r.at = "info" /\ r.k = k
    BY <1>6, <2>2, <2>4
  <2>6. part'[f] # Absent /\ blob'[part'[f]] = GW!ContentOf(r.k)
    BY <1>1, <1>4, <1>8, <2>3, <2>5 DEF GatewayAssumption
  <2>7. Sent(f, r)'
    BY <1>8, <2>5, <2>6 DEF Sent, GW!ContentOf
  <2>8. \A d \in S3Clients : Sends(d, f)' => d = c
    BY <1>6, <2>1 DEF Only, Sends, GW!F
  <2>9. Sends(c, f)'
    BY <1>2, <1>6 DEF Sends, AtWork, GW!F
  <2> QED BY <2>4, <2>7, <2>8, <2>9, SentAgain
<1>11. PartsWhole' /\ \A g \in GW!Files \ {f}, k \in 1 .. MaxGatewayCalls : Has(g, k)' => Has(g, k)
  BY <1>1, <1>2, <1>3, <1>6, <1>8, <1>10, OtherParts, GwParts
<1>12. ASSUME NEW k \in 1 .. MaxGatewayCalls, Has(f, k)' PROVE Has(f, k)
  <2>1. \A d \in S3Clients : WritesTo(d, f)' => WritesTo(d, f) /\ gwcall'[d] = gwcall[d]
    BY <1>6 DEF WritesTo, GW!F, Only
  <2> QED BY <1>4, <1>8, <1>12, <2>1 DEF Has, GatewayAssumption
<1>13. FilesApart'
  <2>1. \A g \in GW!Files, k \in 1 .. MaxGatewayCalls : Has(g, k)' => Has(g, k)
    BY <1>11, <1>12
  <2> QED BY <1>6, <2>1, FilesStay, GwParts
<1> QED BY <1>9, <1>11, <1>13 DEF GwInv

LEMMA GwDescribe ==
  ASSUME GatewayAssumption, GwInv, NEW c \in S3Clients, GW!WriteInfo(c)
  PROVE  GwInv'
<1>1. /\ gwcall[c].at = "info" /\ GW!At(c, "done") /\ dirs' = dirs \cup {gwcall[c].u}
      /\ UNCHANGED <<metas, temp, part, blob, gwcalls, ended, stray, gwmixed>>
  BY DEF GW!WriteInfo, GW!Is, GW!History
<1>2. PICK f : f = GW!F(c)
  OBVIOUS
<1>3. /\ Requested(gwcall[c], gwcalls) /\ gwcall[c].do = "part" /\ gwcall[c].u \in Uploads
      /\ gwcall[c].u \in metas \cup ended /\ f \in GW!Files /\ f[1] = gwcall[c].u /\ Sends(c, f)
      /\ gwcall[c].k \in 1 .. gwcalls
  BY <1>1, <1>2, SenderIs DEF AtWork
<1>4. PICK k \in 1 .. gwcalls : k = gwcall[c].k
  BY <1>3
<1>5. info' = [info EXCEPT ![f] = k]
  BY <1>2, <1>4 DEF GW!WriteInfo
<1>6. /\ Only(c) /\ DOMAIN gwcall'[c] = CallFields /\ gwcall'[c].at = "done"
      /\ gwcall'[c].do = gwcall[c].do /\ gwcall'[c].u = gwcall[c].u /\ gwcall'[c].n = gwcall[c].n
      /\ gwcall'[c].ns = gwcall[c].ns /\ gwcall'[c].k = gwcall[c].k /\ gwcall'[c].sent = gwcall[c].sent
      /\ gwcall'[c].got = gwcall[c].got /\ gwcall'[c].told = gwcall[c].told
  BY <1>1, CallAt, GwParts
<1>7. Requested(gwcall'[c], gwcalls)
  <2>1. PICK r, s : r = gwcall[c] /\ s = gwcall'[c]
    OBVIOUS
  <2> QED BY <1>3, <1>6, <2>1, RequestedMoves
<1>8. /\ info' \in [GW!Files -> 1 .. gwcalls \cup {Absent}] /\ info'[f] = k
      /\ \A g \in GW!Files \ {f} : info'[g] = info[g]
  BY <1>3, <1>5, GwParts
<1>9. GwTyped' /\ UploadsMade' /\ StraysTold' /\ MergedRight'
  <2>1. gwcall[c].u \in ended => gwcall[c].u \in stray
    BY <1>1, GwParts DEF StraysTold, AtWork
  <2>2. gwcall'[c].at \notin AtWork
    BY <1>6 DEF AtWork
  <2> QED BY <1>1, <1>2, <1>3, <1>6, <1>7, <1>8, <2>1, <2>2, SenderSteps, GwParts
<1>10. ASSUME f \notin gwmixed PROVE PartWhole(f)'
  <2>1. Sent(f, gwcall[c]) /\ \A d \in S3Clients : Sends(d, f) => d = c
    BY <1>3, <1>10, GwParts DEF PartsWhole, PartWhole
  <2>2. /\ temp[f] = Absent
        /\ part[f] # Absent => blob[part[f]] = GW!ContentOf(k)
        /\ f[1] \in metas => part[f] # Absent
    BY <1>1, <1>4, <2>1 DEF Sent
  <2>3. Whole(f)'
    BY <1>1, <1>8, <2>2 DEF Whole, GW!ContentOf
  <2>4. \A d \in S3Clients : Sends(d, f)' => d = c
    BY <1>6, <2>1 DEF Only, Sends, GW!F
  <2>5. ~Sends(c, f)' /\ temp'[f] = Absent
    BY <1>1, <1>6, <2>1 DEF Sends, AtWork, Sent
  <2> QED BY <2>3, <2>4, <2>5, SentAgain
<1>11. PartsWhole' /\ \A g \in GW!Files \ {f}, j \in 1 .. MaxGatewayCalls : Has(g, j)' => Has(g, j)
  BY <1>1, <1>2, <1>3, <1>6, <1>8, <1>10, OtherParts, GwParts
<1>12. ASSUME NEW j \in 1 .. MaxGatewayCalls, Has(f, j)' PROVE Has(f, j)
  <2>1. \A d \in S3Clients : WritesTo(d, f)' => WritesTo(d, f) /\ gwcall'[d] = gwcall[d]
    BY <1>6 DEF WritesTo, GW!F, Only
  <2> QED BY <1>1, <1>12, <2>1 DEF Has
<1>13. FilesApart'
  <2>1. \A g \in GW!Files, j \in 1 .. MaxGatewayCalls : Has(g, j)' => Has(g, j)
    BY <1>11, <1>12
  <2> QED BY <1>6, <2>1, FilesStay, GwParts
<1> QED BY <1>9, <1>11, <1>13 DEF GwInv

LEMMA GwRemove ==
  ASSUME GatewayAssumption, GwInv, NEW c \in S3Clients, GW!Abort(c) \/ GW!Clean(c)
  PROVE  GwInv'
<1>1. /\ gwcall[c].at \in {"remove", "clean"} /\ GW!At(c, "done") /\ GW!RemoveDir(gwcall[c].u)
      /\ UNCHANGED <<blob, gwcalls, gwmixed>>
  BY DEF GW!Abort, GW!Clean, GW!Is
<1>2. PICK u : u = gwcall[c].u
  OBVIOUS
<1>3. /\ Requested(gwcall[c], gwcalls) /\ gwcall[c].do \in {"abort", "complete"}
      /\ gwcall[c].do = "complete" => gwcall[c].at = "clean"
      /\ gwcall[c].at \in Stages[gwcall[c].do]
  BY <1>1, DoesWhat, GwParts
<1>4. u \in Uploads /\ u \in metas \cup ended
  BY <1>1, <1>2, <1>3, GwParts DEF Requested, UploadsMade
<1>5. /\ Only(c) /\ DOMAIN gwcall'[c] = CallFields /\ gwcall'[c].at = "done"
      /\ gwcall'[c].do = gwcall[c].do /\ gwcall'[c].u = gwcall[c].u /\ gwcall'[c].n = gwcall[c].n
      /\ gwcall'[c].ns = gwcall[c].ns /\ gwcall'[c].k = gwcall[c].k /\ gwcall'[c].sent = gwcall[c].sent
      /\ gwcall'[c].got = gwcall[c].got /\ gwcall'[c].told = gwcall[c].told /\ gwcall'[c].sure = gwcall[c].sure
  BY <1>1, CallAt, GwParts
<1>6. Requested(gwcall'[c], gwcalls)
  <2>1. PICK r, s : r = gwcall[c] /\ s = gwcall'[c]
    OBVIOUS
  <2>2. r.do = "complete" => r.at = "clean" /\ Len(r.got) = Len(r.ns)
    BY <1>1, <1>3, <2>1 DEF Requested
  <2> QED BY <1>3, <1>5, <2>1, <2>2, RequestedMoves
<1>7. /\ dirs' = dirs \ {u} /\ metas' = metas \ {u} /\ ended' = ended \cup {u}
      /\ temp' = GW!Removed(u, temp) /\ part' = GW!Removed(u, part) /\ info' = GW!Removed(u, info)
      /\ stray' = IF \E n \in Parts : GW!Uploading(<<u, n>>) # {} THEN stray \cup {u} ELSE stray
  BY <1>1, <1>2 DEF GW!RemoveDir
<1>8. \A f \in GW!Files : /\ f[1] = u => temp'[f] = Absent /\ part'[f] = Absent /\ info'[f] = Absent
                          /\ f[1] # u => temp'[f] = temp[f] /\ part'[f] = part[f] /\ info'[f] = info[f]
  BY <1>7 DEF GW!Removed
<1>9. /\ part' \in [GW!Files -> 1 .. gwcalls \cup {Absent}] /\ temp' \in [GW!Files -> 1 .. gwcalls \cup {Absent}]
      /\ info' \in [GW!Files -> 1 .. gwcalls \cup {Absent}]
  BY <1>7, GwParts DEF GW!Removed
<1>10. GwTyped'
  <2>1. gwcalls \in Nat /\ gwcalls <= gwcalls /\ gwcalls <= MaxGatewayCalls
    BY GwParts DEF GatewayAssumption
  <2>2. dirs' \subseteq Uploads /\ metas' \subseteq dirs' /\ ended' \subseteq Uploads /\ stray' \subseteq Uploads
    BY <1>4, <1>7, GwParts
  <2> QED BY <1>1, <1>5, <1>6, <1>9, <2>1, <2>2, TypedStays, GwParts
<1>11. UploadsMade'
  <2>1. \A d \in S3Clients : d # c => gwcall'[d] = gwcall[d]
    BY <1>5 DEF Only
  <2>2. metas' \cap ended' = {} /\ metas' \cup ended' = metas \cup ended
    BY <1>4, <1>7, GwParts DEF UploadsMade
  <2>3. \A d \in S3Clients : gwcall'[d].at = "meta" => gwcall'[d].u \in dirs' \ (metas' \cup ended')
    BY <1>4, <1>5, <1>7, <2>1, <2>2, GwParts DEF UploadsMade
  <2>4. \A d, e \in S3Clients :
          gwcall'[d].at = "meta" /\ gwcall'[e].at = "meta" /\ gwcall'[d].u = gwcall'[e].u => d = e
    BY <1>5, <2>1, GwParts DEF UploadsMade
  <2>5. \A d \in S3Clients : gwcall'[d].at \in AtWork \cup {"infos", "merge", "clean", "remove"} =>
          gwcall'[d].u \in metas' \cup ended'
    BY <1>5, <2>1, <2>2, GwParts DEF UploadsMade, AtWork
  <2>6. \A f \in GW!Files : f[1] \notin metas' \cup ended' =>
          part'[f] = Absent /\ temp'[f] = Absent /\ info'[f] = Absent
    BY <1>4, <1>8, <2>2, GwParts DEF UploadsMade
  <2> QED BY <2>2, <2>3, <2>4, <2>5, <2>6 DEF UploadsMade
<1>12. StraysTold'
  <2>1. ended' \cap dirs' \subseteq stray'
    BY <1>7, GwParts DEF StraysTold
  <2>2. ASSUME NEW d \in S3Clients, gwcall'[d].at \in AtWork, gwcall'[d].u \in ended' PROVE gwcall'[d].u \in stray'
    <3>1. gwcall'[d] = gwcall[d]
      BY <1>5, <2>2 DEF Only, AtWork
    <3>2. CASE gwcall[d].u \in ended
      BY <1>7, <2>2, <3>1, <3>2, GwParts DEF StraysTold
    <3>3. CASE gwcall[d].u = u
      <4>1. PICK n \in Parts : n = gwcall[d].n
        BY <2>2, <3>1, SenderIs
      <4>2. Sends(d, <<u, n>>) /\ <<u, n>> \in GW!Files
        BY <1>4, <2>2, <3>1, <3>3, <4>1 DEF Sends, GW!F, GW!Files
      <4>3. GW!Uploading(<<u, n>>) # {}
        BY <4>2, NobodySends, GwParts
      <4> QED BY <1>7, <3>1, <3>3, <4>3
    <3> QED BY <1>7, <2>2, <3>1, <3>2, <3>3
  <2> QED BY <2>1, <2>2 DEF StraysTold, AtWork
<1>13. ASSUME NEW f \in GW!Files, NEW d \in S3Clients
       PROVE  /\ Sends(d, f)' <=> Sends(d, f)
              /\ Sends(d, f) => gwcall'[d] = gwcall[d]
              /\ WritesTo(d, f)' => WritesTo(d, f) /\ gwcall'[d] = gwcall[d]
  <2>1. CASE d = c
    BY <1>1, <1>5, <2>1 DEF Sends, WritesTo, AtWork
  <2>2. CASE d # c
    <3>1. gwcall'[d] = gwcall[d]
      BY <1>5, <2>2 DEF Only
    <3> QED BY <3>1 DEF Sends, WritesTo, GW!F
  <2> QED BY <2>1, <2>2
<1>14. ASSUME NEW f \in GW!Files \ gwmixed PROVE PartWhole(f)'
  <2>1. CASE f[1] # u
    <3>1. f[1] \in metas' => f[1] \in metas
      BY <1>7
    <3> QED BY <1>1, <1>8, <1>13, <1>14, <2>1, <3>1, PartLeft, GwParts DEF PartsWhole
  <2>2. CASE f[1] = u
    <3>1. temp'[f] = Absent /\ part'[f] = Absent /\ info'[f] = Absent /\ f[1] \notin metas'
      BY <1>7, <1>8, <2>2
    <3>2. Whole(f)'
      BY <3>1 DEF Whole
    <3>3. ASSUME NEW d \in S3Clients, Sends(d, f)' PROVE Sent(f, gwcall[d])'
      <4>1. PICK r : r = gwcall[d] /\ r = gwcall'[d]
        BY <1>13, <3>3
      <4>2. Sent(f, r) /\ Sends(d, f)
        BY <1>13, <1>14, <3>3, <4>1, GwParts DEF PartsWhole, PartWhole
      <4>3. r.at \in {"chunk", "replace"} => r.file # Absent
        <5>1. r.at \in {"chunk", "replace"} => r.file \in 1 .. gwcalls
          BY <4>1, <4>2, SenderIs DEF Sends
        <5> QED BY <5>1, GwParts DEF GatewayAssumption
      <4>4. Sent(f, r)'
        BY <1>1, <3>1, <3>2, <4>2, <4>3 DEF Sent
      <4> QED BY <4>1, <4>4 DEF Sent
    <3>4. \A d, e \in S3Clients : Sends(d, f)' /\ Sends(e, f)' => d = e
      BY <1>13, <1>14, GwParts DEF PartsWhole, PartWhole
    <3> QED BY <3>1, <3>2, <3>3, <3>4 DEF PartWhole
  <2> QED BY <2>1, <2>2
<1>15. PartsWhole'
  BY <1>1, <1>14 DEF PartsWhole, GW!Files
<1>16. FilesApart'
  <2>1. \A f \in GW!Files, k \in 1 .. MaxGatewayCalls : Has(f, k)' => Has(f, k)
    <3>1. ASSUME NEW f \in GW!Files, NEW k \in 1 .. MaxGatewayCalls, Has(f, k)' PROVE Has(f, k)
      <4>1. k # Absent
        BY DEF GatewayAssumption
      <4> QED BY <1>8, <1>13, <3>1, <4>1 DEF Has
    <3> QED BY <3>1
  <2> QED BY <1>5, <2>1, FilesStay, GwParts
<1>17. MergedRight'
  <2>1. gwmixed = {} /\ gwcall'[c].do = "complete" /\ gwcall'[c].at \in {"merge", "clean", "done"} /\ gwcall'[c].sure =>
            \A i \in 1 .. Len(gwcall'[c].got) : gwcall'[c].got[i] = GW!ContentOf(gwcall'[c].told[i])
    <3>1. SUFFICES ASSUME gwmixed = {}, gwcall'[c].do = "complete", gwcall'[c].at \in {"merge", "clean", "done"}, gwcall'[c].sure
                   PROVE  \A i \in 1 .. Len(gwcall'[c].got) : gwcall'[c].got[i] = GW!ContentOf(gwcall'[c].told[i])
      OBVIOUS
    <3>2. gwcall[c].do = "complete" /\ gwcall[c].at \in {"merge", "clean", "done"} /\ gwcall[c].sure
          /\ gwcall'[c].got = gwcall[c].got /\ gwcall'[c].told = gwcall[c].told
      BY <1>3, <1>5, <3>1
    <3> QED BY <3>1, <3>2, GwParts DEF MergedRight
  <2> QED BY <1>1, <1>5, <2>1, MergedStays, GwParts
<1> QED BY <1>10, <1>11, <1>12, <1>15, <1>16, <1>17 DEF GwInv

\* The server starts anew.
LEMMA GwRestarts ==
  ASSUME GatewayAssumption, GwInv, GW!Restart
  PROVE  GwInv'
<1>1. /\ gwmixed' = gwmixed \cup {f \in GW!Files : GW!Uploading(f) # {}}
      /\ gwcall' = [c \in S3Clients |-> IF gwcall[c].at \in GW!Idle THEN gwcall[c] ELSE [gwcall[c] EXCEPT !.at = "failed"]]
      /\ UNCHANGED <<dirs, metas, temp, part, info, blob, gwcalls, ended, stray>>
  BY DEF GW!Restart, GW!Disk
<1>2. /\ DOMAIN gwcall' = S3Clients
      /\ \A c \in S3Clients : gwcall'[c].at \in {"rest", "done", "failed"}
                              /\ (gwcall'[c].at # "failed" => gwcall'[c] = gwcall[c])
  <2>1. ASSUME NEW c \in S3Clients
        PROVE  gwcall'[c].at \in {"rest", "done", "failed"} /\ (gwcall'[c].at # "failed" => gwcall'[c] = gwcall[c])
    <3>1. CASE gwcall[c].at \in {"rest", "done", "failed"}
      BY <1>1, <3>1 DEF GW!Idle
    <3>2. CASE gwcall[c].at \notin {"rest", "done", "failed"}
      <4>1. DOMAIN gwcall[c] = CallFields
        BY <3>2, UnderWay, GwParts DEF Requested
      <4> QED BY <1>1, <3>2, <4>1 DEF GW!Idle, CallFields
    <3> QED BY <3>1, <3>2
  <2> QED BY <1>1, <2>1
<1>3. \A c \in S3Clients : gwcall'[c] = [at |-> "rest", do |-> "none"] \/ Requested(gwcall'[c], gwcalls)
  <2>1. ASSUME NEW c \in S3Clients
        PROVE  gwcall'[c] = [at |-> "rest", do |-> "none"] \/ Requested(gwcall'[c], gwcalls)
    <3>1. CASE gwcall[c].at \in {"rest", "done", "failed"}
      BY <1>1, <3>1, GwParts DEF GW!Idle, GwTyped
    <3>2. CASE gwcall[c].at \notin {"rest", "done", "failed"}
      <4>1. PICK r, s : r = gwcall[c] /\ s = gwcall'[c]
        OBVIOUS
      <4>2. Requested(r, gwcalls)
        BY <3>2, <4>1, UnderWay, GwParts
      <4>3. s = [r EXCEPT !.at = "failed"] /\ DOMAIN r = CallFields
        BY <1>1, <3>2, <4>1, <4>2 DEF GW!Idle, Requested
      <4>4. /\ DOMAIN s = CallFields /\ s.at = "failed" /\ s.do = r.do /\ s.u = r.u /\ s.n = r.n
            /\ s.ns = r.ns /\ s.k = r.k /\ s.sent = r.sent /\ s.got = r.got /\ s.told = r.told
        BY <4>3 DEF CallFields
      <4>5. Requested(s, gwcalls)
        BY <4>2, <4>4, RequestedMoves
      <4> QED BY <4>1, <4>5
    <3> QED BY <3>1, <3>2
  <2> QED BY <2>1
<1>4. GwTyped'
  <2>1. gwmixed' \subseteq GW!Files
    BY <1>1, GwParts
  <2>2. GW!Files' = GW!Files /\ Chunky' = Chunky
    BY DEF GW!Files, Chunky
  <2> QED BY <1>1, <1>2, <1>3, <2>1, <2>2, GwParts DEF GwTyped, Requested
<1>5. UploadsMade' /\ StraysTold'
  <2>1. \A c \in S3Clients : gwcall'[c].at \notin AtWork \cup {"meta", "infos", "merge", "clean", "remove"}
    BY <1>2 DEF AtWork
  <2> QED BY <1>1, <2>1, GwParts DEF UploadsMade, StraysTold, GW!Files, AtWork
<1>6. \A c \in S3Clients, f \in GW!Files : ~WritesTo(c, f)' /\ ~Sends(c, f)'
  BY <1>2 DEF WritesTo, Sends, AtWork
<1>7. FilesApart'
  <2>1. \A f \in GW!Files, k \in 1 .. MaxGatewayCalls : Has(f, k)' => Has(f, k)
    BY <1>1, <1>6 DEF Has
  <2>2. \A k \in 1 .. MaxGatewayCalls, f, g \in GW!Files : Has(f, k)' /\ Has(g, k)' => f = g
    BY <2>1, GwParts DEF FilesApart
  <2>3. \A d \in S3Clients : ~(gwcall'[d].at \in {"load", "open"})
    BY <1>2
  <2> QED BY <2>2, <2>3, ApartAgain
<1>8. PartsWhole'
  <2>1. ASSUME NEW f \in GW!Files \ gwmixed' PROVE PartWhole(f)'
    <3>1. f \notin gwmixed /\ \A c \in S3Clients : ~Sends(c, f)
      BY <1>1, <2>1, NobodySends, GwParts
    <3>2. temp[f] = Absent /\ Whole(f)
      BY <2>1, <3>1, GwParts DEF PartsWhole, PartWhole
    <3>3. Whole(f)'
      BY <1>1, <3>2 DEF Whole, GW!ContentOf
    <3> QED BY <1>1, <1>6, <2>1, <3>2, <3>3 DEF PartWhole
  <2> QED BY <2>1 DEF PartsWhole, GW!Files
<1>9. MergedRight'
  <2>1. SUFFICES ASSUME gwmixed' = {} PROVE \A d \in S3Clients :
          gwcall'[d].do = "complete" /\ gwcall'[d].at \in {"merge", "clean", "done"} /\ gwcall'[d].sure =>
              \A i \in 1 .. Len(gwcall'[d].got) : gwcall'[d].got[i] = GW!ContentOf(gwcall'[d].told[i])
    BY DEF MergedRight, GW!ContentOf
  <2>2. gwmixed = {}
    BY <1>1, <2>1
  <2> QED BY <1>2, <2>2, GwParts DEF MergedRight
<1> QED BY <1>4, <1>5, <1>7, <1>8, <1>9 DEF GwInv

LEMMA GwKept ==
  ASSUME GatewayAssumption, GwInv, [GW!Next]_gatewayvars
  PROVE  GwInv'
<1>1. CASE UNCHANGED gatewayvars
  <2>1. UNCHANGED <<dirs, metas, temp, part, info, blob, gwcall, gwcalls, ended, stray, gwmixed>>
    BY <1>1 DEF gatewayvars
  <2>2. GwTyped' /\ UploadsMade' /\ StraysTold'
    BY <2>1, GwParts DEF GwTyped, UploadsMade, StraysTold, GW!Files, Chunky, Requested
  <2>3. FilesApart'
    <3>1. \A d \in S3Clients, f \in GW!Files : WritesTo(d, f)' <=> WritesTo(d, f)
      BY <2>1 DEF WritesTo, GW!F
    <3>2. \A f \in GW!Files, k \in 1 .. MaxGatewayCalls : Has(f, k)' => Has(f, k)
      BY <2>1, <3>1 DEF Has
    <3>3. \A k \in 1 .. MaxGatewayCalls, f, g \in GW!Files : Has(f, k)' /\ Has(g, k)' => f = g
      BY <3>2, GwParts DEF FilesApart
    <3>4. \A c \in S3Clients : gwcall[c].do = "part" /\ gwcall[c].at \in {"load", "open"} =>
            \A f \in GW!Files : ~Has(f, gwcall[c].k)'
      <4>1. ASSUME NEW c \in S3Clients, gwcall[c].do = "part", gwcall[c].at \in {"load", "open"}, NEW f \in GW!Files
            PROVE  ~Has(f, gwcall[c].k)'
        <5>1. PICK k : k = gwcall[c].k
          OBVIOUS
        <5>2. ~Has(f, k)
          BY <4>1, <5>1, GwParts DEF FilesApart
        <5>3. ~Has(f, k)'
          BY <2>1, <3>1, <5>2 DEF Has
        <5> QED BY <2>1, <5>1, <5>3 DEF Has
      <4> QED BY <4>1
    <3> QED BY <2>1, <3>3, <3>4, GwParts DEF FilesApart
  <2>4. PartsWhole'
    <3>1. ASSUME NEW f \in GW!Files \ gwmixed PROVE PartWhole(f)'
      <4>1. \A d \in S3Clients : Sends(d, f)' <=> Sends(d, f)
        BY <2>1 DEF Sends, GW!F
      <4>2. PartWhole(f) /\ (Whole(f)' <=> Whole(f))
        BY <2>1, <3>1, GwParts DEF PartsWhole, Whole
      <4>3. ASSUME NEW d \in S3Clients, Sends(d, f)' PROVE Sent(f, gwcall[d])'
        <5>1. PICK r : r = gwcall[d] /\ r = gwcall'[d]
          BY <2>1
        <5>2. Sent(f, r)
          BY <4>1, <4>2, <4>3, <5>1 DEF PartWhole
        <5>3. Sent(f, r)'
          BY <2>1, <4>2, <5>2 DEF Sent
        <5> QED BY <5>1, <5>3 DEF Sent
      <4> QED BY <2>1, <4>1, <4>2, <4>3 DEF PartWhole
    <3> QED BY <2>1, <3>1 DEF PartsWhole
  <2>5. MergedRight'
    <3>1. gwmixed' = gwmixed /\ gwcall' = gwcall
      BY <2>1
    <3> QED BY <3>1, GwParts DEF MergedRight
  <2> QED BY <2>2, <2>3, <2>4, <2>5 DEF GwInv
<1>2. ASSUME NEW c \in S3Clients, NEW do \in {"part", "complete", "create", "abort", "put"}, NEW u, NEW ns \in Seq(Parts),
             do # "put" => u \in Uploads, do = "part" => ns # <<>>, GW!Begin(c, do, u, ns)
      PROVE  GwInv'
  <2>1. do \in DOMAIN Stages
    BY DEF Stages
  <2> QED BY <1>2, <2>1, GwBegin
<1>3. ASSUME NEW c \in S3Clients, GW!LoadMeta(c) PROVE GwInv'
  <2>1. gwcall[c].do \in {"part", "complete", "abort"}
    BY <1>3, DoesWhat, GwParts DEF GW!LoadMeta, GW!Is
  <2> QED BY <1>3, <2>1, GwLoadFinds, GwLoadOpens
<1>4. ASSUME NEW c \in S3Clients, NEW u \in Uploads, NEW n \in Parts, GW!Begin(c, "part", u, <<n>>) PROVE GwInv'
  <2>1. <<n>> \in Seq(Parts) /\ <<n>> # <<>>
    OBVIOUS
  <2> QED BY <1>2, <1>4, <2>1
<1>5. ASSUME NEW c \in S3Clients, NEW u \in Uploads, NEW ns \in GW!Lists, GW!Begin(c, "complete", u, ns) PROVE GwInv'
  BY <1>2, <1>5, ListsAreParts
<1>6. <<>> \in Seq(Parts)
  OBVIOUS
<1>7. ASSUME NEW c \in S3Clients, NEW u \in Uploads, GW!Begin(c, "create", u, <<>>) \/ GW!Begin(c, "abort", u, <<>>)
      PROVE  GwInv'
  BY <1>2, <1>6, <1>7
<1>8. ASSUME NEW c \in S3Clients, GW!Begin(c, "put", Absent, <<>>) PROVE GwInv'
  BY <1>2, <1>6, <1>8
<1>9. ASSUME NEW c \in S3Clients, GW!OpenPart(c) \/ GW!ReplacePart(c) PROVE GwInv'
  BY <1>9, GwPartFails, GwOpen, GwReplace
<1>10. ASSUME NEW c \in S3Clients,
              \/ GW!Make(c) \/ GW!WriteMeta(c) \/ GW!PartChunk(c) \/ GW!WriteInfo(c)
              \/ GW!Abort(c) \/ GW!LoadInfos(c) \/ GW!Merge(c) \/ GW!Merged(c) \/ GW!Clean(c)
              \/ GW!PutObject(c) \/ GW!PutLook(c) \/ GW!DeleteObject(c)
       PROVE  GwInv'
  BY <1>10, GwMake, GwWriteMeta, GwChunk, GwDescribe, GwRemove, GwLoadInfos, GwMerge, GwMerged, GwDelete
<1> QED BY <1>1, <1>3, <1>4, <1>5, <1>7, <1>8, <1>9, <1>10, GwRestarts DEF GW!Next

LEMMA GwInvServes ==
  ASSUME GatewayAssumption, GwInv
  PROVE  GW!TypeOK /\ GW!PartIsWhole /\ GW!CompletedIsParts /\ GW!EndedLeavesNothing
<1>1. GW!TypeOK
  BY GwParts DEF GW!TypeOK
<1>2. GW!PartIsWhole
  <2>1. ASSUME NEW f \in GW!Files \ gwmixed, f[1] \in metas, info[f] # Absent, GW!Uploading(f) = {}
        PROVE  part[f] # Absent /\ blob[part[f]] = GW!ContentOf(info[f])
    <3>1. Whole(f)
      BY <2>1, NobodySends, GwParts DEF PartsWhole, PartWhole
    <3> QED BY <2>1, <3>1 DEF Whole
  <2> QED BY <2>1 DEF GW!PartIsWhole
<1>3. GW!CompletedIsParts
  <2>1. ASSUME NEW c \in S3Clients, gwcall[c].at = "done", gwcall[c].do = "complete", gwcall[c].sure, gwmixed = {}
        PROVE  gwcall[c].got = [i \in DOMAIN gwcall[c].ns |-> GW!ContentOf(gwcall[c].told[i])]
    <3>1. Requested(gwcall[c], gwcalls)
      BY <2>1, UnderWay, GwParts
    <3>2. /\ gwcall[c].got \in Seq(Chunky) /\ gwcall[c].ns \in Seq(Parts) /\ Len(gwcall[c].got) = Len(gwcall[c].ns)
      BY <2>1, <3>1 DEF Requested
    <3>3. \A i \in 1 .. Len(gwcall[c].got) : gwcall[c].got[i] = GW!ContentOf(gwcall[c].told[i])
      BY <2>1, GwParts DEF MergedRight
    <3>4. DOMAIN gwcall[c].ns = 1 .. Len(gwcall[c].got) /\ DOMAIN gwcall[c].got = 1 .. Len(gwcall[c].got)
      BY <3>2
    <3>5. gwcall[c].got = [i \in 1 .. Len(gwcall[c].got) |-> gwcall[c].got[i]]
      BY <3>2
    <3> QED BY <3>3, <3>4, <3>5
  <2> QED BY <2>1 DEF GW!CompletedIsParts
<1>4. GW!EndedLeavesNothing
  BY GwParts DEF StraysTold, GW!EndedLeavesNothing
<1> QED BY <1>1, <1>2, <1>3, <1>4

\* s3_api.py: whatever the clients, uploads, parts, chunks, requests and restarts, a part
\* that an upload under way has described is what its description and its ETag say, a
\* completed upload is its parts in order, and one that has ended leaves nothing on the
\* disk but parts sent meanwhile (UploadsWhole).
THEOREM UploadsStayWhole == Spec => []UploadsWhole
<1>1. Init => GwInv
  BY GatewayAssumption, GwBegins
<1>2. GwInv /\ [Next]_vars => GwInv'
  BY GatewayAssumption, Turns, GwKept
<1>3. GwInv => UploadsWhole
  BY GatewayAssumption, GwInvServes DEF UploadsWhole
<1> QED BY <1>1, <1>2, <1>3, PTL DEF Spec
-----------------------------------------------------------------------------
(* The notices: notices/service.py.                                         *)

Places == 1 .. Cardinality(NT!Published)
Place(n) == Cardinality({m \in NT!Published : m >= n})

LEMMA NoticesCounted == ASSUME NEW S PROVE NT!Cardinality(S) = Cardinality(S)
BY Zenon DEF NT!Cardinality, Cardinality

\* The pages are cut from a sequence of all that is published: each at its place.
LEMMA NewestIsAll ==
  /\ Cardinality(NT!Published) \in Nat /\ NT!Newest \in [Places -> NT!Published]
  /\ NT!Newest \in Seq(NT!NoticeIds) /\ Len(NT!Newest) = Cardinality(NT!Published)
  /\ \A n \in NT!Published : \E i \in Places : NT!Newest[i] = n
<1> DEFINE P == NT!Published
           N == Cardinality(P)
           U(n) == {m \in P : m >= n}
           R == [n \in P |-> Place(n)]
<1>1. P \subseteq NT!NoticeIds /\ P \subseteq Nat /\ IsFiniteSet(P) /\ N \in Nat
  <2>1. IsFiniteSet(NT!NoticeIds)
    BY NoticesAssumption, FS_Interval DEF NT!NoticeIds
  <2>2. P \in SUBSET NT!NoticeIds /\ NT!NoticeIds \subseteq Nat
    BY NoticesAssumption DEF NT!Published, NT!NoticeIds
  <2> QED BY <2>1, <2>2, FS_Subset, FS_CardinalityType
<1> HIDE DEF P
<1>2. \A n \in P : IsFiniteSet(U(n)) /\ Cardinality(U(n)) \in 1 .. N
  <2> SUFFICES ASSUME NEW n \in P PROVE IsFiniteSet(U(n)) /\ Cardinality(U(n)) \in 1 .. N
    OBVIOUS
  <2>1. U(n) \in SUBSET P /\ n \in U(n)
    BY <1>1
  <2> HIDE DEF U
  <2>2. IsFiniteSet(U(n)) /\ Cardinality(U(n)) <= N /\ Cardinality(U(n)) \in Nat
    BY <1>1, <2>1, FS_Subset, FS_CardinalityType
  <2>3. Cardinality(U(n)) # 0
    BY <2>1, <2>2, FS_EmptySet
  <2> QED BY <1>1, <2>2, <2>3
<1>3. \A m, n \in P : m < n => Cardinality(U(m)) # Cardinality(U(n))
  <2> SUFFICES ASSUME NEW m \in P, NEW n \in P, m < n PROVE Cardinality(U(m)) # Cardinality(U(n))
    OBVIOUS
  <2>1. U(n) \in SUBSET U(m) /\ m \in U(m) /\ m \notin U(n)
    <3>1. m \in Nat /\ n \in Nat /\ \A x \in P : x \in Nat
      BY <1>1
    <3>2. m >= m /\ ~(m >= n) /\ \A x \in P : x >= n => x >= m
      BY <3>1
    <3> QED BY <3>2
  <2> HIDE DEF U
  <2> QED BY <1>2, <2>1, FS_Subset
<1>4. R \in [P -> 1 .. N] /\ \A n \in P : R[n] = Cardinality(U(n))
  BY <1>2 DEF Place, P
<1> HIDE DEF R, U
<1>5. \A m, n \in P : R[m] = R[n] => m = n
  <2> SUFFICES ASSUME NEW m \in P, NEW n \in P, m # n PROVE R[m] # R[n]
    OBVIOUS
  <2>1. m < n \/ n < m
    BY <1>1
  <2> QED BY <1>3, <1>4, <2>1
<1>6. R \in Surjection(P, 1 .. N)
  <2>1. R \in Injection(P, 1 .. N)
    BY <1>4, <1>5 DEF Injection, IsInjective
  <2>2. IsFiniteSet(1 .. N) /\ Cardinality(1 .. N) = N
    BY <1>1, FS_Interval
  <2> QED BY <2>1, <2>2, FS_Injection
<1>7. \A i \in 1 .. N : \E n \in P : Cardinality(U(n)) = i
  BY <1>4, <1>6 DEF Surjection
<1>8. NT!Newest = [i \in 1 .. NT!Cardinality(P) |-> CHOOSE n \in P : NT!Cardinality(U(n)) = i]
  BY DEF NT!Newest, U, P
<1>9. NT!Newest \in [1 .. N -> P] /\ \A i \in 1 .. N : NT!Newest[i] \in P /\ Cardinality(U(NT!Newest[i])) = i
  <2>1. NT!Cardinality(P) = N /\ \A n : NT!Cardinality(U(n)) = Cardinality(U(n))
    BY NoticesCounted
  <2>2. \A i \in 1 .. N : \E n \in P : NT!Cardinality(U(n)) = i
    BY <1>7, <2>1
  <2>3. \A i \in 1 .. N : NT!Newest[i] \in P /\ NT!Cardinality(U(NT!Newest[i])) = i
    BY <1>8, <2>1, <2>2
  <2> QED BY <1>8, <2>1, <2>3
<1>10. NT!Newest \in [1 .. N -> P]
  BY <1>9
<1>11. \A n \in P : \E i \in 1 .. N : NT!Newest[i] = n
  <2> SUFFICES ASSUME NEW n \in P PROVE NT!Newest[R[n]] = n /\ R[n] \in 1 .. N
    OBVIOUS
  <2>1. R[n] \in 1 .. N
    BY <1>4
  <2>2. NT!Newest[R[n]] \in P /\ R[NT!Newest[R[n]]] = R[n]
    BY <1>4, <1>9, <2>1
  <2> QED BY <1>5, <2>1, <2>2
<1>12. NT!Newest \in Seq(NT!NoticeIds) /\ Len(NT!Newest) = N
  <2>1. NT!Newest \in [1 .. N -> NT!NoticeIds]
    BY <1>1, <1>10
  <2> QED BY <1>1, <2>1
<1> QED BY <1>1, <1>10, <1>11, <1>12 DEF P, Places

LEMMA GreatestIn ==
  ASSUME NEW N \in Nat, NEW I \in SUBSET (1 .. N), I # {}
  PROVE  NT!Max(I) \in I /\ \A i \in I : i <= NT!Max(I)
<1> DEFINE S == {N - i : i \in I}
<1>1. S \subseteq Nat /\ S # {}
  <2>1. \A i \in I : i \in Nat /\ i <= N /\ N - i \in Nat
    OBVIOUS
  <2> QED BY <2>1
<1>2. PICK x \in S : \A y \in S : ~ (<<y, x>> \in OpToRel(<, Nat))
  BY <1>1, NatLessThanWellFounded, WFMin
<1>3. PICK m \in I : x = N - m
  BY <1>2
<1>4. \A i \in I : m >= i
  <2> SUFFICES ASSUME NEW i \in I PROVE m >= i
    OBVIOUS
  <2>1. N - i \in S /\ N - i \in Nat /\ x \in Nat
    BY <1>1, <1>2
  <2>2. ~ (N - i < x)
    BY <1>2, <2>1 DEF OpToRel
  <2> QED BY <1>3, <2>2
<1>5. (CHOOSE x0 \in I : \A y \in I : x0 >= y) \in I
      /\ \A y \in I : (CHOOSE x0 \in I : \A y1 \in I : x0 >= y1) >= y
  BY <1>4, Zenon
<1>6. NT!Max(I) \in I /\ \A y \in I : NT!Max(I) >= y
  BY <1>5, Zenon DEF NT!Max
<1> QED BY <1>6

LEMMA NewestNotice ==
  ASSUME NEW S \in SUBSET NT!NoticeIds, S # {}
  PROVE  NT!Max(S) \in S /\ \A n \in S : n <= NT!Max(S)
BY NoticesAssumption, GreatestIn DEF NT!NoticeIds

LEMMA LesserOf ==
  ASSUME NEW i \in Nat, NEW j \in Nat
  PROVE  NT!Min({i, j}) = IF i <= j THEN i ELSE j
<1>1. \A x \in {i, j} : (\A y \in {i, j} : x <= y) => x = IF i <= j THEN i ELSE j
  OBVIOUS
<1>2. \E x \in {i, j} : \A y \in {i, j} : x <= y
  OBVIOUS
<1>3. NT!Min({i, j}) \in {i, j} /\ \A y \in {i, j} : NT!Min({i, j}) <= y
  BY <1>2 DEF NT!Min
<1> QED BY <1>1, <1>3

-----------------------------------------------------------------------------
NoticeRows == [popup : BOOLEAN, dismissed : BOOLEAN]
NoticeItems == [n : NT!NoticeIds, popup : BOOLEAN]
Syncing ==
    [at : {"fetch", "read", "write", "latest", "clear", "ok"}, page : Nat \ {0}, items : Seq(NoticeItems),
     popups : SUBSET NT!NoticeIds, dismissed : BOOLEAN, latest : NT!NoticeIds \cup {Absent}]

NoticesTyped ==
    /\ site \in [NT!NoticeIds -> BOOLEAN \cup {Absent}]
    /\ rows \in [NT!NoticeIds -> NoticeRows \cup {Absent}]
    /\ sync \in Syncing \cup {[at |-> "rest"], [at |-> "failed"]}
    /\ sync.at \in {"read", "write"} => sync.items # <<>>
    /\ sync.at = "clear" => sync.latest \in NT!NoticeIds
    /\ syncs \in 0 .. MaxSyncs /\ disturbed \in BOOLEAN

\* What has been fetched is the beginning of what there is, page by page.
FetchedSoFar ==
    sync.at = "fetch" =>
        /\ Len(sync.items) = (sync.page - 1) * RemotePage /\ Len(sync.items) <= Len(NT!Newest)
        /\ \A i \in 1 .. Len(sync.items) : sync.items[i] = [n |-> NT!Newest[i], popup |-> site[NT!Newest[i]]]

\* A notice whose item has been written.
Done(n) ==
    /\ n \in NT!Known /\ (site[n] = TRUE => n \in sync.popups)
    /\ rows[n].popup = TRUE <=> site[n] = TRUE /\ rows[n].dismissed = FALSE
ToDo == {sync.items[i].n : i \in 1 .. Len(sync.items)}

ItemsRight ==
    sync.at \in {"read", "write"} =>
        /\ \A i \in 1 .. Len(sync.items) :
              sync.items[i].n \in NT!Published /\ sync.items[i].popup = site[sync.items[i].n]
        /\ \A n \in NT!Published : n \in ToDo \/ Done(n)
ItemRead ==
    sync.at = "write" =>
        /\ sync.dismissed = TRUE <=> NT!Item.n \in NT!Known /\ rows[NT!Item.n].dismissed = TRUE
        /\ NT!Item.popup = TRUE => NT!Item.n \in sync.popups
PopupsRight ==
    sync.at \in {"fetch", "read", "write", "latest"} => \A n \in sync.popups : n \in NT!Published /\ site[n] = TRUE

Undisturbed ==
    /\ FetchedSoFar /\ ItemsRight /\ ItemRead /\ PopupsRight
    /\ sync.at = "latest" => \A n \in NT!Published : Done(n)
    /\ sync.at = "clear" => NT!Wanted # {} /\ sync.latest = NT!Max(NT!Wanted) /\ rows[sync.latest].popup = TRUE

NoticesInv == NoticesTyped /\ NT!PopupIsNewest /\ (~disturbed => Undisturbed)

LEMMA SyncFields ==
  ASSUME NoticesTyped, sync.at \notin {"rest", "failed"}
  PROVE  /\ sync \in Syncing
         /\ sync.page \in Nat \ {0} /\ sync.items \in Seq(NoticeItems) /\ sync.popups \in SUBSET NT!NoticeIds
         /\ sync.dismissed \in BOOLEAN /\ sync.latest \in NT!NoticeIds \cup {Absent}
<1>1. sync \in Syncing
  BY DEF NoticesTyped
<1> QED BY <1>1 DEF Syncing

LEMMA NoticesInit ==
  ASSUME NT!Init
  PROVE  NoticesInv
<1>1. NoticesTyped
  <2>1. 0 \in 0 .. MaxSyncs
    BY NoticesAssumption
  <2> QED BY <2>1 DEF NT!Init, NoticesTyped
<1>2. NT!PopupIsNewest /\ Undisturbed
  BY DEF NT!Init, NT!PopupIsNewest, Undisturbed, FetchedSoFar, ItemsRight, ItemRead, PopupsRight
<1> QED BY <1>1, <1>2 DEF NoticesInv

LEMMA FirstItem ==
  ASSUME NoticesTyped, sync.at \in {"read", "write"}
  PROVE  /\ sync.items \in Seq(NoticeItems) /\ Len(sync.items) \in Nat \ {0} /\ NT!Item = sync.items[1]
         /\ NT!Item \in NoticeItems /\ NT!Item.n \in NT!NoticeIds /\ NT!Item.popup \in BOOLEAN
<1>1. sync.items \in Seq(NoticeItems) /\ sync.items # <<>>
  BY SyncFields DEF NoticesTyped
<1>2. Len(sync.items) \in Nat \ {0} /\ NT!Item = sync.items[1] /\ NT!Item \in NoticeItems
  BY <1>1 DEF NT!Item
<1> QED BY <1>1, <1>2 DEF NoticeItems

LEMMA NoticesTypedStep ==
  ASSUME NoticesTyped, [NT!Next]_noticesvars
  PROVE  NoticesTyped'
<1> USE DEF NoticesTyped
<1>1. ASSUME NEW n \in NT!NoticeIds, NEW b \in BOOLEAN, NT!Publish(n, b) \/ NT!Withdraw(n)
      PROVE  NoticesTyped'
  BY <1>1 DEF NT!Publish, NT!Withdraw
<1>2. ASSUME NEW n \in NT!NoticeIds, NT!Dismiss(n)
      PROVE  NoticesTyped'
  BY <1>2 DEF NT!Dismiss, NT!Row, NoticeRows
<1>3. CASE NT!SyncBegins
  <2>1. sync' \in Syncing /\ sync'.at = "fetch"
    BY <1>3 DEF NT!SyncBegins, Syncing
  <2>2. syncs' \in 0 .. MaxSyncs
    BY <1>3, NoticesAssumption DEF NT!SyncBegins
  <2> QED BY <1>3, <2>1, <2>2 DEF NT!SyncBegins
<1>4. CASE NT!FetchPage
  <2> DEFINE new == NT!PageOf(sync.page)
             all == sync.items \o [i \in DOMAIN new |-> [n |-> new[i], popup |-> site[new[i]]]]
  <2>1. sync.page \in Nat \ {0} /\ sync.items \in Seq(NoticeItems) /\ sync \in Syncing
    BY <1>4, SyncFields DEF NT!FetchPage
  <2>2. new \in Seq(NT!Published)
    <3>1. NT!Newest \in Seq(NT!Published) /\ Len(NT!Newest) \in Nat
      BY NewestIsAll DEF Places
    <3> DEFINE u == sync.page * RemotePage
               a == (sync.page - 1) * RemotePage
               m == NT!Min({u, Len(NT!Newest)})
    <3>2. u \in Nat /\ a \in Nat
      BY <2>1, NoticesAssumption
    <3>3. new = SubSeq(NT!Newest, a + 1, m)
      BY DEF NT!PageOf
    <3> HIDE DEF a, u, new
    <3>4. m \in Nat /\ m <= Len(NT!Newest)
      <4>1. m = IF u <= Len(NT!Newest) THEN u ELSE Len(NT!Newest)
        BY <3>1, <3>2, LesserOf
      <4> HIDE DEF m
      <4> QED BY <3>1, <3>2, <4>1
    <3> HIDE DEF m
    <3>5. a + 1 \in Nat /\ a + 1 >= 1
      BY <3>2
    <3> QED BY <3>1, <3>3, <3>4, <3>5
  <2>3. [i \in DOMAIN new |-> [n |-> new[i], popup |-> site[new[i]]]] \in Seq(NoticeItems)
    <3>1. \A i \in DOMAIN new : new[i] \in NT!Published
      BY <2>2
    <3>2. \A n \in NT!Published : [n |-> n, popup |-> site[n]] \in NoticeItems
      BY DEF NT!Published, NoticeItems
    <3> HIDE DEF new
    <3> QED BY <2>2, <3>1, <3>2
  <2>4. all \in Seq(NoticeItems)
    BY <2>1, <2>3
  <2>5. /\ sync' = [sync EXCEPT !.items = all, !.page = @ + 1, !.at = sync'.at]
        /\ sync'.at \in {"fetch", "read", "ok"} /\ (sync'.at = "read" => all # <<>>)
    <3> HIDE DEF new
    <3> DEFINE at == IF ~(new = <<>> \/ Len(all) >= Len(NT!Newest)) THEN "fetch" ELSE IF all = <<>> THEN "ok" ELSE "read"
    <3>1. sync' = [sync EXCEPT !.items = all, !.page = @ + 1, !.at = at]
      BY <1>4 DEF NT!FetchPage, new
    <3>2. at \in {"fetch", "read", "ok"} /\ (at = "read" => all # <<>>)
      OBVIOUS
    <3> HIDE DEF at, all
    <3>3. sync'.at = at
      BY <2>1, <3>1 DEF Syncing
    <3> QED BY <3>1, <3>2, <3>3
  <2> HIDE DEF new, all
  <2>6. sync' \in Syncing /\ sync'.items = all
    <3>1. PICK at \in {"fetch", "read", "ok"} : sync' = [sync EXCEPT !.items = all, !.page = @ + 1, !.at = at]
      BY <2>5
    <3>2. sync.page + 1 \in Nat \ {0}
      BY <2>1
    <3> QED BY <2>1, <2>4, <3>1, <3>2 DEF Syncing
  <2> QED BY <1>4, <2>5, <2>6 DEF NT!FetchPage
<1>5. CASE NT!ReadNotice
  <2>1. sync \in Syncing /\ sync.items # <<>> /\ NT!Item.n \in NT!NoticeIds /\ NT!Item.popup \in BOOLEAN
    BY <1>5, SyncFields, FirstItem DEF NT!ReadNotice
  <2>2. (rows[NT!Item.n] # Absent /\ rows[NT!Item.n].dismissed) \in BOOLEAN
    OBVIOUS
  <2>3. sync' \in Syncing /\ sync'.at = "write" /\ sync'.items = sync.items
    BY <1>5, <2>1, <2>2 DEF NT!ReadNotice, Syncing
  <2> QED BY <1>5, <2>1, <2>3 DEF NT!ReadNotice
<1>6. CASE NT!WriteNotice
  <2>1. sync \in Syncing /\ sync.items \in Seq(NoticeItems) /\ Len(sync.items) \in Nat \ {0} /\ NT!Item.n \in NT!NoticeIds
    BY <1>6, SyncFields, FirstItem DEF NT!WriteNotice
  <2>2. Tail(sync.items) \in Seq(NoticeItems) /\ (Len(sync.items) # 1 => Tail(sync.items) # <<>>)
    <3> DEFINE t == Tail(sync.items)
    <3>1. t \in Seq(NoticeItems) /\ Len(t) = Len(sync.items) - 1
      BY <2>1
    <3>2. Len(sync.items) # 1 => Len(t) # 0
      BY <2>1, <3>1
    <3> HIDE DEF t
    <3>3. Len(t) # 0 => t # <<>>
      OBVIOUS
    <3> QED BY <3>1, <3>2, <3>3 DEF t
  <2>3. sync' \in Syncing /\ sync'.at \in {"latest", "read"} /\ sync'.items = Tail(sync.items)
        /\ (sync'.at = "read" => Len(sync.items) # 1)
    BY <1>6, <2>1, <2>2 DEF NT!WriteNotice, NT!AfterItem, Syncing
  <2>4. rows' \in [NT!NoticeIds -> NoticeRows \cup {Absent}]
    BY <1>6, <2>1 DEF NT!WriteNotice, NT!Row, NoticeRows
  <2> QED BY <1>6, <2>2, <2>3, <2>4 DEF NT!WriteNotice
<1>7. CASE NT!FindLatest
  <2> DEFINE left == {n \in sync.popups \cap NT!Known : ~rows[n].dismissed}
  <2>1. sync \in Syncing /\ sync.popups \in SUBSET NT!NoticeIds
    BY <1>7, SyncFields DEF NT!FindLatest
  <2>2. left # {} => NT!Max(left) \in NT!NoticeIds
    BY <2>1, NewestNotice
  <2>3. sync' = IF left = {} THEN [sync EXCEPT !.at = "ok"] ELSE [sync EXCEPT !.at = "clear", !.latest = NT!Max(left)]
    BY <1>7 DEF NT!FindLatest
  <2> HIDE DEF left
  <2>4. sync' \in Syncing /\ sync'.at \in {"ok", "clear"} /\ (sync'.at = "clear" => sync'.latest \in NT!NoticeIds)
    BY <2>1, <2>2, <2>3 DEF Syncing
  <2> QED BY <1>7, <2>4 DEF NT!FindLatest
<1>8. CASE NT!ClearOthers
  <2>1. sync \in Syncing
    BY <1>8, SyncFields DEF NT!ClearOthers
  <2>2. sync' \in Syncing /\ sync'.at = "ok"
    BY <1>8, <2>1 DEF NT!ClearOthers, Syncing
  <2>3. rows' \in [NT!NoticeIds -> NoticeRows \cup {Absent}]
    BY <1>8 DEF NT!ClearOthers, NoticeRows, NT!Known
  <2> QED BY <1>8, <2>2, <2>3 DEF NT!ClearOthers
<1>9. CASE NT!SyncFails
  BY <1>9 DEF NT!SyncFails
<1>10. CASE UNCHANGED noticesvars
  BY <1>10 DEF noticesvars
<1> QED BY <1>1, <1>2, <1>3, <1>4, <1>5, <1>6, <1>7, <1>8, <1>9, <1>10 DEF NT!Next, NT!Known

LEMMA NoticeRowFields ==
  ASSUME NoticesTyped
  PROVE  /\ NT!Known \subseteq NT!NoticeIds /\ NT!Published \subseteq NT!NoticeIds
         /\ \A n \in NT!Known : /\ rows[n] \in NoticeRows /\ rows[n].popup \in BOOLEAN /\ rows[n].dismissed \in BOOLEAN
                             /\ rows[n] = [popup |-> rows[n].popup, dismissed |-> rows[n].dismissed]
         /\ \A n \in NT!Published : site[n] \in BOOLEAN
         /\ NT!Wanted = {n \in NT!Published : site[n] = TRUE /\ n \in NT!Known /\ rows[n].dismissed = FALSE}
         /\ NT!Popups(rows) = {n \in NT!Known : rows[n].popup = TRUE /\ rows[n].dismissed = FALSE}
<1>1. \A n \in NT!Known : rows[n] \in NoticeRows
  BY DEF NoticesTyped, NT!Known
<1>2. \A n \in NT!Known : /\ rows[n].popup \in BOOLEAN /\ rows[n].dismissed \in BOOLEAN
                       /\ rows[n] = [popup |-> rows[n].popup, dismissed |-> rows[n].dismissed]
  BY <1>1 DEF NoticeRows
<1>3. \A n \in NT!Published : site[n] \in BOOLEAN
  BY DEF NoticesTyped, NT!Published
<1>4. NT!Known \subseteq NT!NoticeIds /\ NT!Published \subseteq NT!NoticeIds
  BY DEF NT!Known, NT!Published
<1>5. NT!Wanted = {n \in NT!Published : site[n] = TRUE /\ n \in NT!Known /\ rows[n].dismissed = FALSE}
  <2>1. \A n \in NT!Published : (site[n] <=> site[n] = TRUE)
    BY <1>3
  <2>2. \A n \in NT!Known : (~rows[n].dismissed <=> rows[n].dismissed = FALSE)
    BY <1>2
  <2> QED BY <2>1, <2>2 DEF NT!Wanted
<1>6. NT!Popups(rows) = {n \in NT!Known : rows[n].popup = TRUE /\ rows[n].dismissed = FALSE}
  <2>1. \A n \in NT!Known : (~rows[n].dismissed <=> rows[n].dismissed = FALSE) /\ (rows[n].popup <=> rows[n].popup = TRUE)
    BY <1>2
  <2>2. NT!Popups(rows) = {n \in NT!Known : rows[n].popup /\ ~rows[n].dismissed}
    BY DEF NT!Popups, NT!Known
  <2> QED BY <2>1, <2>2
<1> QED BY <1>1, <1>2, <1>3, <1>4, <1>5, <1>6

LEMMA FetchKeeps ==
  ASSUME NoticesInv, NT!FetchPage, ~disturbed
  PROVE  Undisturbed' /\ NT!PopupIsNewest'
<1> DEFINE new == NT!PageOf(sync.page)
           q == (sync.page - 1) * RemotePage
           u == sync.page * RemotePage
           L == Len(NT!Newest)
           m == NT!Min({u, L})
           more == [i \in DOMAIN new |-> [n |-> new[i], popup |-> site[new[i]]]]
           all == sync.items \o more
           It(i) == [n |-> NT!Newest[i], popup |-> site[NT!Newest[i]]]
<1>1. /\ sync \in Syncing /\ sync.page \in Nat \ {0} /\ sync.items \in Seq(NoticeItems) /\ sync.at = "fetch"
      /\ UNCHANGED <<site, rows, disturbed>>
  BY SyncFields DEF NT!FetchPage, NoticesInv
<1>2. q \in Nat /\ u = q + RemotePage /\ (sync.page + 1 - 1) * RemotePage = u
  BY <1>1, NoticesAssumption
<1>3. NT!Newest \in Seq(NT!Published) /\ L \in Nat /\ \A n \in NT!Published : \E i \in 1 .. L : NT!Newest[i] = n
  BY NewestIsAll DEF Places
<1>4. Len(sync.items) = q /\ q <= L /\ \A i \in 1 .. q : sync.items[i] = It(i)
  BY <1>1 DEF NoticesInv, Undisturbed, FetchedSoFar
<1>5. new = SubSeq(NT!Newest, q + 1, m)
  BY DEF NT!PageOf
<1>6. sync' = [sync EXCEPT !.items = all, !.page = @ + 1,
                           !.at = IF ~(new = <<>> \/ Len(all) >= L) THEN "fetch" ELSE IF all = <<>> THEN "ok" ELSE "read"]
  BY DEF NT!FetchPage
<1>7. PopupsRight
  BY DEF NoticesInv, Undisturbed
<1> HIDE DEF new, q, u, L, m
<1>8. m = (IF u <= L THEN u ELSE L) /\ m \in Nat /\ q <= m /\ m <= L /\ (m = q => m = L) /\ (m < L => m = u)
  <2>1. u \in Nat /\ q < u
    BY <1>2, NoticesAssumption
  <2>2. m = IF u <= L THEN u ELSE L
    BY <1>3, <2>1, LesserOf DEF m
  <2> QED BY <1>2, <1>3, <1>4, <2>1, <2>2
<1>9. new \in Seq(NT!Published) /\ Len(new) = m - q /\ DOMAIN new = 1 .. m - q /\ \A i \in 1 .. m - q : new[i] = NT!Newest[q + i]
  <2>1. NT!Newest \in Seq(NT!Published) /\ Len(NT!Newest) = L /\ q + 1 \in 1 .. L + 1 /\ m \in q .. L
    BY <1>2, <1>3, <1>4, <1>8 DEF L
  <2>2. new \in Seq(NT!Published) /\ Len(new) = m - q
    <3>1. q + 1 \in Int /\ m \in Int /\ (IF q + 1 <= m THEN m - (q + 1) + 1 ELSE 0) = m - q
      BY <1>2, <1>8
    <3>2. \A i \in q + 1 .. m : NT!Newest[i] \in NT!Published
      BY <1>2, <1>3, <2>1
    <3> QED BY <1>5, <3>1, <3>2, SubSeqProperties
  <2>3. \A i \in 1 .. m - q : new[i] = NT!Newest[q + i]
    BY <1>2, <1>3, <1>5, <1>8, <2>1
  <2> QED BY <1>2, <1>8, <2>2, <2>3
<1>10. all \in Seq(NoticeItems) /\ Len(all) = m /\ \A i \in 1 .. m : all[i] = It(i)
  <2>1. \A i \in 1 .. m - q : new[i] \in NT!Published /\ site[new[i]] \in BOOLEAN /\ new[i] \in NT!NoticeIds
    BY <1>9, NoticeRowFields DEF NoticesInv
  <2>2. \A i \in 1 .. m - q : [n |-> new[i], popup |-> site[new[i]]] \in NoticeItems
    BY <2>1 DEF NoticeItems
  <2>3. more \in [1 .. m - q -> NoticeItems] /\ \A i \in 1 .. m - q : more[i] = It(q + i)
    BY <1>9, <2>2
  <2> HIDE DEF more, It
  <2>4. more \in Seq(NoticeItems) /\ Len(more) = m - q
    BY <1>2, <1>8, <2>3
  <2>5. all \in Seq(NoticeItems) /\ Len(all) = m
    <3>1. all \in Seq(NoticeItems) /\ Len(all) = Len(sync.items) + Len(more)
      BY <1>1, <2>4, ConcatProperties
    <3> HIDE DEF all
    <3> QED BY <1>2, <1>4, <1>8, <2>4, <3>1
  <2>6. \A i \in 1 .. m : all[i] = It(i)
    <3> SUFFICES ASSUME NEW i \in 1 .. m PROVE all[i] = It(i)
      OBVIOUS
    <3>1. CASE i <= q
      BY <1>1, <1>2, <1>4, <1>8, <2>4, <3>1
    <3>2. CASE i > q
      <4>1. i - q \in 1 .. m - q /\ q + (i - q) = i
        BY <1>2, <1>8, <3>2
      <4>2. all[i] = more[i - q]
        <5>1. i \in 1 .. Len(sync.items) + Len(more) /\ i > Len(sync.items) /\ i - Len(sync.items) = i - q
          BY <1>2, <1>4, <1>8, <2>4, <3>2
        <5> QED BY <1>1, <2>4, <5>1, ConcatProperties
      <4> QED BY <2>3, <4>1, <4>2
    <3>3. i <= q \/ i > q
      BY <1>2, <1>8
    <3> QED BY <3>1, <3>2, <3>3
  <2> QED BY <2>5, <2>6
<1> HIDE DEF all, more
<1>11. UNCHANGED <<NT!Published, NT!Known, NT!Newest>> /\ \A n : site'[n] = site[n] /\ rows'[n] = rows[n]
  BY <1>1 DEF NT!Published, NT!Known, NT!Newest
<1>12. sync'.popups = sync.popups /\ sync'.items = all /\ sync'.page = sync.page + 1 /\ sync'.at \in {"fetch", "ok", "read"}
  <2>1. PICK at \in {"fetch", "read", "ok"} : sync' = [sync EXCEPT !.items = all, !.page = @ + 1, !.at = at]
    BY <1>6
  <2> QED BY <1>1, <2>1 DEF Syncing
<1>13. PopupsRight'
  BY <1>1, <1>7, <1>11, <1>12 DEF PopupsRight
<1>14. CASE ~(new = <<>> \/ Len(all) >= L)
  <2>1. sync'.at = "fetch"
    BY <1>1, <1>6, <1>14 DEF Syncing
  <2>2. m = u
    BY <1>3, <1>8, <1>10, <1>14
  <2>3. FetchedSoFar'
    <3>1. Len(all) = (sync'.page - 1) * RemotePage
      <4> DEFINE p == sync'.page
      <4>1. p = sync.page + 1
        BY <1>12
      <4> HIDE DEF p
      <4>2. p - 1 = sync.page
        BY <1>1, <4>1
      <4>3. (p - 1) * RemotePage = u
        BY <4>2 DEF u
      <4> QED BY <1>10, <2>2, <4>3 DEF p
    <3>2. Len(all) <= Len(NT!Newest')
      BY <1>8, <1>10, <1>11 DEF L
    <3>3. \A i \in 1 .. Len(all) : all[i] = [n |-> NT!Newest'[i], popup |-> site'[NT!Newest'[i]]]
      BY <1>10, <1>11
    <3> QED BY <1>12, <3>1, <3>2, <3>3 DEF FetchedSoFar
  <2> QED BY <1>13, <2>1, <2>3 DEF Undisturbed, ItemsRight, ItemRead, NT!PopupIsNewest
<1>15. CASE new = <<>> \/ Len(all) >= L
  <2>1. m = L
    BY <1>2, <1>3, <1>8, <1>9, <1>10, <1>15
  <2>2. CASE all = <<>>
    <3>1. sync'.at = "ok"
      BY <1>1, <1>6, <1>15, <2>2 DEF Syncing
    <3>2. NT!Published = {}
      BY <1>3, <1>10, <2>1, <2>2
    <3>3. NT!Wanted' = {} /\ NT!Popups(rows)' \ NT!Published' = NT!Popups(rows)'
      BY <1>11, <3>2 DEF NT!Wanted
    <3>4. NT!PopupIsNewest'
      BY <3>3 DEF NT!PopupIsNewest, NT!Popup
    <3> QED BY <1>13, <3>1, <3>4 DEF Undisturbed, FetchedSoFar, ItemsRight, ItemRead
  <2>3. CASE all # <<>>
    <3>1. sync'.at = "read"
      BY <1>1, <1>6, <1>15, <2>3 DEF Syncing
    <3>2. \A i \in 1 .. m : all[i].n = NT!Newest[i] /\ all[i].popup = site[NT!Newest[i]] /\ NT!Newest[i] \in NT!Published
      <4>1. \A i \in 1 .. m : all[i].n = NT!Newest[i] /\ all[i].popup = site[NT!Newest[i]]
        BY <1>10
      <4>2. \A i \in 1 .. Len(NT!Newest) : NT!Newest[i] \in NT!Published
        BY <1>3
      <4>3. m = Len(NT!Newest)
        BY <2>1 DEF L
      <4> QED BY <4>1, <4>2, <4>3
    <3>3. \A n \in NT!Published : n \in ToDo'
      <4> SUFFICES ASSUME NEW n \in NT!Published PROVE n \in ToDo'
        OBVIOUS
      <4>1. PICK i \in 1 .. L : NT!Newest[i] = n
        BY <1>3
      <4> QED BY <1>10, <1>12, <2>1, <3>2, <4>1 DEF ToDo
    <3>4. ItemsRight'
      BY <1>10, <1>11, <1>12, <3>1, <3>2, <3>3 DEF ItemsRight
    <3> QED BY <1>13, <3>1, <3>4 DEF Undisturbed, FetchedSoFar, ItemRead, NT!PopupIsNewest
  <2> QED BY <2>2, <2>3
<1> QED BY <1>14, <1>15

LEMMA ReadKeeps ==
  ASSUME NoticesInv, NT!ReadNotice, ~disturbed
  PROVE  Undisturbed' /\ NT!PopupIsNewest'
<1>1. /\ sync \in Syncing /\ sync.at = "read" /\ sync.popups \in SUBSET NT!NoticeIds
      /\ sync.items \in Seq(NoticeItems) /\ Len(sync.items) \in Nat \ {0} /\ NT!Item = sync.items[1]
      /\ NT!Item.n \in NT!NoticeIds /\ NT!Item.popup \in BOOLEAN /\ UNCHANGED <<site, rows, disturbed>>
  BY SyncFields, FirstItem DEF NT!ReadNotice, NoticesInv
<1>2. PopupsRight /\ ItemsRight
  BY DEF NoticesInv, Undisturbed
<1>3. NT!Item.n \in NT!Published /\ NT!Item.popup = site[NT!Item.n]
  BY <1>1, <1>2 DEF ItemsRight
<1>4. /\ sync'.at = "write" /\ sync'.items = sync.items /\ NT!Item' = NT!Item
      /\ sync'.popups = IF NT!Item.popup THEN sync.popups \cup {NT!Item.n} ELSE sync.popups
      /\ sync'.dismissed = (rows[NT!Item.n] # Absent /\ rows[NT!Item.n].dismissed)
  BY <1>1 DEF NT!ReadNotice, Syncing, NT!Item
<1>5. UNCHANGED <<NT!Published, NT!Known>> /\ \A n : site'[n] = site[n] /\ rows'[n] = rows[n]
  BY <1>1 DEF NT!Published, NT!Known
<1>6. PopupsRight'
  BY <1>1, <1>2, <1>3, <1>4, <1>5 DEF PopupsRight
<1>7. \A n : Done(n) => Done(n)'
  BY <1>4, <1>5 DEF Done
<1>8. ToDo' = ToDo
  BY <1>4 DEF ToDo
<1>9. ItemsRight'
  BY <1>1, <1>2, <1>4, <1>5, <1>7, <1>8 DEF ItemsRight
<1>10. sync'.dismissed = TRUE <=> NT!Item.n \in NT!Known /\ rows[NT!Item.n].dismissed = TRUE
  <2>1. NT!Item.n \in NT!Known <=> rows[NT!Item.n] # Absent
    BY <1>1 DEF NT!Known
  <2>2. NT!Item.n \in NT!Known => rows[NT!Item.n].dismissed \in BOOLEAN
    BY NoticeRowFields DEF NoticesInv
  <2>3. CASE NT!Item.n \in NT!Known
    BY <1>4, <2>1, <2>2, <2>3
  <2>4. CASE NT!Item.n \notin NT!Known
    BY <1>4, <2>1, <2>4
  <2> QED BY <2>3, <2>4
<1>11. ItemRead'
  BY <1>1, <1>4, <1>5, <1>10 DEF ItemRead
<1> QED BY <1>4, <1>6, <1>9, <1>11 DEF Undisturbed, FetchedSoFar, NT!PopupIsNewest

LEMMA WriteKeeps ==
  ASSUME NoticesInv, NT!WriteNotice, ~disturbed
  PROVE  Undisturbed' /\ NT!PopupIsNewest'
<1>0. PICK k : k = NT!Item.n
  OBVIOUS
<1>1. /\ sync \in Syncing /\ sync.at = "write" /\ sync.dismissed \in BOOLEAN
      /\ sync.items \in Seq(NoticeItems) /\ Len(sync.items) \in Nat \ {0} /\ NT!Item = sync.items[1]
      /\ k \in NT!NoticeIds /\ NT!Item.popup \in BOOLEAN /\ UNCHANGED <<site, disturbed>>
  BY <1>0, SyncFields, FirstItem DEF NT!WriteNotice, NoticesInv
<1>2. PopupsRight /\ ItemsRight /\ ItemRead
  BY DEF NoticesInv, Undisturbed
<1>3. k \in NT!Published /\ NT!Item.popup = site[k] /\ (NT!Item.popup = TRUE => k \in sync.popups)
      /\ (sync.dismissed = TRUE <=> k \in NT!Known /\ rows[k].dismissed = TRUE)
  BY <1>0, <1>1, <1>2 DEF ItemsRight, ItemRead
<1>4. /\ sync'.items = Tail(sync.items) /\ sync'.popups = sync.popups
      /\ sync'.at = IF Len(sync.items) = 1 THEN "latest" ELSE "read"
  BY <1>1 DEF NT!WriteNotice, NT!AfterItem, Syncing
<1>5. rows' = [rows EXCEPT ![k] = [popup |-> NT!Item.popup /\ ~sync.dismissed,
                                   dismissed |-> rows[k] # Absent /\ rows[k].dismissed]]
  BY <1>0 DEF NT!WriteNotice, NT!Row
<1>6. rows \in [NT!NoticeIds -> NoticeRows \cup {Absent}]
  BY DEF NoticesInv, NoticesTyped
<1>7. /\ rows'[k].popup = (NT!Item.popup /\ ~sync.dismissed)
      /\ rows'[k].dismissed = (rows[k] # Absent /\ rows[k].dismissed) /\ rows'[k] \in NoticeRows
      /\ \A n \in NT!NoticeIds \ {k} : rows'[n] = rows[n]
  BY <1>1, <1>5, <1>6 DEF NoticeRows
<1>8. NT!Published' = NT!Published /\ NT!Known' = NT!Known \cup {k}
  <2>1. rows'[k] # Absent
    BY <1>7, NoticesAssumption DEF NoticeRows
  <2> QED BY <1>1, <1>7, <2>1 DEF NT!Published, NT!Known
<1>9. Done(k)'
  <2>1. rows'[k].dismissed = sync.dismissed
    <3>1. k \in NT!Known <=> rows[k] # Absent
      BY <1>1 DEF NT!Known
    <3>2. k \in NT!Known => rows[k].dismissed \in BOOLEAN
      BY NoticeRowFields DEF NoticesInv
    <3>3. CASE k \in NT!Known
      BY <1>1, <1>3, <1>7, <3>1, <3>2, <3>3
    <3>4. CASE k \notin NT!Known
      BY <1>1, <1>3, <1>7, <3>1, <3>4
    <3> QED BY <3>3, <3>4
  <2>2. rows'[k].popup = TRUE <=> NT!Item.popup = TRUE /\ sync.dismissed = FALSE
    BY <1>1, <1>7
  <2>3. site'[k] = TRUE <=> NT!Item.popup = TRUE
    BY <1>1, <1>3
  <2>4. site'[k] = TRUE => k \in sync'.popups
    BY <1>3, <1>4, <2>3
  <2> QED BY <1>8, <2>1, <2>2, <2>3, <2>4 DEF Done
<1>10. \A n \in NT!Published : Done(n) => Done(n)'
  <2> SUFFICES ASSUME NEW n \in NT!Published, Done(n), n # k PROVE Done(n)'
    BY <1>9
  <2>1. n \in NT!NoticeIds
    BY DEF NT!Published
  <2> QED BY <1>1, <1>4, <1>7, <1>8, <2>1 DEF Done
<1>11. PopupsRight'
  BY <1>1, <1>2, <1>4, <1>8 DEF PopupsRight
<1>12. /\ Tail(sync.items) \in Seq(NoticeItems) /\ Len(Tail(sync.items)) = Len(sync.items) - 1
       /\ \A i \in 1 .. Len(sync.items) - 1 : Tail(sync.items)[i] = sync.items[i + 1] /\ i + 1 \in 1 .. Len(sync.items)
  BY <1>1
<1>13. \A n \in ToDo : n = k \/ n \in ToDo'
  <2> SUFFICES ASSUME NEW i \in 1 .. Len(sync.items), i # 1 PROVE sync.items[i].n \in ToDo'
    BY <1>0, <1>1 DEF ToDo
  <2>1. i - 1 \in 1 .. Len(sync.items) - 1 /\ (i - 1) + 1 = i
    BY <1>1
  <2>2. Tail(sync.items)[i - 1] = sync.items[i]
    BY <1>12, <2>1
  <2> QED BY <1>4, <1>12, <2>1, <2>2 DEF ToDo
<1>14. \A n \in NT!Published : n \in ToDo' \/ Done(n)'
  BY <1>1, <1>2, <1>9, <1>10, <1>13 DEF ItemsRight
<1>15. CASE Len(sync.items) = 1
  <2>1. ToDo' = {}
    BY <1>4, <1>12, <1>15 DEF ToDo
  <2>2. sync'.at = "latest"
    BY <1>4, <1>15
  <2> QED BY <1>8, <1>11, <1>14, <2>1, <2>2 DEF Undisturbed, FetchedSoFar, ItemsRight, ItemRead, NT!PopupIsNewest
<1>16. CASE Len(sync.items) # 1
  <2>1. sync'.at = "read"
    BY <1>4, <1>16
  <2>2. \A i \in 1 .. Len(sync.items) - 1 :
           sync'.items[i].n \in NT!Published /\ sync'.items[i].popup = site[sync'.items[i].n]
    <3>1. \A i \in 1 .. Len(sync.items) :
             sync.items[i].n \in NT!Published /\ sync.items[i].popup = site[sync.items[i].n]
      BY <1>1, <1>2 DEF ItemsRight
    <3> QED BY <1>4, <1>12, <3>1
  <2>3. ItemsRight'
    BY <1>1, <1>4, <1>8, <1>12, <1>14, <2>2 DEF ItemsRight
  <2> QED BY <1>11, <2>1, <2>3 DEF Undisturbed, FetchedSoFar, ItemRead, NT!PopupIsNewest
<1> QED BY <1>15, <1>16

LEMMA LatestKeeps ==
  ASSUME NoticesInv, NT!FindLatest, ~disturbed
  PROVE  Undisturbed' /\ NT!PopupIsNewest'
<1> DEFINE left == {n \in sync.popups \cap NT!Known : ~rows[n].dismissed}
<1>1. /\ sync \in Syncing /\ sync.at = "latest" /\ sync.popups \in SUBSET NT!NoticeIds
      /\ UNCHANGED <<site, rows, disturbed>>
  BY SyncFields DEF NT!FindLatest, NoticesInv
<1>2. PopupsRight /\ \A n \in NT!Published : Done(n)
  BY <1>1 DEF NoticesInv, Undisturbed
<1>3. UNCHANGED <<NT!Published, NT!Known, NT!Wanted, NT!Popups(rows)>>
  BY <1>1 DEF NT!Published, NT!Known, NT!Wanted, NT!Popups
<1>4. \A n \in NT!Known : rows[n].popup \in BOOLEAN /\ rows[n].dismissed \in BOOLEAN
  BY NoticeRowFields DEF NoticesInv
<1>5. NT!Wanted = {n \in NT!Published : site[n] = TRUE /\ n \in NT!Known /\ rows[n].dismissed = FALSE}
      /\ NT!Popups(rows) = {n \in NT!Known : rows[n].popup = TRUE /\ rows[n].dismissed = FALSE}
  BY NoticeRowFields DEF NoticesInv
<1>6. left = NT!Wanted
  <2>1. \A n \in left : n \in NT!Wanted
    BY <1>1, <1>2, <1>4, <1>5 DEF PopupsRight
  <2>2. \A n \in NT!Wanted : n \in left
    BY <1>2, <1>4, <1>5 DEF Done
  <2> QED BY <2>1, <2>2
<1>7. sync' = IF NT!Wanted = {} THEN [sync EXCEPT !.at = "ok"] ELSE [sync EXCEPT !.at = "clear", !.latest = NT!Max(NT!Wanted)]
  BY <1>6 DEF NT!FindLatest
<1> HIDE DEF left
<1>8. CASE NT!Wanted = {}
  <2>1. sync'.at = "ok"
    BY <1>1, <1>7, <1>8 DEF Syncing
  <2>2. NT!Popups(rows) \cap NT!Published = {}
    BY <1>2, <1>5, <1>8 DEF Done
  <2>3. NT!Wanted' = {} /\ NT!Popups(rows)' \ NT!Published' = NT!Popups(rows)'
    BY <1>3, <1>8, <2>2
  <2>4. NT!PopupIsNewest'
    BY <2>3 DEF NT!PopupIsNewest, NT!Popup
  <2> QED BY <2>1, <2>4 DEF Undisturbed, FetchedSoFar, ItemsRight, ItemRead, PopupsRight
<1>9. CASE NT!Wanted # {}
  <2>1. sync'.at = "clear" /\ sync'.latest = NT!Max(NT!Wanted)
    BY <1>1, <1>7, <1>9 DEF Syncing
  <2>2. NT!Wanted \in SUBSET NT!NoticeIds
    BY <1>5 DEF NT!Published
  <2>3. NT!Max(NT!Wanted) \in NT!Wanted
    BY <1>9, <2>2, NewestNotice
  <2>4. rows'[NT!Max(NT!Wanted)].popup = TRUE
    BY <1>1, <1>2, <1>5, <2>3 DEF Done
  <2>5. NT!Max(NT!Wanted)' = NT!Max(NT!Wanted)
    BY <1>3
  <2> QED BY <1>3, <1>9, <2>1, <2>4, <2>5 DEF Undisturbed, FetchedSoFar, ItemsRight, ItemRead, PopupsRight, NT!PopupIsNewest
<1> QED BY <1>8, <1>9

LEMMA ClearKeeps ==
  ASSUME NoticesInv, NT!ClearOthers, ~disturbed
  PROVE  Undisturbed' /\ NT!PopupIsNewest'
<1>0. PICK k : k = sync.latest
  OBVIOUS
<1>1. /\ sync \in Syncing /\ sync.at = "clear" /\ k \in NT!NoticeIds /\ UNCHANGED <<site, disturbed>>
      /\ rows \in [NT!NoticeIds -> NoticeRows \cup {Absent}] /\ sync'.at = "ok"
  <2>1. sync \in Syncing /\ sync.at = "clear"
    BY SyncFields DEF NT!ClearOthers, NoticesInv
  <2> QED BY <1>0, <2>1 DEF NT!ClearOthers, NoticesInv, NoticesTyped, Syncing
<1>2. NT!Wanted # {} /\ k = NT!Max(NT!Wanted) /\ rows[k].popup = TRUE
  BY <1>0, <1>1 DEF NoticesInv, Undisturbed
<1>3. rows' = [n \in NT!NoticeIds |-> IF n \in NT!Known \ {k} THEN [rows[n] EXCEPT !.popup = FALSE] ELSE rows[n]]
  BY <1>0 DEF NT!ClearOthers
<1>4. /\ \A n \in NT!Known : rows[n] \in NoticeRows
      /\ NT!Wanted = {n \in NT!Published : site[n] = TRUE /\ n \in NT!Known /\ rows[n].dismissed = FALSE}
      /\ NT!Known \subseteq NT!NoticeIds /\ NT!Published \subseteq NT!NoticeIds
  BY NoticeRowFields DEF NoticesInv
<1>5. /\ \A n \in NT!Known \ {k} : rows'[n].popup = FALSE /\ rows'[n].dismissed = rows[n].dismissed /\ rows'[n] \in NoticeRows
      /\ \A n \in NT!NoticeIds \ NT!Known : rows'[n] = rows[n]
      /\ rows'[k] = rows[k]
  BY <1>1, <1>3, <1>4 DEF NoticeRows
<1>6. NT!Published' = NT!Published /\ NT!Known' = NT!Known
  <2>1. \A n \in NT!NoticeIds : rows'[n] # Absent <=> rows[n] # Absent
    BY <1>5, NoticesAssumption DEF NoticeRows, NT!Known
  <2> QED BY <1>1, <2>1 DEF NT!Published, NT!Known
<1>7. /\ \A n \in NT!Known' : /\ ~rows'[n].dismissed <=> rows'[n].dismissed = FALSE
                          /\ rows'[n].popup <=> rows'[n].popup = TRUE
      /\ \A n \in NT!Published : site'[n] <=> site[n] = TRUE
  <2>1. \A n \in NT!Known' : rows'[n] \in NoticeRows
    BY <1>4, <1>5, <1>6
  <2>2. \A n \in NT!Known' : rows'[n].popup \in BOOLEAN /\ rows'[n].dismissed \in BOOLEAN
    BY <2>1 DEF NoticeRows
  <2>3. \A n \in NT!Published : site'[n] = site[n] /\ site[n] \in BOOLEAN
    BY <1>1, NoticeRowFields DEF NoticesInv
  <2> QED BY <2>2, <2>3
<1>8. /\ NT!Wanted' = {n \in NT!Published' : site'[n] = TRUE /\ n \in NT!Known' /\ rows'[n].dismissed = FALSE}
      /\ NT!Popups(rows)' = {n \in NT!Known' : rows'[n].popup = TRUE /\ rows'[n].dismissed = FALSE}
  <2>1. NT!Wanted' = {n \in NT!Published' : site'[n] /\ n \in NT!Known' /\ ~rows'[n].dismissed}
    BY DEF NT!Wanted
  <2>2. NT!Popups(rows)' = {n \in NT!Known' : rows'[n].popup /\ ~rows'[n].dismissed}
    BY DEF NT!Popups, NT!Known
  <2> QED BY <1>1, <1>6, <1>7, <2>1, <2>2
<1>9. NT!Wanted' = NT!Wanted
  BY <1>1, <1>4, <1>5, <1>6, <1>8
<1>10. k \in NT!Wanted
  BY <1>2, <1>4, NewestNotice
<1>11. NT!Popups(rows)' = {k}
  BY <1>2, <1>4, <1>5, <1>6, <1>8, <1>10
<1>12. NT!Max({k}) = k
  <2>1. {k} \in SUBSET NT!NoticeIds /\ {k} # {}
    BY <1>1
  <2> QED BY <2>1, NewestNotice
<1>13. NT!Popup' = k
  BY <1>11, <1>12 DEF NT!Popup
<1>14. NT!Max(NT!Wanted') = k
  BY <1>2, <1>9
<1> QED BY <1>1, <1>2, <1>9, <1>13, <1>14 DEF NT!PopupIsNewest, Undisturbed, FetchedSoFar, ItemsRight, ItemRead, PopupsRight

LEMMA NoticesStep ==
  ASSUME NoticesInv, [NT!Next]_noticesvars
  PROVE  NoticesInv'
<1>1. NoticesTyped'
  BY NoticesTypedStep DEF NoticesInv
<1>2. SUFFICES ASSUME ~disturbed' PROVE Undisturbed' /\ NT!PopupIsNewest'
  BY <1>1 DEF NoticesInv, NT!PopupIsNewest
<1>3. CASE NT!SyncBegins
  <2>1. /\ sync'.at = "fetch" /\ sync'.page = 1 /\ sync'.items = <<>> /\ sync'.popups = {}
        /\ UNCHANGED site
    BY <1>3 DEF NT!SyncBegins
  <2>2. NT!Newest' \in Seq(NT!NoticeIds) /\ (1 - 1) * RemotePage = 0 /\ Len(NT!Newest') \in Nat
    <3>1. NT!Newest' = NT!Newest
      BY <2>1 DEF NT!Newest, NT!Published
    <3> QED BY <3>1, NewestIsAll, NoticesAssumption
  <2>3. FetchedSoFar'
    BY <2>1, <2>2 DEF FetchedSoFar
  <2> QED BY <2>1, <2>3 DEF Undisturbed, ItemsRight, ItemRead, PopupsRight, NT!PopupIsNewest
<1>4. CASE NT!SyncFails
  BY <1>4 DEF NT!SyncFails, Undisturbed, FetchedSoFar, ItemsRight, ItemRead, PopupsRight, NT!PopupIsNewest
<1>5. CASE UNCHANGED noticesvars
  <2>1. UNCHANGED <<site, rows, sync, disturbed>>
    BY <1>5 DEF noticesvars
  <2>2. UNCHANGED <<NT!Published, NT!Known, ToDo, NT!Item>>
    BY <2>1 DEF NT!Published, NT!Known, ToDo, NT!Item
  <2>3. UNCHANGED <<NT!Newest, NT!Wanted, NT!Popups(rows)>> /\ \A n : Done(n) => Done(n)'
    BY <2>1, <2>2 DEF NT!Newest, NT!Wanted, NT!Popups, Done
  <2>4. UNCHANGED NT!Popup
    BY <2>3 DEF NT!Popup
  <2>5. Undisturbed /\ NT!PopupIsNewest
    BY <1>2, <2>1 DEF NoticesInv
  <2>6. FetchedSoFar' /\ ItemsRight' /\ ItemRead' /\ PopupsRight'
    BY <2>1, <2>2, <2>3, <2>5 DEF Undisturbed, FetchedSoFar, ItemsRight, ItemRead, PopupsRight
  <2>7. NT!PopupIsNewest'
    BY <2>1, <2>2, <2>3, <2>4, <2>5 DEF NT!PopupIsNewest
  <2> QED BY <2>1, <2>2, <2>3, <2>5, <2>6, <2>7 DEF Undisturbed
<1>6. CASE NT!FetchPage \/ NT!ReadNotice \/ NT!WriteNotice \/ NT!FindLatest \/ NT!ClearOthers
  <2>1. ~disturbed
    BY <1>2, <1>6 DEF NT!FetchPage, NT!ReadNotice, NT!WriteNotice, NT!FindLatest, NT!ClearOthers
  <2> QED BY <1>6, <2>1, FetchKeeps, ReadKeeps, WriteKeeps, LatestKeeps, ClearKeeps
<1>7. ASSUME NEW n \in NT!NoticeIds, NEW b, NT!Withdraw(n) \/ NT!Dismiss(n) \/ NT!Publish(n, b)
      PROVE  FALSE
  BY <1>2, <1>7 DEF NT!Withdraw, NT!Dismiss, NT!Publish
<1> QED BY <1>3, <1>4, <1>5, <1>6, <1>7 DEF NT!Next

LEMMA DismissedStays ==
  ASSUME NoticesInv, [NT!Next]_noticesvars
  PROVE  [NT!KeptStep]_noticesvars
<1> SUFFICES ASSUME NT!Next, NEW n \in NT!Known, rows[n].dismissed PROVE rows'[n].dismissed
  BY DEF NT!KeptStep
<1>1. rows \in [NT!NoticeIds -> NoticeRows \cup {Absent}] /\ n \in NT!NoticeIds /\ rows[n] \in NoticeRows /\ rows[n] # Absent
  BY NoticeRowFields DEF NoticesInv, NoticesTyped, NT!Known
<1>2. CASE NT!WriteNotice
  BY <1>1, <1>2, FirstItem DEF NT!WriteNotice, NT!Row, NoticesInv
<1>3. CASE NT!ClearOthers
  BY <1>1, <1>3 DEF NT!ClearOthers, NoticeRows
<1>4. ASSUME NEW l \in NT!NoticeIds, NT!Dismiss(l)
      PROVE  rows'[n].dismissed
  BY <1>1, <1>4 DEF NT!Dismiss, NT!Row
<1>5. CASE UNCHANGED rows
  BY <1>5
<1> QED BY <1>2, <1>3, <1>4, <1>5 DEF NT!Next, NT!Withdraw, NT!Publish, NT!SyncBegins, NT!FetchPage, NT!ReadNotice, NT!FindLatest, NT!SyncFails

LEMMA NoticesHold ==
  ASSUME NoticesInv
  PROVE  NT!TypeOK /\ NT!PopupIsNewest
<1>1. \A n \in NT!NoticeIds : site[n] \in {TRUE, FALSE, Absent} /\ rows[n] \in NoticeRows \cup {Absent}
  BY DEF NoticesInv, NoticesTyped
<1>2. sync.at \in {"rest", "fetch", "read", "write", "latest", "clear", "ok", "failed"}
  BY DEF NoticesInv, NoticesTyped, Syncing
<1> QED BY <1>1, <1>2 DEF NoticesInv, NoticesTyped, NT!TypeOK, NoticeRows

\* Whatever is published, withdrawn and dismissed, before a synchronisation, between two of
\* its steps or after it, and however often one fails: a notice once dismissed stays dismissed,
\* and one that ended well and was not disturbed leaves the newest notice to pop up, of all
\* pages of the site, as the only one to do so.
THEOREM NoticesAreKept == Spec => NoticesKept
<1>1. Init => NoticesInv
  BY NoticesInit DEF Init
<1>2. NoticesInv /\ [Next]_vars => NoticesInv'
  BY Turns, NoticesStep
<1>3. NoticesInv => (turn = "notices" => NT!TypeOK /\ NT!PopupIsNewest)
  BY NoticesHold
<1>4. NoticesInv /\ [Next]_vars => [NT!KeptStep]_(NT!ntvars)
  BY Turns, DismissedStays DEF NT!ntvars, noticesvars
<1>. QED
  BY <1>1, <1>2, <1>3, <1>4, PTL DEF Spec, NoticesKept, NT!StaysDismissed
=============================================================================
