------------------------------ MODULE ByteStreams ------------------------------
(***************************************************************************)
(* stream_file of every provider: how a Range header is read, what is      *)
(* answered, what is asked of the service for it, and the body that        *)
(* follows, in chunks of one byte.  webdav.py asks for segments and asks   *)
(* again for one that fails; the others send what one answer brings.       *)
(* telegram.py's lock is in Telegram, the tokens are in Tokens.            *)
(***************************************************************************)
EXTENDS Integers, Sequences

CONSTANTS Streamers,   \* the providers
          MaxSize, SegmentSize,
          MaxBreaks,   \* bound on connections that break
          Blank        \* a number that is not given, or not known

VARIABLES stream       \* the request: what it is of, asks, was answered, and its body

bsvars == <<stream>>

\* What services do: know ranges, tell the length of a file, say that they know ranges.
Services(d) == [honours : BOOLEAN, length : IF d \in {"ftp", "webdav"} THEN BOOLEAN ELSE {TRUE},
                declares : IF d = "webdav" THEN BOOLEAN ELSE {TRUE}]
Numbers == 0 .. MaxSize + 1
\* No header, one that is no range, and ranges: an end alone is a suffix.
Headers ==
    [unit : {"none"}, bad : {FALSE}, from : {Blank}, to : {Blank}]
    \cup [unit : {"bytes", "other"}, bad : {TRUE}, from : {Blank}, to : {Blank}]
    \cup [unit : {"bytes", "other"}, bad : {FALSE}, from : Numbers \cup {Blank}, to : Numbers \cup {Blank}]
Least(a, b) == IF a < b THEN a ELSE b
From(h) == IF h.from = Blank THEN 0 ELSE h.from
To(h, n) == IF h.to = Blank THEN n - 1 ELSE h.to
Slice(f, t, n) == [i \in 1 .. Least(t, n - 1) - f + 1 |-> f + i - 1]

\* An answer: its status, the part of the file it is of, its Content-Length, and what is
\* asked of the service.
Answer(s, f, t, l, h) == [status |-> s, from |-> f, to |-> t, length |-> l, asks |-> h]
NoHeader == [unit |-> "none", bad |-> FALSE, from |-> Blank, to |-> Blank]
Bytes(f, t) == [unit |-> "bytes", bad |-> FALSE, from |-> f, to |-> t]
Refuse(s) == Answer(s, 0, 0, Blank, NoHeader)
Part(f, t) == Answer(206, f, t, t - f + 1, Bytes(f, t))
Whole(n) == Answer(200, 0, n - 1, n, NoHeader)

\* A service's answer to h for n bytes, by the rules of HTTP, if it knows ranges at all.
Upstream(h, n, honours) ==
    IF ~honours \/ h.unit # "bytes" \/ h.bad \/ (h.from = Blank /\ h.to = Blank)
                \/ (h.from # Blank /\ h.to # Blank /\ h.to < h.from) THEN Whole(n)
    ELSE IF h.from = Blank THEN IF h.to = 0 \/ n = 0 THEN Refuse(416) ELSE Part(n - Least(h.to, n), n - 1)
    ELSE IF h.from >= n THEN Refuse(416)
    ELSE Part(h.from, Least(To(h, n), n - 1))

LocalStream(h, n) ==
    IF h.unit # "bytes" THEN Whole(n)
    ELSE IF h.bad THEN Refuse(400)
    ELSE IF From(h) >= n THEN Refuse(416)
    ELSE Part(From(h), Least(To(h, n), n - 1))

\* The same, but the body never starts: see Stuck.  Where SIZE fails ranges are not looked at.
FtpStream(h, n, sized) == IF sized THEN LocalStream(h, n) ELSE [Whole(n) EXCEPT !.length = Blank]
SftpStream(h, n) == LocalStream(h, n)

AlistStream(h, n) ==
    IF h.unit # "bytes" THEN Whole(n)
    ELSE IF h.bad THEN Refuse(400)
    ELSE IF n > 0 THEN LocalStream(h, n)
    ELSE Part(From(h), IF h.to = Blank THEN 0 ELSE h.to)

\* A range is always asked for, of an empty file one that the service disregards.
GdriveStream(h, n) ==
    LET a == LocalStream(h, n) IN IF a.status = 200 THEN [a EXCEPT !.asks = Bytes(0, n - 1)] ELSE a
OnedriveStream(h, n) == GdriveStream(h, n)

\* The unit is not looked at, and an end after the file's is refused.
S3Stream(h, n) ==
    IF h.unit = "none" THEN [Whole(n) EXCEPT !.asks = Bytes(0, n - 1)]
    ELSE IF h.bad THEN Refuse(400)
    ELSE IF From(h) >= n \/ To(h, n) >= n \/ From(h) > To(h, n) THEN Refuse(416)
    ELSE Part(From(h), To(h, n))

TelegramStream(h, n) == IF n = 0 THEN Whole(0) ELSE S3Stream(h, n)

PikpakStream(h, n) ==
    IF h.unit # "bytes" THEN [Whole(n) EXCEPT !.length = IF n > 0 THEN n ELSE Blank]
    ELSE IF h.bad THEN Refuse(500)
    ELSE IF n = 0 THEN Answer(206, From(h), h.to, Blank, IF h.to = Blank THEN NoHeader ELSE Bytes(From(h), h.to))
    ELSE IF From(h) >= n \/ From(h) > Least(To(h, n), n - 1) THEN Refuse(416)
    ELSE Part(From(h), Least(To(h, n), n - 1))

\* The range is worked out likewise; the answer is then the service's own.
QuarkStream(h, n, honours) ==
    LET a == PikpakStream(h, n) IN
    IF a.status >= 400 THEN a
    ELSE LET asks == IF a.status = 206 THEN Bytes(a.from, a.to) ELSE NoHeader
         IN [Upstream(asks, n, honours) EXCEPT !.asks = asks]

\* The header goes to the service, and its answer comes back.
DropboxStream(h, n, honours) == [Upstream(h, n, honours) EXCEPT !.asks = h]
FoxelStream(h, n, honours) == DropboxStream(h, n, honours)

\* The size is from HEAD, or from a first byte asked for when no end is given; neither
\* has to tell it.
WebdavStream(h, n, up) ==
    LET ranged == h.unit = "bytes"
        given == IF ranged THEN h.to ELSE Blank
        first == IF ranged THEN From(h) ELSE 0
        total == IF up.length \/ (given = Blank /\ up.honours /\ n > 0) THEN n ELSE Blank
        last == IF given = Blank /\ total # Blank THEN n - 1 ELSE given
    IN
    IF ranged /\ h.bad THEN Refuse(500)
    ELSE IF last # Blank /\ last < first THEN Refuse(416)
    ELSE Answer(IF ranged THEN 206 ELSE 200, first, last, Blank,
                IF h.unit = "none" /\ ~up.declares THEN NoHeader ELSE Bytes(first, last))

Answered(d, h, n, up) ==
    CASE d = "local" -> LocalStream(h, n) [] d = "ftp" -> FtpStream(h, n, up.length) [] d = "sftp" -> SftpStream(h, n)
      [] d = "alist" -> AlistStream(h, n) [] d = "googledrive" -> GdriveStream(h, n)
      [] d = "onedrive" -> OnedriveStream(h, n) [] d = "s3" -> S3Stream(h, n)
      [] d = "telegram" -> TelegramStream(h, n) [] d = "pikpak" -> PikpakStream(h, n)
      [] d = "quark" -> QuarkStream(h, n, up.honours) [] d = "dropbox" -> DropboxStream(h, n, up.honours)
      [] d = "foxel" -> FoxelStream(h, n, up.honours) [] d = "webdav" -> WebdavStream(h, n, up)

-----------------------------------------------------------------------------
s == stream
Segmented == s.drive = "webdav" /\ s.ans.asks.unit = "bytes"

Ask(d, n, h, up) ==
    /\ s.at = "idle"
    /\ LET a == Answered(d, h, n, up) IN
       stream' = [at |-> IF a.status >= 400 THEN "refused" ELSE IF d \in {"ftp", "sftp"} THEN "stuck" ELSE "open",
                  drive |-> d, size |-> n, ask |-> h, up |-> up, ans |-> a, body |-> <<>>, left |-> <<>>,
                  seg |-> a.from, tries |-> 0, broken |-> 0, resent |-> FALSE, given |-> FALSE]

\* What the disk or the service holds of what is asked for; an error of the service ends
\* the answer after its headers were sent, an error for a segment counts as a try.
SegmentEnd == LET e == s.seg + SegmentSize - 1 IN IF s.ans.to = Blank THEN e ELSE Least(e, s.ans.to)
Open ==
    /\ s.at = "open"
    /\ LET up == IF Segmented THEN Upstream(Bytes(s.seg, SegmentEnd), s.size, s.up.honours)
                 ELSE IF s.drive \in {"local", "telegram"} THEN s.ans
                 ELSE Upstream(s.ans.asks, s.size, s.up.honours)
       IN stream' = IF up.status < 400
                    THEN [s EXCEPT !.at = "body", !.left = Slice(up.from, up.to, s.size), !.tries = @ + 1]
                    ELSE IF ~Segmented THEN [s EXCEPT !.at = "cut"]
                    ELSE IF s.tries < 2 THEN [s EXCEPT !.tries = @ + 1]
                    ELSE [s EXCEPT !.at = "done", !.given = TRUE]

\* Bound on what an answer without end sends.
Chunk ==
    /\ s.at = "body" /\ s.left # <<>> /\ Len(s.body) < 3 * (MaxSize + 1)
    /\ stream' = [s EXCEPT !.body = Append(@, Head(s.left)), !.left = Tail(@)]

\* Mutant: a segment begins with the last byte of the one before.
BodyEndsEarly ==
    /\ s.at = "body" /\ s.left = <<>>
    /\ stream' = IF Segmented /\ (s.ans.to = Blank \/ SegmentEnd < s.ans.to) /\ s.seg <= 2 * MaxSize
                 THEN [s EXCEPT !.at = "open", !.seg = SegmentEnd, !.tries = 0]
                 ELSE [s EXCEPT !.at = "done"]

\* Bound on the segments of an answer without end.
BodyEnds ==
    /\ s.at = "body" /\ s.left = <<>>
    /\ stream' = IF Segmented /\ (s.ans.to = Blank \/ SegmentEnd < s.ans.to) /\ s.seg <= 2 * MaxSize
                 THEN [s EXCEPT !.at = "open", !.seg = SegmentEnd + 1, !.tries = 0]
                 ELSE [s EXCEPT !.at = "done"]

\* A segment is asked for three times, from its start; then the body ends as if it were
\* complete, or, before its first byte, with an error.
BodyBreaks ==
    /\ s.at = "body" /\ s.drive # "local" /\ s.broken < MaxBreaks
    /\ LET t == [s EXCEPT !.broken = @ + 1, !.left = <<>>] IN
       stream' = IF ~Segmented \/ (s.tries >= 3 /\ s.body = <<>>) THEN [t EXCEPT !.at = "cut"]
                 ELSE IF s.tries >= 3 THEN [t EXCEPT !.at = "done", !.given = TRUE]
                 ELSE [t EXCEPT !.at = "open", !.resent = @ \/ Len(s.left) < Len(Slice(s.seg, SegmentEnd, s.size))]

\* The reader of ftp.py and sftp.py is a coroutine nobody runs before the wait for its
\* first chunk is over: the client gives up, and only then is the file read, for nobody.
Stuck == s.at = "stuck" /\ stream' = [s EXCEPT !.at = "cut"]

Init == stream = [at |-> "idle"]

Next ==
    \/ s.at = "idle" /\ \E d \in Streamers, n \in 0 .. MaxSize, h \in Headers : \E up \in Services(d) :
        Ask(d, n, h, up)
    \/ Open \/ Chunk \/ BodyEnds \/ BodyBreaks \/ Stuck

BsSpec == Init /\ [][Next]_bsvars

-----------------------------------------------------------------------------
TypeOK == s.at \in {"idle", "refused", "stuck", "open", "body", "done", "cut"}

Legal(h) == h.unit = "bytes" /\ ~h.bad /\ h.from # Blank /\ (h.to = Blank \/ h.from <= h.to)

\* Where an answer is not what HTTP asks for: an end after the file's is refused by s3.py
\* and telegram.py and not cut by webdav.py, which may not know where it is; an empty
\* file has parts in alist.py and pikpak.py, and in webdav.py is refused; ftp.py has no
\* part of a file whose size it is not told; and what services do not know of ranges
\* quark.py, dropbox.py and foxel.py pass on.
Deviates ==
    \/ s.drive \in {"s3", "telegram"} /\ s.ask.to # Blank /\ s.ask.to >= s.size
    \/ s.drive \in {"alist", "pikpak", "telegram", "webdav"} /\ s.size = 0
    \/ s.drive = "webdav" /\ (IF s.ask.to = Blank THEN ~s.up.length ELSE s.ask.to >= s.size)
    \/ s.drive = "ftp" /\ s.ask.unit # "none" /\ ~s.up.length
    \/ s.drive \in {"quark", "dropbox", "foxel"} /\ ~s.up.honours

\* A request without a range is answered with the whole file, one for a range that begins
\* at a byte with that part of it, cut at the end of the file, or refused if it begins
\* after that: by every provider alike, but for the above.
AnswerIsRight ==
    s.at # "idle" /\ ~Deviates =>
        /\ s.ask.unit = "none" => s.ans.status = 200
        /\ Legal(s.ask) => LET ref == Upstream(s.ask, s.size, TRUE) IN
            /\ s.ans.status = ref.status
            /\ ref.status = 206 => s.ans.from = ref.from /\ s.ans.to = ref.to

\* Where a body is not what its headers say: ranges of services that know none, ends
\* before the beginning, alist.py's bytes of an empty file, and in webdav.py segments
\* sent once more, given up, or of a service that has no range for its repetitions to end
\* at.
Careless == \/ ~s.up.honours /\ s.ans.asks.unit = "bytes" /\ s.drive # "quark"
            \/ s.ask.to # Blank /\ s.ask.to < From(s.ask)
            \/ s.drive = "alist" /\ s.size = 0
            \/ s.resent \/ s.given

\* A body that ends as if complete is the part its status and range say, each byte once
\* and in order, and as long as its Content-Length, however often a connection breaks.
BodyIsExact ==
    s.at = "done" /\ ~Careless =>
        /\ s.body = Slice(s.ans.from, IF s.ans.to = Blank THEN s.size - 1 ELSE s.ans.to, s.size)
        /\ s.ans.length # Blank => Len(s.body) = s.ans.length
=================================================================================
