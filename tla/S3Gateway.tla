------------------------------- MODULE S3Gateway -------------------------------
(***************************************************************************)
(* s3_api.py: multipart uploads as Foxel's own S3 interface keeps them, in *)
(* a directory per upload with a file and a description per part, and the  *)
(* object operations beside them.  Requests run side by side and share     *)
(* those files; a restart forgets the requests and keeps the files.  A     *)
(* part's content is a few chunks, each known by the request it came with. *)
(***************************************************************************)
EXTENDS Naturals, Sequences, FiniteSets, Functions

CONSTANTS S3Clients, Uploads, Parts,
          Chunks,      \* chunks of a part
          MaxCalls, MaxRestarts,
          Absent

VARIABLES dirs,      \* uploads that have a directory,
          metas,     \* and a meta.json in it
          temp, part,\* the file that is written, and the file, of each part
          info,      \* its description: the request whose content it tells of
          blob,      \* the content of each file ever made
          final,     \* the object at the key
          call,      \* what each client is at
          calls, restarts,
          ended,     \* history: uploads completed or aborted,
          stray,     \* and those among them a part upload was under way for
          mixed      \* history: parts of which two uploads, or an upload and a restart, met

gwvars == <<dirs, metas, temp, part, info, blob, final, call, calls, restarts, ended, stray, mixed>>

Files == Uploads \X Parts
Idle == {"rest", "done", "failed"}
Empty == [i \in 1 .. Chunks |-> Absent]
ContentOf(k) == [i \in 1 .. Chunks |-> <<k, i>>]
Goes(c, r) == call' = [call EXCEPT ![c] = r]
At(c, at) == Goes(c, [call[c] EXCEPT !.at = at])
Is(c, at) == call[c].at = at
F(c) == <<call[c].u, call[c].n>>
Uploading(f) == {c \in S3Clients : call[c].do = "part" /\ call[c].at \in {"open", "chunk", "replace", "info"} /\ F(c) = f}
Disk == <<dirs, metas, temp, part, info, blob>>
History == <<ended, stray, mixed>>

Begin(c, do, u, ns) ==
    /\ call[c].at \in Idle /\ calls < MaxCalls
    /\ calls' = calls + 1
    /\ Goes(c, [do |-> do, at |-> IF do = "create" THEN "make" ELSE IF do = "put" THEN "put" ELSE "load", u |-> u,
                n |-> IF do = "part" THEN Head(ns) ELSE Absent, ns |-> ns, k |-> calls', sent |-> 0,
                file |-> Absent, got |-> <<>>, told |-> <<>>, sure |-> TRUE])
    /\ UNCHANGED <<Disk, final, restarts, History>>

Make(c) ==
    /\ Is(c, "make") /\ call[c].u \notin dirs \cup ended
    /\ dirs' = dirs \cup {call[c].u} /\ At(c, "meta")
    /\ UNCHANGED <<metas, temp, part, info, blob, final, calls, restarts, History>>

WriteMeta(c) ==
    /\ Is(c, "meta")
    /\ metas' = metas \cup {call[c].u} /\ At(c, "done")
    /\ UNCHANGED <<dirs, temp, part, info, blob, final, calls, restarts, History>>

\* Without its meta.json there is no upload.
LoadMeta(c) ==
    /\ Is(c, "load")
    /\ At(c, IF call[c].u \notin metas THEN "failed"
             ELSE CASE call[c].do = "part" -> "open" [] call[c].do = "abort" -> "remove" [] call[c].do = "complete" -> "infos")
    /\ mixed' = IF call[c].do = "part" /\ call[c].u \in metas /\ Uploading(F(c)) # {} THEN mixed \cup {F(c)} ELSE mixed
    /\ UNCHANGED <<Disk, final, calls, restarts, ended, stray>>

\* The file is made, or, where another upload of the part writes it, emptied.
OpenPart(c) ==
    /\ Is(c, "open")
    /\ IF call[c].u \notin dirs THEN At(c, "failed") /\ UNCHANGED <<temp, blob>>
       ELSE LET file == IF temp[F(c)] = Absent THEN call[c].k ELSE temp[F(c)] IN
            /\ temp' = [temp EXCEPT ![F(c)] = file]
            /\ blob' = [blob EXCEPT ![file] = Empty]
            /\ Goes(c, [call[c] EXCEPT !.at = "chunk", !.file = file])
    /\ UNCHANGED <<dirs, metas, part, info, final, calls, restarts, History>>

PartChunk(c) ==
    /\ Is(c, "chunk")
    /\ LET i == call[c].sent + 1 IN
       /\ blob' = [blob EXCEPT ![call[c].file][i] = <<call[c].k, i>>]
       /\ Goes(c, [call[c] EXCEPT !.sent = i, !.at = IF i = Chunks THEN "replace" ELSE "chunk"])
    /\ UNCHANGED <<dirs, metas, temp, part, info, final, calls, restarts, History>>

\* Mutant: a part that is there already stays.
ReplacePartOnce(c) ==
    /\ Is(c, "replace")
    /\ IF temp[F(c)] = Absent THEN At(c, "failed") /\ UNCHANGED <<temp, part>>
       ELSE /\ part' = IF part[F(c)] # Absent THEN part ELSE [part EXCEPT ![F(c)] = temp[F(c)]]
            /\ temp' = [temp EXCEPT ![F(c)] = Absent]
            /\ At(c, "info")
    /\ UNCHANGED <<dirs, metas, info, blob, final, calls, restarts, History>>

\* os.replace: of whatever is there under that name, if anything is.
ReplacePart(c) ==
    /\ Is(c, "replace")
    /\ IF temp[F(c)] = Absent THEN At(c, "failed") /\ UNCHANGED <<temp, part>>
       ELSE /\ part' = [part EXCEPT ![F(c)] = temp[F(c)]]
            /\ temp' = [temp EXCEPT ![F(c)] = Absent]
            /\ At(c, "info")
    /\ UNCHANGED <<dirs, metas, info, blob, final, calls, restarts, History>>

\* The description makes the directory anew if it is gone.
WriteInfo(c) ==
    /\ Is(c, "info")
    /\ info' = [info EXCEPT ![F(c)] = call[c].k]
    /\ dirs' = dirs \cup {call[c].u}
    /\ At(c, "done")
    /\ UNCHANGED <<metas, temp, part, blob, final, calls, restarts, History>>

Removed(u, r) == [f \in Files |-> IF f[1] = u THEN Absent ELSE r[f]]
RemoveDir(u) ==
    /\ dirs' = dirs \ {u} /\ metas' = metas \ {u}
    /\ temp' = Removed(u, temp) /\ part' = Removed(u, part) /\ info' = Removed(u, info)
    /\ ended' = ended \cup {u}
    /\ stray' = IF \E n \in Parts : Uploading(<<u, n>>) # {} THEN stray \cup {u} ELSE stray

Abort(c) ==
    /\ Is(c, "remove")
    /\ RemoveDir(call[c].u) /\ At(c, "done")
    /\ UNCHANGED <<blob, final, calls, restarts, mixed>>

\* Every part asked for must have its description.
LoadInfos(c) ==
    /\ Is(c, "infos")
    /\ LET told == [i \in DOMAIN call[c].ns |-> info[<<call[c].u, call[c].ns[i]>>]] IN
       Goes(c, [call[c] EXCEPT !.told = told,
                               !.sure = \A n \in Range(call[c].ns) : Uploading(<<call[c].u, n>>) = {},
                               !.at = IF Absent \in Range(told) THEN "failed" ELSE "merge"])
    /\ UNCHANGED <<Disk, final, calls, restarts, History>>

\* The parts go into the object one by one; if one is gone, what was sent may stay there.
Merge(c) ==
    /\ Is(c, "merge") /\ Len(call[c].got) < Len(call[c].ns)
    /\ LET f == <<call[c].u, call[c].ns[Len(call[c].got) + 1]>> IN
       IF part[f] = Absent
       THEN /\ At(c, "failed")
            /\ final' \in {final, call[c].got}
       ELSE /\ Goes(c, [call[c] EXCEPT !.got = Append(@, blob[part[f]]),
                                       !.sure = @ /\ Uploading(f) = {} /\ info[f] = call[c].told[Len(call[c].got) + 1]])
            /\ UNCHANGED final
    /\ UNCHANGED <<Disk, calls, restarts, History>>

Merged(c) ==
    /\ Is(c, "merge") /\ Len(call[c].got) = Len(call[c].ns)
    /\ final' = call[c].got /\ At(c, "clean")
    /\ UNCHANGED <<Disk, calls, restarts, History>>

Clean(c) ==
    /\ Is(c, "clean")
    /\ RemoveDir(call[c].u) /\ At(c, "done")
    /\ UNCHANGED <<blob, final, calls, restarts, mixed>>

\* put_object: the object is written, then looked at for its headers.
PutObject(c) ==
    /\ Is(c, "put")
    /\ final' = <<ContentOf(call[c].k)>> /\ At(c, "look")
    /\ UNCHANGED <<Disk, calls, restarts, History>>
PutLook(c) ==
    /\ Is(c, "look")
    /\ At(c, IF final = Absent THEN "failed" ELSE "done")
    /\ UNCHANGED <<Disk, final, calls, restarts, History>>

\* delete_object: a missing object is as good as a deleted one.
DeleteObject(c) ==
    /\ call[c].at \in Idle /\ calls < MaxCalls
    /\ calls' = calls + 1 /\ final' = Absent
    /\ UNCHANGED <<Disk, call, restarts, History>>

\* The server starts anew: what was under way is forgotten, and its files stay.
Restart ==
    /\ restarts < MaxRestarts
    /\ restarts' = restarts + 1
    /\ mixed' = mixed \cup {f \in Files : Uploading(f) # {}}
    /\ call' = [c \in S3Clients |-> IF call[c].at \in Idle THEN call[c] ELSE [call[c] EXCEPT !.at = "failed"]]
    /\ UNCHANGED <<Disk, final, calls, ended, stray>>

Init ==
    /\ dirs = {} /\ metas = {}
    /\ temp = [f \in Files |-> Absent] /\ part = temp /\ info = temp
    /\ blob = [k \in 1 .. MaxCalls |-> Empty]
    /\ final = Absent
    /\ call = [c \in S3Clients |-> [at |-> "rest", do |-> "none"]]
    /\ calls = 0 /\ restarts = 0 /\ ended = {} /\ stray = {} /\ mixed = {}

Lists == {<<n>> : n \in Parts} \cup {s \in [{1, 2} -> Parts] : s[1] < s[2]}
Next ==
    \/ \E c \in S3Clients :
        \/ \E u \in Uploads, n \in Parts : Begin(c, "part", u, <<n>>)
        \/ \E u \in Uploads, ns \in Lists : Begin(c, "complete", u, ns)
        \/ \E u \in Uploads : Begin(c, "create", u, <<>>) \/ Begin(c, "abort", u, <<>>)
        \/ Begin(c, "put", Absent, <<>>)
        \/ Make(c) \/ WriteMeta(c) \/ LoadMeta(c) \/ OpenPart(c) \/ PartChunk(c) \/ ReplacePart(c) \/ WriteInfo(c)
        \/ Abort(c) \/ LoadInfos(c) \/ Merge(c) \/ Merged(c) \/ Clean(c)
        \/ PutObject(c) \/ PutLook(c) \/ DeleteObject(c)
    \/ Restart

GwSpec == Init /\ [][Next]_gwvars

-----------------------------------------------------------------------------
TypeOK ==
    /\ dirs \subseteq Uploads /\ metas \subseteq dirs /\ ended \subseteq Uploads /\ mixed \subseteq Files
    /\ \A f \in Files : part[f] \in 1 .. calls \cup {Absent} /\ temp[f] \in 1 .. calls \cup {Absent}

\* A part that an upload under way has described is there, and is the content its
\* description, and the ETag its client was given, tell of: but where two uploads of it
\* met, or a restart one.
PartIsWhole == \A f \in Files \ mixed :
    f[1] \in metas /\ info[f] # Absent /\ Uploading(f) = {} => part[f] # Absent /\ blob[part[f]] = ContentOf(info[f])

\* A completed upload wrote its parts as they were described, in order, whatever became
\* of others meanwhile; unless one of them was being sent again.
CompletedIsParts == \A c \in S3Clients :
    call[c].at = "done" /\ call[c].do = "complete" /\ call[c].sure /\ mixed = {} =>
        call[c].got = [i \in DOMAIN call[c].ns |-> ContentOf(call[c].told[i])]

\* Of an upload that was completed or aborted nothing stays on the disk, not even after a
\* restart: but where a part of it was being sent, which makes the directory anew, without
\* its meta.json, and nothing ever removes or lists it.
EndedLeavesNothing == ended \cap dirs \subseteq stray
=================================================================================
