--------------------------------- MODULE Notices ---------------------------------
(***************************************************************************)
(* The project's notices, fetched once a day and shown until dismissed:    *)
(* notices/service.py.  One of them pops up.  A notice is its number; a    *)
(* later one is newer.                                                     *)
(***************************************************************************)
EXTENDS Naturals, Sequences, FiniteSets, FiniteSetsExt

CONSTANTS MaxNotices, \* the notices the site may publish
          RemotePage, \* items of a page of the site's answer
          MaxSyncs,   \* bound on synchronisations
          Absent

VARIABLES site,     \* the site: which notices there are, and whether they pop up
          rows,     \* the Notice table
          sync,     \* sync_remote_notices
          syncs,
          disturbed \* history: something changed since the last synchronisation began

ntvars == <<site, rows, sync, syncs, disturbed>>

NoticeIds == 1 .. MaxNotices
Published == {n \in NoticeIds : site[n] # Absent}
Row(popup, dismissed) == [popup |-> popup, dismissed |-> dismissed]
Known == {n \in NoticeIds : rows[n] # Absent}
Popups(t) == {n \in {m \in NoticeIds : t[m] # Absent} : t[n].popup /\ ~t[n].dismissed}
Running == sync.at \notin {"rest", "ok", "failed"}

-----------------------------------------------------------------------------
(* The site. *)
Publish(n, popup) ==
    /\ n \in NoticeIds /\ site[n] = Absent /\ \A m \in Published : m < n
    /\ site' = [site EXCEPT ![n] = popup]
    /\ disturbed' = TRUE
    /\ UNCHANGED <<rows, sync, syncs>>

Withdraw(n) ==
    /\ n \in Published
    /\ site' = [site EXCEPT ![n] = Absent]
    /\ disturbed' = TRUE
    /\ UNCHANGED <<rows, sync, syncs>>

-----------------------------------------------------------------------------
SyncBegins ==
    /\ sync.at \in {"rest", "ok", "failed"} /\ syncs < MaxSyncs
    /\ syncs' = syncs + 1
    /\ sync' = [at |-> "fetch", page |-> 1, items |-> <<>>, popups |-> {},
               dismissed |-> FALSE, latest |-> Absent]
    /\ disturbed' = FALSE
    /\ UNCHANGED <<site, rows>>

\* The site's order, the newest first: there are i of them from the i-th up.
Newest ==
    [i \in 1 .. Cardinality(Published) |-> CHOOSE n \in Published : Cardinality({m \in Published : m >= n}) = i]
PageOf(k) == SubSeq(Newest, (k - 1) * RemotePage + 1, Min({k * RemotePage, Len(Newest)}))

\* _fetch_remote_notices: page after page, until there are as many as the total says.
\* Without an item nothing is done.
FetchPage ==
    /\ sync.at = "fetch"
    /\ LET new == PageOf(sync.page)
           all == sync.items \o [i \in DOMAIN new |-> [n |-> new[i], popup |-> site[new[i]]]]
           over == new = <<>> \/ Len(all) >= Len(Newest)
       IN sync' = [sync EXCEPT !.items = all, !.page = @ + 1,
                               !.at = IF ~over THEN "fetch" ELSE IF all = <<>> THEN "ok" ELSE "read"]
    /\ UNCHANGED <<site, rows, syncs, disturbed>>

Item == Head(sync.items)

\* Whether a notice was dismissed is read ...
ReadNotice ==
    /\ sync.at = "read"
    /\ sync' = [sync EXCEPT !.at = "write", !.popups = IF Item.popup THEN @ \cup {Item.n} ELSE @,
                            !.dismissed = rows[Item.n] # Absent /\ rows[Item.n].dismissed]
    /\ UNCHANGED <<site, rows, syncs, disturbed>>

AfterItem == [sync EXCEPT !.items = Tail(@), !.at = IF Len(sync.items) = 1 THEN "latest" ELSE "read"]

\* Mutant: the row is written whole, with what was read.
WriteWhole ==
    /\ sync.at = "write"
    /\ rows' = [rows EXCEPT ![Item.n] = Row(Item.popup /\ ~sync.dismissed, sync.dismissed)]
    /\ sync' = AfterItem
    /\ UNCHANGED <<site, syncs, disturbed>>

\* ... before the row is made or changed; dismissing it meanwhile is not undone.
WriteNotice ==
    /\ sync.at = "write"
    /\ rows' = [rows EXCEPT ![Item.n] =
            Row(Item.popup /\ ~sync.dismissed, rows[Item.n] # Absent /\ rows[Item.n].dismissed)]
    /\ sync' = AfterItem
    /\ UNCHANGED <<site, syncs, disturbed>>

\* _keep_only_latest_popup: the newest of those fetched that is not dismissed ...
FindLatest ==
    /\ sync.at = "latest"
    /\ LET left == {n \in sync.popups \cap Known : ~rows[n].dismissed} IN
       sync' = IF left = {} THEN [sync EXCEPT !.at = "ok"] ELSE [sync EXCEPT !.at = "clear", !.latest = Max(left)]
    /\ UNCHANGED <<site, rows, syncs, disturbed>>

\* ... is the only one left to pop up.
ClearOthers ==
    /\ sync.at = "clear"
    /\ rows' = [n \in NoticeIds |-> IF n \in Known \ {sync.latest} THEN [rows[n] EXCEPT !.popup = FALSE] ELSE rows[n]]
    /\ sync' = [sync EXCEPT !.at = "ok"]
    /\ UNCHANGED <<site, syncs, disturbed>>

\* An error ends a synchronisation where it is; the next comes a day later.
SyncFails ==
    /\ Running
    /\ sync' = [at |-> "failed"]
    /\ UNCHANGED <<site, rows, syncs, disturbed>>

-----------------------------------------------------------------------------
\* dismiss_popup, of any notice.
Dismiss(n) ==
    /\ n \in Known /\ ~rows[n].dismissed
    /\ rows' = [rows EXCEPT ![n] = Row(FALSE, TRUE)]
    /\ disturbed' = TRUE
    /\ UNCHANGED <<site, sync, syncs>>

\* get_popup_notice
Popup == IF Popups(rows) = {} THEN Absent ELSE Max(Popups(rows))

Init ==
    /\ site = [n \in NoticeIds |-> Absent] /\ rows = [n \in NoticeIds |-> Absent]
    /\ sync = [at |-> "rest"] /\ syncs = 0 /\ disturbed = FALSE

Next ==
    \/ \E n \in NoticeIds : Withdraw(n) \/ Dismiss(n) \/ \E b \in BOOLEAN : Publish(n, b)
    \/ SyncBegins \/ FetchPage \/ ReadNotice \/ WriteNotice \/ FindLatest \/ ClearOthers \/ SyncFails

NtSpec == Init /\ [][Next]_ntvars

-----------------------------------------------------------------------------
TypeOK ==
    /\ \A n \in NoticeIds : site[n] \in {TRUE, FALSE, Absent} /\ rows[n] \in [popup : BOOLEAN, dismissed : BOOLEAN] \cup {Absent}
    /\ sync.at \in {"rest", "fetch", "read", "write", "latest", "clear", "ok", "failed"}
    /\ syncs \in 0 .. MaxSyncs /\ disturbed \in BOOLEAN

\* A notice once dismissed stays dismissed: no synchronisation, that may have read it
\* before, brings it back.
KeptStep == \A n \in Known : rows[n].dismissed => rows'[n].dismissed
StaysDismissed == [][KeptStep]_ntvars

Wanted == {n \in Published : site[n] /\ n \in Known /\ ~rows[n].dismissed}

\* After a synchronisation that ended well the notice that pops up is the newest published
\* to pop up and not dismissed, if nothing was published, withdrawn or dismissed since the
\* synchronisation began.  Where there is none, one the site has withdrawn may still pop up:
\* the code then leaves the rows as they are.
PopupIsNewest ==
    sync.at = "ok" /\ ~disturbed =>
        Popup = IF Wanted # {} THEN Max(Wanted)
                ELSE IF Popups(rows) \ Published # {} THEN Popup ELSE Absent
=================================================================================
