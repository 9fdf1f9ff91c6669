--------------------------------- MODULE Tokens ---------------------------------
(***************************************************************************)
(* How the providers come by the token their service wants: dropbox.py,    *)
(* alist.py, foxel.py, googledrive.py and onedrive.py (alike, "google"     *)
(* here) and pikpak.py.  Requests run side by side and share one token.    *)
(* Most try once more with another token after a refusal; dropbox.py's do  *)
(* not, nor alist.py's uploads, nor googledrive.py's writes and streamed   *)
(* bodies.  All but google look again under a lock before they log in.     *)
(* PikPak's refresh tokens serve once, and the next is saved with the      *)
(* adapter.                                                                *)
(***************************************************************************)
EXTENDS Naturals

CONSTANTS TokenKinds, Requesters, MaxRequests, MaxTrouble, NoToken

VARIABLES kind,    \* the provider, or NoToken before there is one
          token,   \* the token at hand
          aged,    \* its time is up, by the provider's clock
          held,    \* the login lock's holder
          refresh, \* refresh_token, of pikpak.py
          saved,   \* the same, in the adapter's row
          valid,   \* the service: the tokens it takes,
          serial,  \* the last refresh token it gave out
          kills,   \* and whether a refresh ends the tokens before it
          req,     \* what each request is at
          begun, trouble, \* bounds: requests, and what goes wrong
          owed,    \* history: tokens missed, expired or refused
          lostone, \* history: an answer with a new refresh token was lost,
          unsaved  \* and one that came could not be saved

tkvars == <<kind, token, aged, held, refresh, saved, valid, serial, kills, req, begun, trouble, owed, lostone, unsaved>>

Idle == {"rest", "done", "failed"}
Usable == token # NoToken /\ ~aged
Goes(c, r) == req' = [req EXCEPT ![c] = r]
At(c, at) == Goes(c, [req[c] EXCEPT !.at = at])
Free(c) == held' = IF held = c THEN NoToken ELSE held
\* Requests under way when tokens are ended, or when one that was ended comes to hand.
Disturb(at) == [d \in Requesters |-> IF at[d].at \in Idle THEN at[d] ELSE [at[d] EXCEPT !.calm = FALSE]]
Comes(c, at) ==
    LET then == [req EXCEPT ![c].at = at]
    IN req' = IF req[c].with \in valid THEN then ELSE Disturb(then)
Service == <<valid, serial, kills>>
Bounds == <<begun, trouble>>

TokenSetup(k, kill) ==
    /\ kind = NoToken
    /\ kind' = k /\ kills' = kill
    /\ UNCHANGED <<token, aged, held, refresh, saved, valid, serial, req, Bounds, owed, lostone, unsaved>>

Request(c) ==
    /\ kind # NoToken /\ req[c].at \in Idle /\ begun < MaxRequests
    /\ begun' = begun + 1
    /\ \E once \in BOOLEAN :
        /\ kind = "dropbox" => once
        /\ once => kind \in {"dropbox", "alist", "google"}
        /\ Goes(c, [at |-> "ensure", with |-> NoToken, once |-> once, again |-> ~once,
                    unasked |-> FALSE, calm |-> TRUE])
    /\ UNCHANGED <<kind, token, aged, held, refresh, saved, Service, trouble, owed, lostone, unsaved>>

\* A usable token is taken; without one google logs in, the others queue for the lock.
Ensure(c) ==
    /\ req[c].at = "ensure"
    /\ Goes(c, IF Usable THEN [req[c] EXCEPT !.at = "send", !.with = token]
               ELSE [req[c] EXCEPT !.at = IF kind = "google" THEN "login" ELSE "wait"])
    /\ UNCHANGED <<kind, token, aged, held, refresh, saved, Service, Bounds, owed, lostone, unsaved>>

\* Under the lock the token may be there by now; pikpak.py renews a refused one unasked.
Lock(c) ==
    /\ req[c].at \in {"wait", "renew"} /\ held = NoToken
    /\ IF Usable /\ req[c].at = "wait"
       THEN Goes(c, [req[c] EXCEPT !.at = "send", !.with = token]) /\ UNCHANGED held
       ELSE held' = c /\ Goes(c, [req[c] EXCEPT !.at = "login", !.unasked = req[c].at = "renew"])
    /\ UNCHANGED <<kind, token, aged, refresh, saved, Service, Bounds, owed, lostone, unsaved>>

\* The service gives a new token; a PikPak refresh token is good once.
Login(c) ==
    /\ req[c].at = "login"
    /\ IF kind = "pikpak" /\ refresh # serial THEN At(c, "denied") /\ UNCHANGED <<valid, serial>>
       ELSE /\ serial' = serial + 1
            /\ valid' = (IF kills THEN {} ELSE valid) \cup {serial'}
            /\ req' = [(IF kills THEN Disturb(req) ELSE req)
                        EXCEPT ![c] = [req[c] EXCEPT !.at = "given", !.with = serial']]
    /\ UNCHANGED <<kind, token, aged, held, refresh, saved, kills, Bounds, owed, lostone, unsaved>>

\* Mutant: the new refresh token is not kept.
GivenKeeps(c) ==
    /\ req[c].at = "given"
    /\ token' = req[c].with /\ aged' = FALSE
    /\ IF kind = "pikpak" THEN Comes(c, "save") /\ UNCHANGED held
       ELSE Comes(c, "send") /\ Free(c)
    /\ UNCHANGED <<kind, refresh, saved, Service, Bounds, owed, lostone, unsaved>>

\* It is the token at hand, and used at once; PikPak's is saved first.
Given(c) ==
    /\ req[c].at = "given"
    /\ token' = req[c].with /\ aged' = FALSE
    /\ IF kind = "pikpak" THEN refresh' = req[c].with /\ Comes(c, "save") /\ UNCHANGED held
       ELSE Comes(c, "send") /\ Free(c) /\ UNCHANGED refresh
    /\ UNCHANGED <<kind, saved, Service, Bounds, owed, lostone, unsaved>>

Save(c) ==
    /\ req[c].at = "save"
    /\ saved' = refresh /\ unsaved' = FALSE
    /\ Free(c) /\ At(c, "ensure")
    /\ UNCHANGED <<kind, token, aged, refresh, Service, Bounds, owed, lostone>>

\* The row is not written: the old refresh token is spent, the new one only at hand.
SaveFails(c) ==
    /\ req[c].at = "save" /\ trouble < MaxTrouble
    /\ trouble' = trouble + 1
    /\ unsaved' = TRUE
    /\ IF req[c].unasked THEN UNCHANGED <<token, owed>> ELSE token' = NoToken /\ owed' = owed + 1
    /\ Free(c) /\ Goes(c, [req[c] EXCEPT !.at = "failed", !.calm = FALSE])
    /\ UNCHANGED <<kind, aged, refresh, saved, Service, begun, lostone>>

\* A login refused, or its answer lost; PikPak's drops the token unless it was renewing one.
LoginFails(c) ==
    /\ req[c].at = "denied" \/ (req[c].at \in {"given", "login"} /\ trouble < MaxTrouble)
    /\ trouble' = IF req[c].at = "denied" THEN trouble ELSE trouble + 1
    /\ lostone' = (lostone \/ (kind = "pikpak" /\ req[c].at = "given"))
    /\ token' = IF kind = "pikpak" /\ ~req[c].unasked THEN NoToken ELSE token
    /\ Free(c) /\ Goes(c, [req[c] EXCEPT !.at = "failed", !.calm = FALSE])
    /\ owed' = owed + 1
    /\ UNCHANGED <<kind, aged, refresh, saved, Service, begun, unsaved>>

Send(c) ==
    /\ req[c].at = "send"
    /\ At(c, IF req[c].with \in valid THEN "accepted" ELSE "refused")
    /\ UNCHANGED <<kind, token, aged, held, refresh, saved, Service, Bounds, owed, lostone, unsaved>>

Accepted(c) ==
    /\ req[c].at = "accepted"
    /\ At(c, "done")
    /\ UNCHANGED <<kind, token, aged, held, refresh, saved, Service, Bounds, owed, lostone, unsaved>>

\* Once, the token at hand, refused or newer, is dropped, or renewed, and the request
\* sent again.
Refused(c) ==
    /\ req[c].at = "refused"
    /\ owed' = owed + 1
    /\ IF ~req[c].again THEN At(c, "failed") /\ UNCHANGED token
       ELSE /\ token' = IF kind = "pikpak" THEN token ELSE NoToken
            /\ Goes(c, [req[c] EXCEPT !.again = FALSE, !.at = IF kind = "pikpak" THEN "renew" ELSE "ensure"])
    /\ UNCHANGED <<kind, aged, held, refresh, saved, Service, Bounds, lostone, unsaved>>

\* The service forgets the tokens it gave.
Revoke ==
    /\ valid # {} /\ trouble < MaxTrouble
    /\ trouble' = trouble + 1
    /\ valid' = {}
    /\ req' = Disturb(req)
    /\ UNCHANGED <<kind, token, aged, held, refresh, saved, serial, kills, begun, owed, lostone, unsaved>>

\* A token's time runs out: by the provider's clock sooner than by the service's.
Expire ==
    /\ token # NoToken /\ ~aged /\ kind \in {"dropbox", "google", "pikpak"} /\ trouble < MaxTrouble
    /\ trouble' = trouble + 1
    /\ aged' = TRUE /\ owed' = owed + 1
    /\ UNCHANGED <<kind, token, held, refresh, saved, Service, req, begun, lostone, unsaved>>

Init ==
    /\ kind = NoToken /\ token = NoToken /\ aged = FALSE /\ held = NoToken
    /\ refresh = 0 /\ saved = 0
    /\ valid = {} /\ serial = 0 /\ kills = FALSE
    /\ req = [c \in Requesters |-> [at |-> "rest", calm |-> TRUE]]
    /\ begun = 0 /\ trouble = 0 /\ owed = 1 /\ lostone = FALSE /\ unsaved = FALSE

Next ==
    \/ \E k \in TokenKinds, kill \in BOOLEAN : TokenSetup(k, kill)
    \/ \E c \in Requesters :
        \/ Request(c) \/ Ensure(c) \/ Lock(c) \/ Login(c) \/ Given(c) \/ Save(c) \/ SaveFails(c)
        \/ LoginFails(c) \/ Send(c) \/ Accepted(c) \/ Refused(c)
    \/ Revoke \/ Expire

TokenSpec == Init /\ [][Next]_tkvars

-----------------------------------------------------------------------------
TypeOK ==
    /\ kind \in TokenKinds \cup {NoToken} /\ held \in Requesters \cup {NoToken}
    /\ valid \subseteq 1 .. serial /\ saved <= refresh /\ refresh <= serial
    /\ \A c \in Requesters : req[c].at \in Idle \cup {"ensure", "wait", "renew", "login", "given", "denied", "save",
                                                      "send", "accepted", "refused"}

\* A request fails for want of a token only if tokens were ended, by the service or by
\* another's refresh, or an ended one came to hand, while it ran, or a login failed: one
\* more try is enough otherwise, whatever the others do to the token, where there is one.
OnceMoreIsEnough == \A c \in Requesters : req[c].at = "failed" /\ req[c].calm => req[c].once

\* Nobody logs in for nothing: with the lock, as many logins as tokens missed, expired or
\* refused.  google, without it, logs in for every request that finds no token.
NoNeedlessLogin == kind # "google" => serial <= owed

\* The refresh token in the adapter's row, with no request under way, is the one PikPak
\* will take after a restart, unless its answer was lost or the row could not be written.
SavedIsCurrent ==
    kind = "pikpak" /\ ~lostone /\ ~unsaved /\ (\A c \in Requesters : req[c].at \in Idle) => saved = serial
=================================================================================
