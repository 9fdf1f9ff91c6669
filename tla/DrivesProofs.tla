---------------------------- MODULE DrivesProofs ----------------------------
(***************************************************************************)
(* Theorems about the storage providers side by side, for every number of  *)
(* requests, files, bytes and failures.                                    *)
(***************************************************************************)
EXTENDS MCDrives, FiniteSetTheorems, SequenceTheorems, TLAPS

\* While a provider has its turn its steps are its own, and otherwise it rests.
LEMMA Turns ==
  ASSUME [Next]_vars
  PROVE  /\ [PD!Next]_pathvars /\ [ID!Next]_idvars /\ [SB!Next]_s3vars
         /\ [TG!Next]_telegramvars /\ [TK!Next]_tokensvars /\ [BS!Next]_bytesvars
         /\ [QU!Next]_quarkvars
BY DEF Next, vars
-----------------------------------------------------------------------------
(* Tokens: the logins of dropbox.py, alist.py, foxel.py, googledrive.py,    *)
(* onedrive.py and pikpak.py.                                               *)

InLogin == {"login", "denied", "given", "save"}
Underway == {"ensure", "wait", "renew", "send", "accepted", "refused"} \cup InLogin
TokenReqs == [at : {"rest"}, calm : BOOLEAN]
             \cup [at : Underway \cup {"done", "failed"}, with : Nat \cup {NoToken},
                   once : BOOLEAN, again : BOOLEAN, unasked : BOOLEAN, calm : BOOLEAN]

TokensTyped ==
    /\ kind \in TokenKinds \cup {NoToken}
    /\ token \in Nat \cup {NoToken} /\ aged \in BOOLEAN /\ held \in Requesters \cup {NoToken}
    /\ refresh \in Nat /\ saved \in Nat /\ serial \in Nat /\ owed \in Nat
    /\ valid \subseteq 1 .. serial /\ saved <= refresh /\ refresh <= serial
    /\ kills \in BOOLEAN /\ lostone \in BOOLEAN /\ unsaved \in BOOLEAN
    /\ req \in [Requesters -> TokenReqs]
    /\ \A c \in Requesters : req[c].at = "given" => req[c].with \in 1 .. serial
    /\ kind = NoToken => /\ token = NoToken /\ refresh = 0 /\ saved = 0 /\ serial = 0 /\ owed = 1
                         /\ \A c \in Requesters : req[c].at = "rest"

\* With the lock one request logs in at a time; only pikpak.py's save what they were given,
\* are denied, and renew unasked.
LoginsAlone ==
    /\ kind # "google" => \A c \in Requesters : req[c].at \in InLogin => held = c
    /\ kind # "pikpak" => \A c \in Requesters : req[c].at \notin {"denied", "save", "renew"}

\* Each login there was had a reason, and so have those that will come without another look.
Renewing == {c \in Requesters : req[c].at = "renew"}
Due == \/ \E c \in Requesters : req[c].at \in {"login", "denied"}
       \/ ~TK!Usable /\ \A c \in Requesters : req[c].at # "given"
Budget == kind # "google" => serial + Cardinality(Renewing) + (IF Due THEN 1 ELSE 0) <= owed

\* PikPak's refresh token is on its way to the row.
RefreshKept ==
    kind = "pikpak" =>
        /\ \A c \in Requesters : req[c].at = "given" => req[c].with = serial
        /\ ~lostone /\ (\A c \in Requesters : req[c].at # "given") => refresh = serial
        /\ ~lostone /\ ~unsaved /\ (\A c \in Requesters : req[c].at \notin {"given", "save"})
             => saved = refresh

\* A request on its second try, with no token ended meanwhile, holds or finds one that is
\* taken.
SecondTries ==
    \A c \in Requesters : req[c].calm =>
        /\ req[c].at \in Underway /\ ~req[c].again /\ ~req[c].once =>
            /\ req[c].at \in {"send", "given"} => req[c].with \in valid
            /\ req[c].at \in {"ensure", "wait", "save"} => token = NoToken \/ token \in valid
            /\ req[c].at # "refused"
        /\ req[c].at = "failed" => req[c].once

TokensInv == TokensTyped /\ LoginsAlone /\ Budget /\ RefreshKept /\ SecondTries

\* How many renew is a number, one more or less when one begins or stops to.
LEMMA RenewingCounted ==
  ASSUME TokensAssumption, TokensTyped, TokensTyped'
  PROVE  /\ Cardinality(Renewing) \in Nat /\ Cardinality(Renewing)' \in Nat
         /\ (\A d \in Requesters : req'[d].at = "renew" <=> req[d].at = "renew")
              => Cardinality(Renewing)' = Cardinality(Renewing)
         /\ \A c \in Requesters :
              /\ (\A d \in Requesters \ {c} : req'[d].at = "renew" <=> req[d].at = "renew")
              /\ req[c].at # "renew" /\ req'[c].at = "renew"
              => Cardinality(Renewing)' = Cardinality(Renewing) + 1
         /\ \A c \in Requesters :
              /\ (\A d \in Requesters \ {c} : req'[d].at = "renew" <=> req[d].at = "renew")
              /\ req[c].at = "renew" /\ req'[c].at # "renew"
              => Cardinality(Renewing)' = Cardinality(Renewing) - 1
<1>1. IsFiniteSet(Renewing) /\ IsFiniteSet(Renewing')
  <2>1. Renewing \subseteq Requesters /\ Renewing' \subseteq Requesters
    BY DEF Renewing
  <2> QED BY <2>1, FS_Subset DEF TokensAssumption
<1>2. Cardinality(Renewing) \in Nat /\ Cardinality(Renewing)' \in Nat
  BY <1>1, FS_CardinalityType
<1>3. ASSUME \A d \in Requesters : req'[d].at = "renew" <=> req[d].at = "renew"
      PROVE  Cardinality(Renewing)' = Cardinality(Renewing)
  <2>1. Renewing' = Renewing BY <1>3 DEF Renewing
  <2> QED BY <2>1
<1>4. ASSUME NEW c \in Requesters,
             \A d \in Requesters \ {c} : req'[d].at = "renew" <=> req[d].at = "renew",
             req[c].at # "renew", req'[c].at = "renew"
      PROVE  Cardinality(Renewing)' = Cardinality(Renewing) + 1
  <2>1. Renewing' = Renewing \cup {c} /\ c \notin Renewing BY <1>4 DEF Renewing
  <2>2. Cardinality(Renewing \cup {c}) = Cardinality(Renewing) + 1
    BY <2>1, <1>1, FS_AddElement
  <2> QED BY <2>1, <2>2
<1>5. ASSUME NEW c \in Requesters,
             \A d \in Requesters \ {c} : req'[d].at = "renew" <=> req[d].at = "renew",
             req[c].at = "renew", req'[c].at # "renew"
      PROVE  Cardinality(Renewing)' = Cardinality(Renewing) - 1
  <2>1. Renewing' = Renewing \ {c} /\ c \in Renewing BY <1>5 DEF Renewing
  <2>2. Cardinality(Renewing \ {c}) = Cardinality(Renewing) - 1
    BY <2>1, <1>1, FS_RemoveElement
  <2> QED BY <2>1, <2>2
<1> QED BY <1>2, <1>3, <1>4, <1>5

\* Ending tokens leaves the requests where they are, and those under way not calm.
LEMMA DisturbCalms ==
  ASSUME NEW rs \in [Requesters -> TokenReqs]
  PROVE  /\ TK!Disturb(rs) \in [Requesters -> TokenReqs]
         /\ \A d \in Requesters :
              /\ TK!Disturb(rs)[d].at = rs[d].at /\ (TK!Disturb(rs)[d].calm => rs[d].calm)
              /\ rs[d].at \in Underway =>
                   /\ ~TK!Disturb(rs)[d].calm
                   /\ TK!Disturb(rs)[d].with = rs[d].with /\ TK!Disturb(rs)[d].again = rs[d].again
                   /\ TK!Disturb(rs)[d].once = rs[d].once
              /\ rs[d].at = "failed" => TK!Disturb(rs)[d].once = rs[d].once
<1>1. ASSUME NEW d \in Requesters, rs[d].at \in TK!Idle
      PROVE  TK!Disturb(rs)[d] = rs[d]
  BY <1>1 DEF TK!Disturb
<1>2. ASSUME NEW d \in Requesters, rs[d].at \notin TK!Idle
      PROVE  TK!Disturb(rs)[d] = [rs[d] EXCEPT !.calm = FALSE]
  BY <1>2 DEF TK!Disturb
<1>3. ASSUME NEW d \in Requesters, rs[d].at \notin TK!Idle
      PROVE  /\ [rs[d] EXCEPT !.calm = FALSE] \in TokenReqs
             /\ [rs[d] EXCEPT !.calm = FALSE].at = rs[d].at
             /\ [rs[d] EXCEPT !.calm = FALSE].with = rs[d].with
             /\ [rs[d] EXCEPT !.calm = FALSE].again = rs[d].again
             /\ [rs[d] EXCEPT !.calm = FALSE].once = rs[d].once
             /\ ~[rs[d] EXCEPT !.calm = FALSE].calm
  BY <1>3 DEF TokenReqs, TK!Idle
<1>4. TK!Disturb(rs) \in [Requesters -> TokenReqs]
  BY <1>1, <1>2, <1>3 DEF TK!Disturb
<1> QED BY <1>1, <1>2, <1>3, <1>4 DEF TK!Idle, Underway, InLogin

LEMMA TokensBegin ==
  ASSUME TokensAssumption, TK!Init
  PROVE  TokensInv
<1>1. \A c \in Requesters : req[c] = [at |-> "rest", calm |-> TRUE]
  BY DEF TK!Init
<1>2. TokensTyped
  <2>1. req \in [Requesters -> TokenReqs]
    BY <1>1 DEF TK!Init, TokenReqs
  <2>2. valid \subseteq 1 .. serial /\ \A c \in Requesters : req[c].at = "rest"
    BY <1>1 DEF TK!Init
  <2>3. aged \in BOOLEAN /\ kills \in BOOLEAN /\ lostone \in BOOLEAN /\ unsaved \in BOOLEAN
    BY Zenon DEF TK!Init
  <2>4. /\ refresh = 0 /\ saved = 0 /\ serial = 0 /\ owed = 1
        /\ kind = NoToken /\ token = NoToken /\ held = NoToken
    BY DEF TK!Init
  <2> QED BY <2>1, <2>2, <2>3, <2>4 DEF TokensTyped
<1>3. Renewing = {}
  BY <1>1 DEF Renewing
<1>4. Budget
  BY <1>3, FS_EmptySet DEF TK!Init, Budget
<1>5. LoginsAlone /\ RefreshKept /\ SecondTries
  BY <1>1 DEF TK!Init, LoginsAlone, RefreshKept, SecondTries, InLogin, Underway
<1> QED BY <1>2, <1>4, <1>5 DEF TokensInv

LEMMA SetupKeeps ==
  ASSUME TokensAssumption, TokensInv, NEW k \in TokenKinds, NEW kill \in BOOLEAN, TK!TokenSetup(k, kill)
  PROVE  TokensInv'
<1>1. UNCHANGED <<token, aged, held, refresh, saved, valid, serial, req, owed, lostone, unsaved>>
      /\ kind' \in TokenKinds /\ kills' \in BOOLEAN /\ kind' # NoToken
  BY DEF TK!TokenSetup, TK!Bounds, TokensAssumption
<1>2. \A c \in Requesters : req[c].at = "rest"
  BY DEF TokensInv, TokensTyped, TK!TokenSetup
<1>3. TokensTyped'
  BY <1>1 DEF TokensInv, TokensTyped
<1>4. Renewing' = {}
  BY <1>1, <1>2 DEF Renewing
<1>5. Budget'
  BY <1>1, <1>4, FS_EmptySet DEF TokensInv, TokensTyped, Budget, TK!TokenSetup
<1>6. LoginsAlone' /\ RefreshKept' /\ SecondTries'
  BY <1>1, <1>2 DEF LoginsAlone, RefreshKept, SecondTries, InLogin, Underway, TokensInv, TokensTyped, TK!TokenSetup
<1> QED BY <1>3, <1>5, <1>6 DEF TokensInv

LEMMA RequestKeeps ==
  ASSUME TokensAssumption, TokensInv, NEW c \in Requesters, TK!Request(c)
  PROVE  TokensInv'
<1>1. /\ UNCHANGED <<kind, token, aged, held, refresh, saved, valid, serial, kills, owed, lostone, unsaved>>
      /\ req[c].at \in {"rest", "done", "failed"} /\ kind # NoToken
      /\ req \in [Requesters -> TokenReqs]
  BY DEF TK!Request, TK!Idle, TK!Service, TokensInv, TokensTyped
<1>2. PICK once \in BOOLEAN :
        req' = [req EXCEPT ![c] = [at |-> "ensure", with |-> NoToken, once |-> once, again |-> ~once,
                                   unasked |-> FALSE, calm |-> TRUE]]
  BY DEF TK!Request, TK!Goes
<1>3. /\ req' \in [Requesters -> TokenReqs]
      /\ \A d \in Requesters \ {c} : req'[d] = req[d]
      /\ req'[c].at = "ensure" /\ (~req'[c].again => req'[c].once)
  <2> DEFINE asked == [at |-> "ensure", with |-> NoToken, once |-> once, again |-> ~once,
                       unasked |-> FALSE, calm |-> TRUE]
  <2>1. (~once) \in BOOLEAN /\ FALSE \in BOOLEAN /\ TRUE \in BOOLEAN
    BY <1>2, Zenon
  <2>2. "ensure" \in Underway
    BY DEF Underway
  <2>3. asked \in TokenReqs
    BY <2>1, <2>2, Zenon DEF TokenReqs
  <2>4. asked.at = "ensure" /\ (~asked.again => asked.once)
    OBVIOUS
  <2>5. req' = [req EXCEPT ![c] = asked]
    BY <1>2
  <2> HIDE DEF asked
  <2> QED BY <1>1, <2>3, <2>4, <2>5
<1>4. TokensTyped'
  BY <1>1, <1>3 DEF TokensInv, TokensTyped
<1>5. Cardinality(Renewing)' = Cardinality(Renewing)
  BY <1>1, <1>3, <1>4, RenewingCounted DEF TokensInv
<1>6. Due' = Due
  BY <1>1, <1>3 DEF Due, TK!Usable
<1>7. Budget'
  BY <1>1, <1>5, <1>6 DEF TokensInv, Budget
<1>8. LoginsAlone'
  BY <1>1, <1>3 DEF LoginsAlone, InLogin, TokensInv
<1>9. RefreshKept'
  BY <1>1, <1>3 DEF RefreshKept, TokensInv
<1>10. SecondTries'
  BY <1>1, <1>3 DEF SecondTries, TokensInv, Underway, InLogin
<1> QED BY <1>4, <1>7, <1>8, <1>9, <1>10 DEF TokensInv

LEMMA EnsureKeeps ==
  ASSUME TokensAssumption, TokensInv, NEW c \in Requesters, TK!Ensure(c)
  PROVE  TokensInv'
<1>1. /\ UNCHANGED <<kind, token, aged, held, refresh, saved, valid, serial, kills, owed, lostone, unsaved>>
      /\ \A d \in Requesters \ {c} : req'[d] = req[d]
      /\ req[c].at = "ensure" /\ req[c] \in TokenReqs /\ kind # NoToken
      /\ token \in Nat \cup {NoToken}
  BY DEF TK!Ensure, TK!Goes, TK!Service, TK!Bounds, TokensInv, TokensTyped
<1>2. /\ req'[c] \in TokenReqs
      /\ req'[c].again = req[c].again /\ req'[c].once = req[c].once /\ req'[c].calm = req[c].calm
      /\ \/ TK!Usable /\ req'[c].at = "send" /\ req'[c].with = token
         \/ ~TK!Usable /\ kind = "google" /\ req'[c].at = "login"
         \/ ~TK!Usable /\ kind # "google" /\ req'[c].at = "wait"
  BY <1>1 DEF TK!Ensure, TK!Goes, TokensInv, TokensTyped, TokenReqs, Underway, InLogin
<1>3. req' \in [Requesters -> TokenReqs]
  BY <1>1, <1>2 DEF TK!Ensure, TK!Goes, TokensInv, TokensTyped
<1>4. TokensTyped'
  BY <1>1, <1>2, <1>3 DEF TokensInv, TokensTyped
<1>5. Cardinality(Renewing)' = Cardinality(Renewing)
  BY <1>1, <1>2, <1>4, RenewingCounted DEF TokensInv
<1>6. kind # "google" => Due' = Due
  BY <1>1, <1>2 DEF Due, TK!Usable
<1>7. Budget'
  BY <1>1, <1>5, <1>6 DEF TokensInv, Budget
<1>8. LoginsAlone'
  BY <1>1, <1>2 DEF LoginsAlone, InLogin, TokensInv
<1>9. RefreshKept'
  BY <1>1, <1>2 DEF RefreshKept, TokensInv
<1>10. SecondTries'
  BY <1>1, <1>2 DEF SecondTries, TokensInv, Underway, InLogin, TK!Usable
<1> QED BY <1>4, <1>7, <1>8, <1>9, <1>10 DEF TokensInv

LEMMA LockKeeps ==
  ASSUME TokensAssumption, TokensInv, NEW c \in Requesters, TK!Lock(c)
  PROVE  TokensInv'
<1>1. /\ UNCHANGED <<kind, token, aged, refresh, saved, valid, serial, kills, owed, lostone, unsaved>>
      /\ \A d \in Requesters \ {c} : req'[d] = req[d]
      /\ req[c].at \in {"wait", "renew"} /\ req[c] \in TokenReqs /\ kind # NoToken
      /\ token \in Nat \cup {NoToken} /\ held = NoToken
  BY DEF TK!Lock, TK!Goes, TK!At, TK!Service, TK!Bounds, TokensInv, TokensTyped
<1>2. /\ req'[c] \in TokenReqs
      /\ req'[c].again = req[c].again /\ req'[c].once = req[c].once /\ req'[c].calm = req[c].calm
      /\ \/ /\ TK!Usable /\ req[c].at = "wait" /\ held' = held
            /\ req'[c].at = "send" /\ req'[c].with = token
         \/ /\ req[c].at = "renew" \/ ~TK!Usable
            /\ held' = c /\ req'[c].at = "login"
  <2>1. CASE TK!Usable /\ req[c].at = "wait"
    <3>1. req'[c] = [req[c] EXCEPT !.at = "send", !.with = token] /\ held' = held
      BY <2>1, <1>1 DEF TK!Lock, TK!Goes, TokensInv, TokensTyped
    <3> QED BY <2>1, <3>1, <1>1 DEF TokenReqs, Underway, InLogin
  <2>2. CASE ~(TK!Usable /\ req[c].at = "wait")
    <3>1. /\ req'[c] = [req[c] EXCEPT !.at = "login", !.unasked = req[c].at = "renew"]
          /\ held' = c
      BY <2>2, <1>1 DEF TK!Lock, TK!Goes, TokensInv, TokensTyped
    <3>2. (req[c].at = "renew") \in BOOLEAN /\ "login" \in Underway
      BY DEF Underway, InLogin
    <3>3. req[c] \in [at : Underway \cup {"done", "failed"}, with : Nat \cup {NoToken},
                      once : BOOLEAN, again : BOOLEAN, unasked : BOOLEAN, calm : BOOLEAN]
      BY <1>1 DEF TokenReqs
    <3>4. req'[c] \in [at : Underway \cup {"done", "failed"}, with : Nat \cup {NoToken},
                       once : BOOLEAN, again : BOOLEAN, unasked : BOOLEAN, calm : BOOLEAN]
      BY <3>1, <3>2, <3>3, Zenon
    <3>5. /\ req'[c].at = "login" /\ req'[c].again = req[c].again
          /\ req'[c].once = req[c].once /\ req'[c].calm = req[c].calm
      BY <3>1, <3>3
    <3> QED BY <2>2, <1>1, <3>1, <3>4, <3>5 DEF TokenReqs
  <2> QED BY <2>1, <2>2
<1>3. req' \in [Requesters -> TokenReqs]
  BY <1>1, <1>2 DEF TK!Lock, TK!Goes, TK!At, TokensInv, TokensTyped
<1>4. TokensTyped'
  BY <1>1, <1>2, <1>3 DEF TokensInv, TokensTyped
<1>5. kind # "google" => \A d \in Requesters : req[d].at \notin InLogin
  BY <1>1 DEF TokensInv, LoginsAlone, TokensAssumption
<1>6. Budget'
  <2>1. CASE req[c].at = "renew"
    <3>1. Cardinality(Renewing)' = Cardinality(Renewing) - 1
      BY <2>1, <1>1, <1>2, <1>4, RenewingCounted DEF TokensInv
    <3>2. Cardinality(Renewing) \in Nat /\ serial \in Nat /\ owed \in Nat
      BY <1>4, RenewingCounted DEF TokensInv, TokensTyped
    <3> QED BY <1>1, <3>1, <3>2 DEF TokensInv, Budget
  <2>2. CASE req[c].at = "wait"
    <3>1. Cardinality(Renewing)' = Cardinality(Renewing)
      BY <2>2, <1>1, <1>2, <1>4, RenewingCounted DEF TokensInv
    <3>2. kind # "google" => (Due' => Due)
      BY <2>2, <1>1, <1>2, <1>5 DEF Due, TK!Usable, InLogin
    <3>3. Cardinality(Renewing) \in Nat /\ serial \in Nat /\ owed \in Nat
      BY <1>4, RenewingCounted DEF TokensInv, TokensTyped
    <3> QED BY <1>1, <3>1, <3>2, <3>3 DEF TokensInv, Budget
  <2> QED BY <1>1, <2>1, <2>2
<1>7. LoginsAlone'
  BY <1>1, <1>2, <1>5 DEF LoginsAlone, InLogin, TokensInv
<1>8. RefreshKept'
  BY <1>1, <1>2 DEF RefreshKept, TokensInv
<1>9. SecondTries'
  BY <1>1, <1>2 DEF SecondTries, TokensInv, Underway, InLogin, TK!Usable
<1> QED BY <1>4, <1>6, <1>7, <1>8, <1>9 DEF TokensInv

LEMMA LoginKeeps ==
  ASSUME TokensAssumption, TokensInv, NEW c \in Requesters, TK!Login(c)
  PROVE  TokensInv'
<1>1. /\ UNCHANGED <<kind, token, aged, held, refresh, saved, kills, owed, lostone, unsaved>>
      /\ req[c].at = "login" /\ req[c] \in TokenReqs /\ kind # NoToken
      /\ serial \in Nat /\ valid \subseteq 1 .. serial
      /\ req \in [Requesters -> TokenReqs]
  BY DEF TK!Login, TK!Goes, TK!At, TK!Bounds, TokensInv, TokensTyped
<1>2. kind # "google" => \A d \in Requesters \ {c} : req[d].at \notin InLogin
  BY <1>1 DEF TokensInv, LoginsAlone, InLogin
<1>3. CASE kind = "pikpak" /\ refresh # serial
  <2>1. /\ req' = [req EXCEPT ![c] = [req[c] EXCEPT !.at = "denied"]]
        /\ UNCHANGED <<valid, serial>>
    BY <1>3 DEF TK!Login, TK!Goes, TK!At
  <2>2. /\ \A d \in Requesters \ {c} : req'[d] = req[d]
        /\ req'[c] = [req[c] EXCEPT !.at = "denied"]
    BY <1>1, <2>1
  <2>3. req'[c] \in TokenReqs /\ req'[c].at = "denied"
    BY <1>1, <2>2 DEF TokenReqs, Underway, InLogin
  <2>4. req' \in [Requesters -> TokenReqs]
    BY <1>1, <2>1, <2>2, <2>3
  <2>5. TokensTyped'
    BY <1>1, <2>1, <2>2, <2>3, <2>4 DEF TokensInv, TokensTyped
  <2>6. Cardinality(Renewing)' = Cardinality(Renewing)
    BY <1>1, <2>2, <2>3, <2>5, RenewingCounted DEF TokensInv
  <2>7. Due' = Due
    BY <1>1, <2>2, <2>3 DEF Due, TK!Usable
  <2>8. Budget'
    BY <1>1, <2>1, <2>6, <2>7 DEF TokensInv, Budget
  <2>9. LoginsAlone'
    BY <1>1, <1>3, <2>2, <2>3 DEF LoginsAlone, InLogin, TokensInv
  <2>10. RefreshKept'
    BY <1>1, <2>1, <2>2, <2>3 DEF RefreshKept, TokensInv
  <2>11. SecondTries'
    BY <1>1, <2>1, <2>2, <2>3 DEF SecondTries, TokensInv, Underway, InLogin
  <2> QED BY <2>5, <2>8, <2>9, <2>10, <2>11 DEF TokensInv
<1>4. CASE ~(kind = "pikpak" /\ refresh # serial)
  <2> DEFINE Others == IF kills THEN TK!Disturb(req) ELSE req
  <2>1. /\ serial' = serial + 1
        /\ valid' = (IF kills THEN {} ELSE valid) \cup {serial'}
        /\ req' = [Others EXCEPT ![c] = [req[c] EXCEPT !.at = "given", !.with = serial']]
    BY <1>4 DEF TK!Login
  <2>2. /\ Others \in [Requesters -> TokenReqs]
        /\ \A d \in Requesters :
             /\ Others[d].at = req[d].at /\ (Others[d].calm => req[d].calm)
             /\ Others[d].at = "failed" => Others[d].once = req[d].once
             /\ req[d].at \in Underway => 
                  /\ Others[d].with = req[d].with /\ Others[d].again = req[d].again
                  /\ Others[d].once = req[d].once
             /\ kills /\ req[d].at \in Underway => ~Others[d].calm
    <3>1. CASE ~kills
      BY <1>1, <3>1
    <3>2. CASE kills
      BY <1>1, <3>2, DisturbCalms
    <3> QED BY <3>1, <3>2
  <2> HIDE DEF Others
  <2>3. /\ \A d \in Requesters \ {c} : req'[d] = Others[d]
        /\ req'[c] = [req[c] EXCEPT !.at = "given", !.with = serial']
    BY <2>1, <2>2
  <2>4. /\ req'[c] \in TokenReqs /\ req'[c].at = "given" /\ req'[c].with = serial'
        /\ req'[c].calm = req[c].calm /\ req'[c].again = req[c].again /\ req'[c].once = req[c].once
    <3>1. serial' \in Nat /\ "given" \in Underway
      BY <1>1, <2>1 DEF Underway, InLogin
    <3>2. req[c] \in [at : Underway \cup {"done", "failed"}, with : Nat \cup {NoToken},
                      once : BOOLEAN, again : BOOLEAN, unasked : BOOLEAN, calm : BOOLEAN]
      BY <1>1 DEF TokenReqs
    <3> QED BY <2>3, <3>1, <3>2 DEF TokenReqs
  <2>5. req' \in [Requesters -> TokenReqs]
    BY <2>1, <2>2, <2>3, <2>4
  <2>6. valid' \subseteq 1 .. serial' /\ refresh' <= serial'
    BY <1>1, <2>1 DEF TokensInv, TokensTyped
  <2>7. \A d \in Requesters : req'[d].at = "given" => req'[d].with \in 1 .. serial'
    BY <1>1, <2>1, <2>2, <2>3, <2>4 DEF TokensInv, TokensTyped, Underway, InLogin
  <2>8. TokensTyped'
    BY <1>1, <2>1, <2>5, <2>6, <2>7 DEF TokensInv, TokensTyped
  <2>9. Cardinality(Renewing)' = Cardinality(Renewing) /\ Cardinality(Renewing) \in Nat
    <3>1. \A d \in Requesters : req'[d].at = "renew" <=> req[d].at = "renew"
      BY <1>1, <2>2, <2>3, <2>4
    <3>2. TokensTyped
      BY DEF TokensInv
    <3> QED BY <2>8, <3>1, <3>2, RenewingCounted
  <2>10. kind # "google" => Due /\ ~Due'
    <3>1. \A d \in Requesters \ {c} : req'[d].at = req[d].at
      BY <2>2, <2>3
    <3>2. kind # "google" => \A d \in Requesters : req'[d].at \notin {"login", "denied"}
      BY <1>2, <2>4, <3>1 DEF InLogin
    <3>3. Due
      BY <1>1 DEF Due
    <3>4. (\A d \in Requesters : req'[d].at \notin {"login", "denied"}) => ~Due'
      BY <2>4 DEF Due
    <3> QED BY <3>2, <3>3, <3>4
  <2>11. Budget'
    BY <1>1, <2>1, <2>8, <2>9, <2>10 DEF TokensInv, TokensTyped, Budget
  <2>12. LoginsAlone'
    <3>1. \A d \in Requesters \ {c} : req'[d].at = req[d].at
      BY <2>2, <2>3
    <3> QED BY <1>1, <2>4, <3>1 DEF LoginsAlone, InLogin, TokensInv
  <2>13. RefreshKept'
    BY <1>1, <1>2, <2>1, <2>2, <2>3, <2>4 DEF RefreshKept, InLogin
  <2>14. SecondTries'
    <3>1. ASSUME NEW d \in Requesters \ {c}, req'[d].calm
          PROVE  /\ req'[d].at \in Underway /\ ~req'[d].again /\ ~req'[d].once =>
                      /\ req'[d].at \in {"send", "given"} => req'[d].with \in valid'
                      /\ req'[d].at \in {"ensure", "wait", "save"} => token' = NoToken \/ token' \in valid'
                      /\ req'[d].at # "refused"
                 /\ req'[d].at = "failed" => req'[d].once
      <4>1. CASE req[d].at \in Underway
        <5>1. ~kills /\ req[d].calm /\ req'[d].at = req[d].at
              /\ req'[d].with = req[d].with /\ req'[d].again = req[d].again /\ req'[d].once = req[d].once
          BY <3>1, <4>1, <2>2, <2>3
        <5>2. valid \subseteq valid'
          BY <2>1, <5>1
        <5> QED BY <5>1, <5>2, <4>1, <1>1 DEF SecondTries, TokensInv, Underway, InLogin
      <4>2. CASE req[d].at \notin Underway
        BY <3>1, <4>2, <2>2, <2>3, <1>1 DEF SecondTries, TokensInv
      <4> QED BY <4>1, <4>2
    <3>2. /\ req'[c].at = "given" /\ req'[c].with \in valid'
      BY <2>1, <2>4
    <3> QED BY <3>1, <3>2 DEF SecondTries
  <2> QED BY <2>8, <2>11, <2>12, <2>13, <2>14 DEF TokensInv
<1> QED BY <1>3, <1>4

LEMMA GivenKeeps ==
  ASSUME TokensAssumption, TokensInv, NEW c \in Requesters, TK!Given(c)
  PROVE  TokensInv'
<1> DEFINE next == IF kind = "pikpak" THEN "save" ELSE "send"
           then == [req EXCEPT ![c] = [req[c] EXCEPT !.at = next]]
<1>1. /\ UNCHANGED <<kind, saved, valid, serial, kills, owed, lostone, unsaved>>
      /\ req[c].at = "given" /\ req[c] \in TokenReqs /\ kind # NoToken
      /\ serial \in Nat /\ valid \subseteq 1 .. serial /\ saved <= refresh /\ refresh <= serial
      /\ refresh \in Nat /\ saved \in Nat /\ held \in Requesters \cup {NoToken}
      /\ req \in [Requesters -> TokenReqs] /\ req[c].with \in 1 .. serial
      /\ token' = req[c].with /\ aged' = FALSE
  BY DEF TK!Given, TK!Service, TK!Bounds, TokensInv, TokensTyped
<1>2. kind # "google" => held = c /\ \A d \in Requesters \ {c} : req[d].at \notin InLogin
  BY <1>1 DEF TokensInv, LoginsAlone, InLogin
<1>3. /\ kind = "pikpak" => refresh' = req[c].with /\ held' = held
      /\ kind # "pikpak" => refresh' = refresh /\ held' = IF held = c THEN NoToken ELSE held
      /\ req' = IF req[c].with \in valid THEN then ELSE TK!Disturb(then)
  BY DEF TK!Given, TK!Comes, TK!Free
<1>4. /\ then \in [Requesters -> TokenReqs]
      /\ \A d \in Requesters \ {c} : then[d] = req[d]
      /\ then[c].at = next /\ then[c].with = req[c].with
      /\ then[c].again = req[c].again /\ then[c].once = req[c].once /\ then[c].calm = req[c].calm
  <2>1. next \in Underway
    BY DEF Underway, InLogin
  <2>2. req[c] \in [at : Underway \cup {"done", "failed"}, with : Nat \cup {NoToken},
                    once : BOOLEAN, again : BOOLEAN, unasked : BOOLEAN, calm : BOOLEAN]
    BY <1>1 DEF TokenReqs
  <2>3. then[c] = [req[c] EXCEPT !.at = next] /\ \A d \in Requesters \ {c} : then[d] = req[d]
    BY <1>1
  <2> HIDE DEF next
  <2>4. [req[c] EXCEPT !.at = next] \in TokenReqs
    BY <2>1, <2>2 DEF TokenReqs
  <2> QED BY <1>1, <2>2, <2>3, <2>4
<1> HIDE DEF then
<1>5. /\ req' \in [Requesters -> TokenReqs]
      /\ \A d \in Requesters :
           /\ req'[d].at = then[d].at /\ (req'[d].calm => then[d].calm)
           /\ then[d].at = "failed" => req'[d].once = then[d].once
           /\ then[d].at \in Underway =>
                /\ req'[d].with = then[d].with /\ req'[d].again = then[d].again /\ req'[d].once = then[d].once
                /\ req'[d].calm => req[c].with \in valid
  BY <1>3, <1>4, DisturbCalms
<1>6. /\ \A d \in Requesters \ {c} :
           /\ req'[d].at = req[d].at /\ (req'[d].calm => req[d].calm)
           /\ req[d].at = "failed" => req'[d].once = req[d].once
           /\ req[d].at \in Underway =>
                /\ req'[d].with = req[d].with /\ req'[d].again = req[d].again /\ req'[d].once = req[d].once
                /\ req'[d].calm => req[c].with \in valid
      /\ req'[c].at = next /\ req'[c].with = req[c].with /\ req'[c].again = req[c].again /\ req'[c].once = req[c].once
      /\ req'[c].calm => req[c].calm /\ req[c].with \in valid
  BY <1>4, <1>5 DEF Underway, InLogin
<1>7. TokensTyped'
  <2>1. saved' <= refresh' /\ refresh' <= serial' /\ refresh' \in Nat
    <3>1. kind = "pikpak" => req[c].with = serial
      BY <1>1 DEF TokensInv, RefreshKept
    <3> QED BY <1>1, <1>3, <3>1
  <2>2. aged' \in BOOLEAN /\ token' \in Nat \cup {NoToken} /\ held' \in Requesters \cup {NoToken}
    <3>1. aged' \in BOOLEAN
      BY <1>1, Zenon
    <3>2. token' \in Nat
      BY <1>1
    <3> QED BY <1>1, <1>3, <3>1, <3>2
  <2>3. \A d \in Requesters : req'[d].at = "given" => req'[d].with \in 1 .. serial'
    BY <1>1, <1>6 DEF TokensInv, TokensTyped, Underway, InLogin
  <2> QED BY <1>1, <1>5, <2>1, <2>2, <2>3 DEF TokensInv, TokensTyped
<1>8. Cardinality(Renewing)' = Cardinality(Renewing) /\ Cardinality(Renewing) \in Nat
  BY <1>1, <1>6, <1>7, RenewingCounted DEF TokensInv
<1>9. kind # "google" => ~Due'
  <2>1. token' # NoToken /\ ~aged'
    BY <1>1 DEF TokensAssumption
  <2>2. kind # "google" => \A d \in Requesters : req'[d].at \notin {"login", "denied"}
    BY <1>2, <1>6 DEF InLogin
  <2> QED BY <2>1, <2>2 DEF Due, TK!Usable
<1>10. Budget'
  <2>1. serial \in Nat /\ owed \in Nat
    BY DEF TokensInv, TokensTyped
  <2> QED BY <1>1, <1>8, <1>9, <2>1 DEF TokensInv, Budget
<1>11. LoginsAlone'
  BY <1>1, <1>2, <1>3, <1>6 DEF LoginsAlone, InLogin, TokensInv
<1>12. RefreshKept'
  <2> SUFFICES ASSUME kind = "pikpak" PROVE RefreshKept'
    BY <1>1 DEF RefreshKept
  <2>1. \A d \in Requesters : req'[d].at # "given"
    BY <1>2, <1>6 DEF InLogin
  <2>2. refresh' = serial' /\ req'[c].at = "save"
    BY <1>1, <1>3, <1>6 DEF TokensInv, RefreshKept
  <2> QED BY <2>1, <2>2 DEF RefreshKept
<1>13. SecondTries'
  <2>1. ASSUME NEW d \in Requesters \ {c}, req'[d].calm
        PROVE  /\ req'[d].at \in Underway /\ ~req'[d].again /\ ~req'[d].once =>
                    /\ req'[d].at \in {"send", "given"} => req'[d].with \in valid'
                    /\ req'[d].at \in {"ensure", "wait", "save"} => token' = NoToken \/ token' \in valid'
                    /\ req'[d].at # "refused"
               /\ req'[d].at = "failed" => req'[d].once
    BY <2>1, <1>1, <1>6 DEF SecondTries, TokensInv
  <2>2. ASSUME req'[c].calm
        PROVE  req'[c].with \in valid' /\ token' \in valid' /\ req'[c].at \in {"save", "send"}
    BY <2>2, <1>1, <1>6
  <2> QED BY <2>1, <2>2 DEF SecondTries
<1> QED BY <1>7, <1>10, <1>11, <1>12, <1>13 DEF TokensInv

LEMMA SaveKeeps ==
  ASSUME TokensAssumption, TokensInv, NEW c \in Requesters, TK!Save(c)
  PROVE  TokensInv'
<1>1. /\ UNCHANGED <<kind, token, aged, refresh, valid, serial, kills, owed, lostone>>
      /\ \A d \in Requesters \ {c} : req'[d] = req[d]
      /\ req[c].at = "save" /\ req[c] \in TokenReqs /\ kind = "pikpak" /\ kind # NoToken
      /\ req \in [Requesters -> TokenReqs] /\ refresh \in Nat /\ serial \in Nat
      /\ saved' = refresh /\ unsaved' = FALSE /\ held' = IF held = c THEN NoToken ELSE held
      /\ req'[c] = [req[c] EXCEPT !.at = "ensure"]
  BY DEF TK!Save, TK!Goes, TK!At, TK!Free, TK!Service, TK!Bounds, TokensInv, TokensTyped, LoginsAlone
<1>2. held = c /\ \A d \in Requesters \ {c} : req[d].at \notin InLogin
  BY <1>1 DEF TokensInv, LoginsAlone, InLogin
<1>3. /\ req'[c] \in TokenReqs /\ req'[c].at = "ensure"
      /\ req'[c].again = req[c].again /\ req'[c].once = req[c].once /\ req'[c].calm = req[c].calm
  BY <1>1 DEF TokenReqs, Underway, InLogin
<1>4. req' \in [Requesters -> TokenReqs]
  BY <1>1, <1>3 DEF TK!Save, TK!Goes, TK!At
<1>5. TokensTyped'
  <2>1. saved' \in Nat /\ saved' <= refresh' /\ held' \in Requesters \cup {NoToken}
    BY <1>1, <1>2
  <2>2. unsaved' \in BOOLEAN
    BY <1>1, Zenon
  <2>3. \A d \in Requesters : req'[d].at = "given" => req'[d].with \in 1 .. serial'
    BY <1>1, <1>3 DEF TokensInv, TokensTyped
  <2> QED BY <1>1, <1>4, <2>1, <2>2, <2>3 DEF TokensInv, TokensTyped
<1>6. Cardinality(Renewing)' = Cardinality(Renewing)
  BY <1>1, <1>3, <1>5, RenewingCounted DEF TokensInv
<1>7. Due' = Due
  BY <1>1, <1>3 DEF Due, TK!Usable
<1>8. Budget'
  BY <1>1, <1>6, <1>7 DEF TokensInv, Budget
<1>9. LoginsAlone'
  BY <1>1, <1>2, <1>3 DEF LoginsAlone, InLogin, TokensInv
<1>10. RefreshKept'
  BY <1>1, <1>2, <1>3 DEF RefreshKept, TokensInv, InLogin
<1>11. SecondTries'
  BY <1>1, <1>3 DEF SecondTries, TokensInv, Underway, InLogin
<1> QED BY <1>5, <1>8, <1>9, <1>10, <1>11 DEF TokensInv

\* The row was not written: the token, unless it was renewed unasked, is dropped.
LEMMA SaveFailsKeeps ==
  ASSUME TokensAssumption, TokensInv, NEW c \in Requesters, TK!SaveFails(c)
  PROVE  TokensInv'
<1>1. /\ UNCHANGED <<kind, aged, refresh, saved, valid, serial, kills, lostone>>
      /\ \A d \in Requesters \ {c} : req'[d] = req[d]
      /\ req[c].at = "save" /\ req[c] \in TokenReqs /\ kind = "pikpak" /\ kind # NoToken
      /\ req \in [Requesters -> TokenReqs] /\ serial \in Nat /\ owed \in Nat
      /\ token \in Nat \cup {NoToken} /\ held' = IF held = c THEN NoToken ELSE held
      /\ req'[c] = [req[c] EXCEPT !.at = "failed", !.calm = FALSE]
  BY DEF TK!SaveFails, TK!Goes, TK!Free, TK!Service, TokensInv, TokensTyped, LoginsAlone
<1>2. \/ UNCHANGED <<token, owed>>
      \/ token' = NoToken /\ owed' = owed + 1
  BY Zenon DEF TK!SaveFails
<1>3. held = c /\ \A d \in Requesters \ {c} : req[d].at \notin InLogin
  BY <1>1 DEF TokensInv, LoginsAlone, InLogin
<1>4. unsaved' \in BOOLEAN /\ unsaved'
  BY Zenon DEF TK!SaveFails
<1>5. req'[c] \in TokenReqs /\ req'[c].at = "failed" /\ ~req'[c].calm
  BY <1>1 DEF TokenReqs, Underway, InLogin
<1>6. req' \in [Requesters -> TokenReqs]
  BY <1>1, <1>5 DEF TK!SaveFails, TK!Goes
<1>7. TokensTyped'
  <2>1. \A d \in Requesters : req'[d].at = "given" => req'[d].with \in 1 .. serial'
    BY <1>1, <1>5 DEF TokensInv, TokensTyped
  <2>2. owed' \in Nat /\ token' \in Nat \cup {NoToken} /\ held' \in Requesters \cup {NoToken}
    BY <1>1, <1>2, <1>3
  <2> QED BY <1>1, <1>4, <1>6, <2>1, <2>2 DEF TokensInv, TokensTyped
<1>8. Cardinality(Renewing)' = Cardinality(Renewing) /\ Cardinality(Renewing) \in Nat
  BY <1>1, <1>5, <1>7, RenewingCounted DEF TokensInv
<1>9. Budget'
  <2>1. CASE UNCHANGED <<token, owed>>
    <3>1. Due' = Due
      BY <2>1, <1>1, <1>5 DEF Due, TK!Usable
    <3> QED BY <2>1, <3>1, <1>1, <1>8 DEF TokensInv, Budget
  <2>2. CASE owed' = owed + 1
    BY <2>2, <1>1, <1>8 DEF TokensInv, Budget
  <2> QED BY <1>2, <2>1, <2>2
<1>10. LoginsAlone'
  BY <1>1, <1>3, <1>5 DEF LoginsAlone, InLogin, TokensInv
<1>11. RefreshKept'
  BY <1>1, <1>3, <1>4, <1>5 DEF RefreshKept, TokensInv, InLogin
<1>12. SecondTries'
  <2>1. \A d \in Requesters : req'[d].calm => d # c /\ req'[d] = req[d]
    BY <1>1, <1>5
  <2> QED BY <2>1, <1>1, <1>2 DEF SecondTries, TokensInv
<1> QED BY <1>7, <1>9, <1>10, <1>11, <1>12 DEF TokensInv

LEMMA LoginFailsKeeps ==
  ASSUME TokensAssumption, TokensInv, NEW c \in Requesters, TK!LoginFails(c)
  PROVE  TokensInv'
<1>1. /\ UNCHANGED <<kind, aged, refresh, saved, valid, serial, kills, unsaved>>
      /\ \A d \in Requesters \ {c} : req'[d] = req[d]
      /\ req[c].at \in {"login", "denied", "given"} /\ req[c] \in TokenReqs /\ kind # NoToken
      /\ req \in [Requesters -> TokenReqs] /\ owed \in Nat /\ serial \in Nat
      /\ token \in Nat \cup {NoToken} /\ held \in Requesters \cup {NoToken}
      /\ owed' = owed + 1 /\ held' = IF held = c THEN NoToken ELSE held
      /\ token' \in {token, NoToken}
      /\ req'[c] = [req[c] EXCEPT !.at = "failed", !.calm = FALSE]
  BY DEF TK!LoginFails, TK!Goes, TK!Free, TK!Service, TokensInv, TokensTyped
<1>2. kind # "google" => held = c /\ \A d \in Requesters \ {c} : req[d].at \notin InLogin
  BY <1>1 DEF TokensInv, LoginsAlone, InLogin
<1>3. /\ lostone' \in BOOLEAN
      /\ kind = "pikpak" /\ req[c].at = "given" => lostone'
      /\ lostone => lostone'
  BY Zenon DEF TK!LoginFails, TokensInv, TokensTyped
<1>4. req'[c] \in TokenReqs /\ req'[c].at = "failed" /\ ~req'[c].calm
  BY <1>1 DEF TokenReqs, Underway, InLogin
<1>5. req' \in [Requesters -> TokenReqs]
  BY <1>1, <1>4 DEF TK!LoginFails, TK!Goes
<1>6. TokensTyped'
  <2>1. \A d \in Requesters : req'[d].at = "given" => req'[d].with \in 1 .. serial'
    BY <1>1, <1>4 DEF TokensInv, TokensTyped
  <2>2. owed' \in Nat /\ token' \in Nat \cup {NoToken} /\ held' \in Requesters \cup {NoToken}
    BY <1>1
  <2> QED BY <1>1, <1>3, <1>5, <2>1, <2>2 DEF TokensInv, TokensTyped
<1>7. Cardinality(Renewing)' = Cardinality(Renewing) /\ Cardinality(Renewing) \in Nat
  BY <1>1, <1>4, <1>6, RenewingCounted DEF TokensInv
<1>8. Budget'
  BY <1>1, <1>7 DEF TokensInv, Budget
<1>9. LoginsAlone'
  BY <1>1, <1>2, <1>4 DEF LoginsAlone, InLogin, TokensInv
<1>10. RefreshKept'
  BY <1>1, <1>2, <1>3, <1>4 DEF RefreshKept, TokensInv, InLogin
<1>11. SecondTries'
  BY <1>1, <1>4 DEF SecondTries, TokensInv, Underway, InLogin
<1> QED BY <1>6, <1>8, <1>9, <1>10, <1>11 DEF TokensInv

\* Sending, and taking the answer, changes where the request is.
LEMMA AnswersKeep ==
  ASSUME TokensAssumption, TokensInv, NEW c \in Requesters, TK!Send(c) \/ TK!Accepted(c)
  PROVE  TokensInv'
<1>1. /\ UNCHANGED <<kind, token, aged, held, refresh, saved, valid, serial, kills, owed, lostone, unsaved>>
      /\ \A d \in Requesters \ {c} : req'[d] = req[d]
      /\ req[c].at \in {"send", "accepted"} /\ req[c] \in TokenReqs /\ kind # NoToken
      /\ req \in [Requesters -> TokenReqs]
  BY DEF TK!Send, TK!Accepted, TK!At, TK!Goes, TK!Service, TK!Bounds, TokensInv, TokensTyped
<1>2. /\ req'[c] \in TokenReqs /\ req'[c].at \in {"accepted", "refused", "done"}
      /\ req'[c].again = req[c].again /\ req'[c].once = req[c].once /\ req'[c].calm = req[c].calm
      /\ req'[c].at = "refused" => req[c].at = "send" /\ req[c].with \notin valid
  <2>1. PICK at \in {"accepted", "refused", "done"} :
          /\ req' = [req EXCEPT ![c].at = at]
          /\ at = "refused" => req[c].at = "send" /\ req[c].with \notin valid
    BY DEF TK!Send, TK!Accepted, TK!At, TK!Goes
  <2>2. req'[c] = [req[c] EXCEPT !.at = at]
    BY <1>1, <2>1
  <2> QED BY <1>1, <2>1, <2>2 DEF TokenReqs, Underway, InLogin
<1>3. req' \in [Requesters -> TokenReqs]
  BY <1>1, <1>2 DEF TK!Send, TK!Accepted, TK!At, TK!Goes
<1>4. TokensTyped'
  BY <1>1, <1>2, <1>3 DEF TokensInv, TokensTyped
<1>5. Cardinality(Renewing)' = Cardinality(Renewing)
  BY <1>1, <1>2, <1>4, RenewingCounted DEF TokensInv
<1>6. Due' = Due
  BY <1>1, <1>2 DEF Due, TK!Usable
<1>7. Budget'
  BY <1>1, <1>5, <1>6 DEF TokensInv, Budget
<1>8. LoginsAlone'
  BY <1>1, <1>2 DEF LoginsAlone, InLogin, TokensInv
<1>9. RefreshKept'
  BY <1>1, <1>2 DEF RefreshKept, TokensInv
<1>10. SecondTries'
  BY <1>1, <1>2 DEF SecondTries, TokensInv, Underway, InLogin
<1> QED BY <1>4, <1>7, <1>8, <1>9, <1>10 DEF TokensInv

LEMMA RefusedKeeps ==
  ASSUME TokensAssumption, TokensInv, NEW c \in Requesters, TK!Refused(c)
  PROVE  TokensInv'
<1>1. /\ UNCHANGED <<kind, aged, held, refresh, saved, valid, serial, kills, lostone, unsaved>>
      /\ \A d \in Requesters \ {c} : req'[d] = req[d]
      /\ req[c].at = "refused" /\ req[c] \in TokenReqs /\ kind # NoToken
      /\ req \in [Requesters -> TokenReqs] /\ owed \in Nat /\ serial \in Nat
      /\ token \in Nat \cup {NoToken} /\ owed' = owed + 1
  BY DEF TK!Refused, TK!At, TK!Goes, TK!Service, TK!Bounds, TokensInv, TokensTyped
<1>2. /\ req'[c] \in TokenReqs /\ req'[c].calm = req[c].calm /\ req'[c].once = req[c].once
      /\ \/ /\ ~req[c].again
            /\ req'[c].at = "failed" /\ token' = token
         \/ /\ req[c].again /\ kind = "pikpak" /\ token' = token
            /\ req'[c].at = "renew" /\ ~req'[c].again
         \/ /\ req[c].again /\ kind # "pikpak" /\ token' = NoToken
            /\ req'[c].at = "ensure" /\ ~req'[c].again
  <2>1. CASE ~req[c].again
    <3>1. req'[c] = [req[c] EXCEPT !.at = "failed"] /\ token' = token
      BY <1>1, <2>1 DEF TK!Refused, TK!At, TK!Goes
    <3> QED BY <1>1, <2>1, <3>1 DEF TokenReqs, Underway, InLogin
  <2>2. CASE req[c].again /\ kind = "pikpak"
    <3>1. req'[c] = [req[c] EXCEPT !.again = FALSE, !.at = "renew"] /\ token' = token
      BY <1>1, <2>2 DEF TK!Refused, TK!At, TK!Goes
    <3> QED BY <1>1, <2>2, <3>1 DEF TokenReqs, Underway, InLogin
  <2>3. CASE req[c].again /\ kind # "pikpak"
    <3>1. req'[c] = [req[c] EXCEPT !.again = FALSE, !.at = "ensure"] /\ token' = NoToken
      BY <1>1, <2>3 DEF TK!Refused, TK!At, TK!Goes
    <3> QED BY <1>1, <2>3, <3>1 DEF TokenReqs, Underway, InLogin
  <2> QED BY <2>1, <2>2, <2>3
<1>3. req' \in [Requesters -> TokenReqs]
  BY <1>1, <1>2 DEF TK!Refused, TK!At, TK!Goes
<1>4. TokensTyped'
  BY <1>1, <1>2, <1>3 DEF TokensInv, TokensTyped
<1>5. Budget'
  <2>1. Cardinality(Renewing) \in Nat
    BY <1>4, RenewingCounted DEF TokensInv
  <2>2. CASE req'[c].at = "renew"
    <3>1. Cardinality(Renewing)' = Cardinality(Renewing) + 1
      BY <2>2, <1>1, <1>4, RenewingCounted DEF TokensInv
    <3>2. Due' = Due
      BY <2>2, <1>1, <1>2 DEF Due, TK!Usable
    <3> QED BY <1>1, <2>1, <3>1, <3>2 DEF TokensInv, Budget
  <2>3. CASE req'[c].at # "renew"
    <3>1. Cardinality(Renewing)' = Cardinality(Renewing)
      BY <2>3, <1>1, <1>4, RenewingCounted DEF TokensInv
    <3> QED BY <1>1, <2>1, <3>1 DEF TokensInv, Budget
  <2> QED BY <2>2, <2>3
<1>6. LoginsAlone'
  BY <1>1, <1>2 DEF LoginsAlone, InLogin, TokensInv
<1>7. RefreshKept'
  BY <1>1, <1>2 DEF RefreshKept, TokensInv
<1>8. SecondTries'
  BY <1>1, <1>2 DEF SecondTries, TokensInv, Underway, InLogin
<1> QED BY <1>4, <1>5, <1>6, <1>7, <1>8 DEF TokensInv

LEMMA RevokeKeeps ==
  ASSUME TokensAssumption, TokensInv, TK!Revoke
  PROVE  TokensInv'
<1>1. /\ UNCHANGED <<kind, token, aged, held, refresh, saved, serial, kills, owed, lostone, unsaved>>
      /\ req \in [Requesters -> TokenReqs] /\ valid' = {} /\ req' = TK!Disturb(req)
  BY DEF TK!Revoke, TokensInv, TokensTyped
<1>2. /\ req' \in [Requesters -> TokenReqs]
      /\ \A d \in Requesters :
           /\ req'[d].at = req[d].at /\ (req'[d].calm => req[d].calm)
           /\ req[d].at = "failed" => req'[d].once = req[d].once
           /\ req[d].at \in Underway =>
                ~req'[d].calm /\ req'[d].with = req[d].with
  BY <1>1, DisturbCalms
<1>3. \A d \in Requesters : req'[d].at = "given" => req'[d].with \in 1 .. serial'
  BY <1>1, <1>2 DEF TokensInv, TokensTyped, Underway, InLogin
<1>4. TokensTyped'
  BY <1>1, <1>2, <1>3 DEF TokensInv, TokensTyped
<1>5. Cardinality(Renewing)' = Cardinality(Renewing)
  BY <1>2, <1>4, RenewingCounted DEF TokensInv
<1>6. Due' = Due
  BY <1>1, <1>2 DEF Due, TK!Usable
<1>7. Budget'
  BY <1>1, <1>5, <1>6 DEF TokensInv, Budget
<1>8. LoginsAlone'
  BY <1>1, <1>2 DEF LoginsAlone, InLogin, TokensInv
<1>9. RefreshKept'
  BY <1>1, <1>2 DEF RefreshKept, TokensInv, Underway, InLogin
<1>10. SecondTries'
  BY <1>1, <1>2 DEF SecondTries, TokensInv
<1> QED BY <1>4, <1>7, <1>8, <1>9, <1>10 DEF TokensInv

LEMMA ExpireKeeps ==
  ASSUME TokensAssumption, TokensInv, TK!Expire
  PROVE  TokensInv'
<1>1. /\ UNCHANGED <<kind, token, held, refresh, saved, valid, serial, kills, req, lostone, unsaved>>
      /\ token # NoToken /\ owed' = owed + 1 /\ owed \in Nat /\ serial \in Nat
  BY DEF TK!Expire, TK!Service, TokensInv, TokensTyped
<1>2. aged' \in BOOLEAN /\ kind \in {"dropbox", "google", "pikpak"}
  BY Zenon DEF TK!Expire
<1>3. TokensTyped'
  <2>1. kind # NoToken /\ owed' \in Nat
    BY <1>1 DEF TokensInv, TokensTyped
  <2> QED BY <1>1, <1>2, <2>1 DEF TokensInv, TokensTyped
<1>4. Renewing' = Renewing /\ Cardinality(Renewing) \in Nat
  BY <1>1, <1>3, RenewingCounted DEF TokensInv, Renewing
<1>5. Budget'
  BY <1>1, <1>4 DEF TokensInv, Budget
<1>6. LoginsAlone' /\ RefreshKept' /\ SecondTries'
  BY <1>1 DEF LoginsAlone, RefreshKept, SecondTries, TokensInv
<1> QED BY <1>3, <1>5, <1>6 DEF TokensInv

LEMMA TokensStay ==
  ASSUME TokensInv, UNCHANGED tokensvars
  PROVE  TokensInv'
<1>1. /\ UNCHANGED <<kind, token, aged, held, refresh, saved, valid, serial>>
      /\ UNCHANGED <<kills, req, owed, lostone, unsaved>>
  BY DEF tokensvars
<1>2. TokensTyped'
  BY <1>1 DEF TokensInv, TokensTyped
<1>3. Renewing' = Renewing /\ Due' = Due
  BY <1>1 DEF Renewing, Due, TK!Usable
<1>4. Budget'
  BY <1>1, <1>3 DEF TokensInv, Budget
<1>5. LoginsAlone' /\ RefreshKept' /\ SecondTries'
  BY <1>1 DEF LoginsAlone, RefreshKept, SecondTries, TokensInv
<1> QED BY <1>2, <1>4, <1>5 DEF TokensInv

LEMMA TokensKept ==
  ASSUME TokensAssumption, TokensInv, [TK!Next]_tokensvars
  PROVE  TokensInv'
<1>1. CASE UNCHANGED tokensvars
  BY <1>1, TokensStay
<1>2. CASE \E k \in TokenKinds, kill \in BOOLEAN : TK!TokenSetup(k, kill)
  BY <1>2, SetupKeeps
<1>3. ASSUME NEW c \in Requesters,
             \/ TK!Request(c) \/ TK!Ensure(c) \/ TK!Lock(c) \/ TK!Login(c) \/ TK!Given(c)
             \/ TK!Save(c) \/ TK!SaveFails(c) \/ TK!LoginFails(c) \/ TK!Send(c) \/ TK!Accepted(c) \/ TK!Refused(c)
      PROVE  TokensInv'
  BY <1>3, RequestKeeps, EnsureKeeps, LockKeeps, LoginKeeps, GivenKeeps, SaveKeeps, SaveFailsKeeps,
     LoginFailsKeeps, AnswersKeep, RefusedKeeps
<1>4. CASE TK!Revoke \/ TK!Expire
  BY <1>4, RevokeKeeps, ExpireKeeps
<1> QED BY <1>1, <1>2, <1>3, <1>4 DEF TK!Next

LEMMA TokensInvServes ==
  ASSUME TokensAssumption, TokensInv
  PROVE  TokensRenewed
<1>1. TK!TypeOK
  BY DEF TK!TypeOK, TokensInv, TokensTyped, TokenReqs, Underway, InLogin, TK!Idle
<1>2. TK!OnceMoreIsEnough
  BY DEF TK!OnceMoreIsEnough, TokensInv, SecondTries
<1>3. TK!NoNeedlessLogin
  <2>1. Cardinality(Renewing) \in Nat
    <3>1. Renewing \subseteq Requesters
      BY DEF Renewing
    <3> QED BY <3>1, FS_Subset, FS_CardinalityType DEF TokensAssumption
  <2> QED BY <2>1 DEF TK!NoNeedlessLogin, TokensInv, TokensTyped, Budget
<1>4. TK!SavedIsCurrent
  BY DEF TK!SavedIsCurrent, TK!Idle, TokensInv, RefreshKept
<1> QED BY <1>1, <1>2, <1>3, <1>4 DEF TokensRenewed

\* alist.py, dropbox.py, foxel.py, googledrive.py, onedrive.py, pikpak.py: however many
\* requests share a token, one more try, of those that make one, is enough when it ended; with
\* the lock, there are no more logins than tokens missed, expired or refused; the refresh
\* token in the adapter's row is the one the service will take, unless its answer was lost or
\* the row could not be written.
THEOREM TokensAreRenewed == Spec => []TokensRenewed
<1>1. Init => TokensInv
  BY TokensAssumption, TokensBegin DEF Init
<1>2. TokensInv /\ [Next]_vars => TokensInv'
  BY TokensAssumption, Turns, TokensKept
<1>3. TokensInv => TokensRenewed
  BY TokensAssumption, TokensInvServes
<1> QED BY <1>1, <1>2, <1>3, PTL DEF Spec
-----------------------------------------------------------------------------
(* QuarkUpload: write_upload_file and write_file_stream of quark.py.        *)

Content == {QU!Bytes(n) : n \in 0 .. MaxUploadSize}
UploadStates == {"spool", "pre", "hash", "parts", "known", "finish"}
UploadRecords == [at : {"rest"}]
                 \cup [at : UploadStates, stream : BOOLEAN, size : 0 .. MaxUploadSize,
                       left : 0 .. MaxUploadSize, parts : Seq(Nat)]

UploadsTyped ==
    /\ up \in UploadRecords
    /\ up.at # "rest" => ups # 0 /\ up.left <= up.size
    /\ ups \in 0 .. MaxUploads /\ tempfiles \subseteq 1 .. MaxUploads /\ broken \subseteq 1 .. MaxUploads
    /\ quarkheld \in [1 .. MaxUploads -> Content \cup {Unknown}]
    /\ uploadkids \in {Unknown} \cup SUBSET (1 .. MaxUploads)
    /\ lister \in {Unknown} \cup SUBSET (1 .. MaxUploads)
    /\ misled \in BOOLEAN

\* The parts put are the beginning of the file, as far as it is not left.
PartsInOrder ==
    /\ up.at \in {"spool", "pre", "hash"} => up.left = up.size /\ up.parts = <<>>
    /\ up.at = "parts" => up.parts = QU!Bytes(up.size - up.left)
    /\ up.at \in {"known", "finish"} => quarkheld[ups] = QU!Bytes(up.size)
    /\ \A f \in 1 .. ups : f \in broken \/ quarkheld[f] # Unknown \/ (f = ups /\ up.at # "rest")

\* Until the file is there, the cache and a listing under way have what there is.
ListsTrue ==
    up.at \notin {"known", "finish"} /\ ~misled =>
        uploadkids \in {QU!There, Unknown} /\ lister \in {QU!There, Unknown}

UploadsInv == UploadsTyped /\ PartsInOrder /\ QU!TempsAccounted /\ ListsTrue

LEMMA BytesTyped ==
  ASSUME QuarkAssumption, NEW n \in 0 .. MaxUploadSize
  PROVE  QU!Bytes(n) \in Seq(Nat) /\ QU!Bytes(n) \in Content /\ QU!Bytes(n) # Unknown
<1>1. QU!Bytes(n) \in Content
  BY DEF Content
<1>2. QU!Bytes(n) # Unknown
  BY DEF QuarkAssumption, QU!Bytes
<1>3. \A i \in 1 .. n : i \in Nat
  OBVIOUS
<1>4. QU!Bytes(n) \in Seq(Nat)
  BY <1>3 DEF QU!Bytes, QuarkAssumption
<1> QED BY <1>1, <1>2, <1>4

\* A part put after the others makes a longer beginning.
LEMMA PieceNext ==
  ASSUME QuarkAssumption, UploadsTyped, up.at = "parts", up.left > 0,
         up.parts = QU!Bytes(up.size - up.left)
  PROVE  /\ Len(QU!Piece) \in Nat /\ Len(QU!Piece) <= up.left
         /\ up.parts \o QU!Piece = QU!Bytes(up.size - (up.left - Len(QU!Piece)))
         /\ up.parts \o QU!Piece \in Seq(Nat)
<1> DEFINE sz == IF up.left < PartSize THEN up.left ELSE PartSize
           a == up.size - up.left
<1>1. up.size \in 0 .. MaxUploadSize /\ up.left \in 0 .. MaxUploadSize /\ up.left <= up.size
  BY DEF UploadsTyped, UploadRecords, UploadStates
<1>2. sz \in Nat /\ a \in Nat /\ sz <= up.left /\ a + sz \in 0 .. MaxUploadSize
      /\ up.size - (up.left - sz) = a + sz /\ a \in 0 .. MaxUploadSize
  BY <1>1 DEF QuarkAssumption
<1>3. QU!Piece = [i \in 1 .. sz |-> a + i]
  BY DEF QU!Piece
<1> HIDE DEF sz, a
<1>4. QU!Piece \in Seq(Nat) /\ Len(QU!Piece) = sz
  BY <1>2, <1>3
<1>5. up.parts \in Seq(Nat) /\ Len(up.parts) = a /\ \A i \in 1 .. a : up.parts[i] = i
  BY <1>2, BytesTyped DEF QU!Bytes, a
<1>6. /\ up.parts \o QU!Piece \in Seq(Nat)
      /\ Len(up.parts \o QU!Piece) = a + sz
      /\ \A i \in 1 .. a + sz : (up.parts \o QU!Piece)[i] = i
  <2>1. up.parts \o QU!Piece \in Seq(Nat) /\ Len(up.parts \o QU!Piece) = a + sz
    BY <1>4, <1>5, ConcatProperties
  <2>2. ASSUME NEW i \in 1 .. a + sz PROVE (up.parts \o QU!Piece)[i] = i
    <3>1. (up.parts \o QU!Piece)[i] = IF i <= a THEN up.parts[i] ELSE QU!Piece[i - a]
      BY <1>4, <1>5, ConcatProperties
    <3>2. CASE i <= a
      BY <3>1, <3>2, <1>2, <1>5
    <3>3. CASE ~(i <= a)
      <4>1. i - a \in 1 .. sz
        BY <3>3, <1>2
      <4>2. QU!Piece[i - a] = a + (i - a)
        BY <4>1, <1>3
      <4>3. a + (i - a) = i
        BY <1>2
      <4> QED BY <3>1, <3>3, <4>2, <4>3
    <3> QED BY <3>2, <3>3
  <2> QED BY <2>1, <2>2
<1>7. up.parts \o QU!Piece = QU!Bytes(a + sz)
  <2>1. QU!Bytes(a + sz) \in Seq(Nat)
    BY <1>2, BytesTyped
  <2>2. Len(QU!Bytes(a + sz)) = a + sz /\ \A i \in 1 .. a + sz : QU!Bytes(a + sz)[i] = i
    BY <1>2 DEF QU!Bytes
  <2> QED BY <1>2, <1>6, <2>1, <2>2, SeqEqual
<1> QED BY <1>2, <1>4, <1>6, <1>7

LEMMA UploadsBegin ==
  ASSUME QuarkAssumption, QU!Init
  PROVE  UploadsInv
<1>1. /\ up = [at |-> "rest"] /\ ups = 0 /\ quarkheld = [f \in 1 .. MaxUploads |-> Unknown]
      /\ tempfiles = {} /\ uploadkids = Unknown /\ lister = Unknown /\ broken = {}
  BY DEF QU!Init
<1>2. misled \in BOOLEAN /\ ~misled
  BY Zenon DEF QU!Init
<1>3. UploadsTyped
  <2>1. up \in UploadRecords /\ up.at = "rest" /\ ups \in 0 .. MaxUploads
    BY <1>1 DEF UploadRecords, QuarkAssumption
  <2>2. quarkheld \in [1 .. MaxUploads -> Content \cup {Unknown}]
    BY <1>1
  <2> QED BY <1>1, <1>2, <2>1, <2>2 DEF UploadsTyped
<1>4. PartsInOrder
  BY <1>1 DEF PartsInOrder
<1>5. ListsTrue /\ QU!TempsAccounted
  BY <1>1 DEF ListsTrue, QU!TempsAccounted
<1> QED BY <1>3, <1>4, <1>5 DEF UploadsInv

LEMMA BeginKeeps ==
  ASSUME QuarkAssumption, UploadsInv, NEW flow \in BOOLEAN, NEW size \in 0 .. MaxUploadSize,
         QU!Begin(flow, size)
  PROVE  UploadsInv'
<1>1. /\ up.at = "rest" /\ ups < MaxUploads /\ ups' = ups + 1
      /\ up' = [at |-> IF flow THEN "spool" ELSE "pre", stream |-> flow, size |-> size,
                left |-> size, parts |-> <<>>]
      /\ tempfiles' = IF flow THEN tempfiles \cup {ups'} ELSE tempfiles
      /\ UNCHANGED <<quarkheld, uploadkids, lister, broken, misled>>
  BY DEF QU!Begin
<1>2. ups \in 0 .. MaxUploads /\ MaxUploads \in Nat
  BY DEF UploadsInv, UploadsTyped, QuarkAssumption
<1>3. /\ up' \in UploadRecords /\ up'.at \in {"spool", "pre"} /\ up'.left = size /\ up'.size = size
      /\ up'.parts = <<>>
  BY <1>1 DEF UploadRecords, UploadStates
<1>4. ups' \in 1 .. MaxUploads /\ 1 .. ups' = 1 .. ups \cup {ups'}
  BY <1>1, <1>2
<1>5. UploadsTyped'
  <2>1. tempfiles' \subseteq 1 .. MaxUploads
    BY <1>1, <1>4 DEF UploadsInv, UploadsTyped
  <2>2. ups' \in 0 .. MaxUploads /\ ups' # 0 /\ size <= size
    BY <1>2, <1>4 DEF QuarkAssumption
  <2> QED BY <1>1, <1>3, <2>1, <2>2 DEF UploadsInv, UploadsTyped
<1>6. PartsInOrder'
  BY <1>1, <1>3, <1>4 DEF UploadsInv, PartsInOrder
<1>7. QU!TempsAccounted'
  BY <1>1, <1>3 DEF UploadsInv, QU!TempsAccounted
<1>8. ListsTrue'
  BY <1>1 DEF UploadsInv, ListsTrue, QU!There
<1> QED BY <1>5, <1>6, <1>7, <1>8 DEF UploadsInv

\* Steps of the upload that leave the service's files, the cache and the listing alone.
LEMMA ProgressKeeps ==
  ASSUME QuarkAssumption, UploadsInv,
         QU!Spool \/ QU!Pre \/ (QU!Hash /\ up'.at = "parts") \/ QU!PutPart \/ QU!Finish
  PROVE  UploadsInv'
<1>1. /\ UNCHANGED <<ups, tempfiles, broken, misled, quarkheld, uploadkids, lister>>
      /\ up.at \in UploadStates /\ up \in UploadRecords /\ up.left <= up.size
  <2>1. up.at \in UploadStates
    BY DEF QU!Spool, QU!Pre, QU!Hash, QU!PutPart, QU!Finish, UploadStates
  <2>2. UNCHANGED <<ups, tempfiles, broken, misled, quarkheld, uploadkids, lister>>
    BY DEF QU!Spool, QU!Pre, QU!Hash, QU!PutPart, QU!Finish, QU!Cloud, QU!Goes,
           UploadsInv, UploadsTyped, UploadRecords, UploadStates
  <2> QED BY <2>1, <2>2 DEF UploadsInv, UploadsTyped, UploadStates
<1>2. /\ up' \in UploadRecords /\ up'.at \in UploadStates /\ up'.left <= up'.size
      /\ up'.at \in {"spool", "pre", "hash"} => up'.left = up'.size /\ up'.parts = <<>>
      /\ up'.at = "parts" => up'.parts = QU!Bytes(up'.size - up'.left)
      /\ up'.at \in {"known", "finish"} => quarkheld[ups] = QU!Bytes(up'.size) /\ up.at = "finish"
      /\ up.at # "known" /\ (up.at = "finish" => up'.at = "known")
  <2>1. CASE QU!Spool \/ QU!Pre
    <3>1. PICK at \in {"pre", "hash"} : up' = [up EXCEPT !.at = at]
      BY <2>1 DEF QU!Spool, QU!Pre, QU!Goes
    <3>2. up.at \in {"spool", "pre"} /\ up.left = up.size /\ up.parts = <<>>
      BY <2>1 DEF QU!Spool, QU!Pre, UploadsInv, PartsInOrder
    <3>3. up'.at = at /\ up'.left = up.size /\ up'.size = up.size /\ up'.parts = <<>>
      BY <1>1, <3>1, <3>2 DEF UploadRecords, UploadStates
    <3>4. up' \in UploadRecords
      BY <1>1, <3>1 DEF UploadRecords, UploadStates
    <3>5. up.size \in 0 .. MaxUploadSize
      BY <1>1 DEF UploadRecords, UploadStates
    <3> QED BY <3>2, <3>3, <3>4, <3>5 DEF UploadStates, QuarkAssumption
  <2>2. CASE QU!Hash /\ up'.at = "parts"
    <3>1. up' = [up EXCEPT !.at = "parts"] /\ up.left = up.size /\ up.parts = <<>>
      BY <2>2, <1>1 DEF QU!Hash, QU!Goes, UploadsInv, PartsInOrder, UploadRecords, UploadStates
    <3>2. up' \in UploadRecords /\ up'.at = "parts" /\ up'.left = up'.size /\ up'.parts = <<>>
      BY <3>1, <1>1 DEF UploadRecords, UploadStates
    <3>3. up'.left <= up'.size /\ up'.size - up'.left = 0
      BY <3>2 DEF UploadRecords, UploadStates, QuarkAssumption
    <3>4. QU!Bytes(0) = <<>>
      BY DEF QU!Bytes
    <3>5. up.at = "hash"
      BY <2>2 DEF QU!Hash
    <3> QED BY <3>2, <3>3, <3>4, <3>5 DEF UploadStates
  <2>3. CASE QU!PutPart
    <3>1. /\ up.at = "parts" /\ up.left > 0 /\ up.parts = QU!Bytes(up.size - up.left)
          /\ up' = [up EXCEPT !.left = up.left - Len(QU!Piece), !.parts = up.parts \o QU!Piece]
      BY <2>3 DEF QU!PutPart, UploadsInv, PartsInOrder
    <3>2. /\ Len(QU!Piece) \in Nat /\ Len(QU!Piece) <= up.left
          /\ up.parts \o QU!Piece = QU!Bytes(up.size - (up.left - Len(QU!Piece)))
          /\ up.parts \o QU!Piece \in Seq(Nat)
      BY <3>1, PieceNext DEF UploadsInv
    <3> DEFINE rest == up.left - Len(QU!Piece)  joined == up.parts \o QU!Piece
    <3>3. up.size \in 0 .. MaxUploadSize /\ rest \in 0 .. MaxUploadSize /\ rest <= up.size
      BY <1>1, <3>1, <3>2 DEF UploadRecords, UploadStates, QuarkAssumption
    <3>4. joined \in Seq(Nat) /\ up' = [up EXCEPT !.left = rest, !.parts = joined]
      BY <3>1, <3>2
    <3> HIDE DEF rest, joined
    <3>5. /\ up' \in UploadRecords /\ up'.at = "parts" /\ up'.left = rest /\ up'.size = up.size
          /\ up'.parts = joined
      BY <1>1, <3>1, <3>3, <3>4 DEF UploadRecords, UploadStates
    <3>6. joined = QU!Bytes(up.size - rest)
      BY <3>2 DEF rest, joined
    <3> QED BY <3>1, <3>3, <3>5, <3>6 DEF UploadStates
  <2>4. CASE QU!Finish
    <3>1. up' = [up EXCEPT !.at = "known"] /\ up.at = "finish"
          /\ quarkheld[ups] = QU!Bytes(up.size)
      BY <2>4 DEF QU!Finish, QU!Goes, UploadsInv, PartsInOrder
    <3> QED BY <1>1, <3>1 DEF UploadRecords, UploadStates
  <2> QED BY <2>1, <2>2, <2>3, <2>4
<1>3. up.at # "rest" /\ up'.at # "rest"
  BY <1>1, <1>2 DEF UploadStates
<1>4. UploadsTyped'
  BY <1>1, <1>2, <1>3 DEF UploadsInv, UploadsTyped
<1>5. PartsInOrder'
  BY <1>1, <1>2, <1>3 DEF UploadsInv, PartsInOrder
<1>6. QU!TempsAccounted'
  BY <1>1, <1>3 DEF UploadsInv, QU!TempsAccounted
<1>7. ListsTrue'
  BY <1>1, <1>2 DEF UploadsInv, ListsTrue, QU!There
<1> QED BY <1>4, <1>5, <1>6, <1>7 DEF UploadsInv

\* The steps after which the service has the file.
LEMMA FileThere ==
  ASSUME QuarkAssumption, UploadsInv,
         (QU!Hash /\ up'.at # "parts") \/ QU!Commit \/ QU!FailsLate
  PROVE  UploadsInv'
<1>1. /\ UNCHANGED <<ups, tempfiles, uploadkids, lister>>
      /\ up.at \in {"hash", "parts"} /\ up \in UploadRecords /\ (up.at = "parts" => up.left = 0)
      /\ ups # 0 /\ ups \in 0 .. MaxUploads
  BY DEF QU!Hash, QU!Commit, QU!FailsLate, QU!Goes, UploadsInv, UploadsTyped, UploadRecords, UploadStates
<1>2. up.size \in 0 .. MaxUploadSize /\ ups \in 1 .. MaxUploads
  BY <1>1 DEF UploadRecords, UploadStates, QuarkAssumption
<1>3. quarkheld' = [quarkheld EXCEPT ![ups] = QU!Bytes(up.size)]
  <2>1. CASE QU!Hash /\ up'.at # "parts"
    BY <1>1, <2>1 DEF QU!Hash, QU!Goes, UploadRecords, UploadStates
  <2>2. CASE QU!Commit
    <3>1. up.parts = QU!Bytes(up.size - 0)
      BY <2>2 DEF QU!Commit, UploadsInv, PartsInOrder
    <3>2. up.size - 0 = up.size
      BY <1>2
    <3> QED BY <2>2, <3>1, <3>2 DEF QU!Commit
  <2>3. CASE QU!FailsLate
    BY <2>3 DEF QU!FailsLate
  <2> QED BY <2>1, <2>2, <2>3
<1>4. /\ up' \in UploadRecords
      /\ \/ /\ up'.at \in {"known", "finish"} /\ up'.size = up.size /\ up'.left <= up'.size
            /\ broken' = broken /\ misled' = misled
         \/ up'.at = "rest" /\ broken' = broken \cup {ups} /\ misled' = TRUE
  <2>1. CASE ~QU!FailsLate
    <3>1. PICK at \in {"known", "finish"} : up' = [up EXCEPT !.at = at]
      BY <1>1, <2>1 DEF QU!Hash, QU!Commit, QU!Goes, UploadRecords, UploadStates
    <3>2. broken' = broken /\ misled' = misled
      BY <2>1 DEF QU!Hash, QU!Commit
    <3>3. up.left <= up.size
      BY <1>1 DEF UploadsInv, UploadsTyped
    <3> QED BY <1>1, <3>1, <3>2, <3>3 DEF UploadRecords, UploadStates
  <2>2. CASE QU!FailsLate
    <3>1. up' = [at |-> "rest"] /\ broken' = broken \cup {ups} /\ misled' = TRUE
      BY <2>2 DEF QU!FailsLate
    <3> QED BY <3>1 DEF UploadRecords
  <2> QED BY <2>1, <2>2
<1>5. QU!Bytes(up.size) \in Content /\ QU!Bytes(up.size) # Unknown
  BY <1>2, BytesTyped
<1>6. /\ quarkheld' \in [1 .. MaxUploads -> Content \cup {Unknown}]
      /\ quarkheld'[ups] = QU!Bytes(up.size)
      /\ \A f \in 1 .. MaxUploads \ {ups} : quarkheld'[f] = quarkheld[f]
  BY <1>2, <1>3, <1>5 DEF UploadsInv, UploadsTyped
<1>7. UploadsTyped'
  <2>1. misled' \in BOOLEAN
    BY <1>4, Zenon DEF UploadsInv, UploadsTyped
  <2>2. broken' \subseteq 1 .. MaxUploads
    BY <1>2, <1>4 DEF UploadsInv, UploadsTyped
  <2> QED BY <1>1, <1>4, <1>6, <2>1, <2>2 DEF UploadsInv, UploadsTyped
<1>8. PartsInOrder'
  <2>1. \A f \in 1 .. ups : f \in 1 .. MaxUploads
    BY <1>2 DEF QuarkAssumption
  <2> QED BY <1>1, <1>4, <1>5, <1>6, <2>1 DEF UploadsInv, PartsInOrder
<1>9. QU!TempsAccounted' /\ ListsTrue'
  BY <1>1, <1>4 DEF UploadsInv, QU!TempsAccounted, ListsTrue
<1> QED BY <1>7, <1>8, <1>9 DEF UploadsInv

LEMMA EndKeeps ==
  ASSUME QuarkAssumption, UploadsInv, QU!End \/ QU!Fails
  PROVE  UploadsInv'
<1>1. /\ UNCHANGED <<ups, quarkheld, lister>> /\ up' = [at |-> "rest"] /\ up.at # "rest"
      /\ \/ /\ up.at = "known" /\ tempfiles' = tempfiles \ {ups} /\ uploadkids' = Unknown
            /\ broken' = broken
         \/ /\ up.at # "known" /\ tempfiles' = tempfiles /\ uploadkids' = uploadkids
            /\ broken' = broken \cup {ups}
  BY DEF QU!End, QU!Fails
<1>2. /\ misled' \in BOOLEAN
      /\ ~misled' => \/ up.at = "known" /\ lister = Unknown
                     \/ up.at \notin {"known", "finish"} /\ ~misled
  <2>1. CASE QU!End
    <3>1. misled' = (lister # Unknown) /\ up.at = "known"
      BY <2>1 DEF QU!End
    <3> QED BY <3>1, Zenon
  <2>2. CASE QU!Fails
    <3>1. misled' = (misled \/ up.at = "finish") /\ up.at # "known"
      BY <2>2 DEF QU!Fails
    <3> QED BY <3>1, Zenon
  <2> QED BY <2>1, <2>2
<1>3. ups # 0 /\ ups \in 0 .. MaxUploads
  BY <1>1 DEF UploadsInv, UploadsTyped
<1>4. up' \in UploadRecords /\ up'.at = "rest"
  BY <1>1 DEF UploadRecords
<1>5. UploadsTyped'
  <2>1. ups \in 1 .. MaxUploads
    BY <1>3 DEF QuarkAssumption
  <2>2. /\ tempfiles' \subseteq 1 .. MaxUploads /\ broken' \subseteq 1 .. MaxUploads
        /\ uploadkids' \in {Unknown} \cup SUBSET (1 .. MaxUploads)
    BY <1>1, <2>1 DEF UploadsInv, UploadsTyped
  <2> QED BY <1>1, <1>2, <1>4, <2>2 DEF UploadsInv, UploadsTyped
<1>6. PartsInOrder'
  <2>1. up.at = "known" => quarkheld[ups] # Unknown
    <3>1. up.at = "known" => up.size \in 0 .. MaxUploadSize
      BY DEF UploadsInv, UploadsTyped, UploadRecords, UploadStates
    <3> QED BY <3>1, BytesTyped DEF UploadsInv, PartsInOrder
  <2> QED BY <1>1, <1>4, <2>1 DEF UploadsInv, PartsInOrder
<1>7. QU!TempsAccounted'
  BY <1>1, <1>4 DEF UploadsInv, QU!TempsAccounted
<1>8. ListsTrue'
  BY <1>1, <1>2, <1>4 DEF UploadsInv, ListsTrue, QU!There
<1> QED BY <1>5, <1>6, <1>7, <1>8 DEF UploadsInv

LEMMA ListingKeeps ==
  ASSUME QuarkAssumption, UploadsInv, QU!List \/ QU!Keep
  PROVE  UploadsInv'
<1>1. /\ UNCHANGED <<up, ups, quarkheld, tempfiles, broken>>
      /\ \/ lister' = QU!There /\ uploadkids' = uploadkids /\ uploadkids = Unknown
         \/ lister' = Unknown /\ uploadkids' = lister
      /\ QU!There' = QU!There /\ QU!There \subseteq 1 .. MaxUploads
  BY DEF QU!List, QU!Keep, QU!There
<1>2. misled' \in BOOLEAN /\ (~misled' => ~misled \/ (uploadkids' = QU!There' /\ lister' = Unknown))
  <2>1. CASE QU!List
    BY <2>1, Zenon DEF QU!List, UploadsInv, UploadsTyped
  <2>2. CASE QU!Keep
    <3>1. misled' = (misled /\ uploadkids' # QU!There) /\ lister' = Unknown
      BY <2>2 DEF QU!Keep
    <3> QED BY <3>1, <1>1, Zenon
  <2> QED BY <2>1, <2>2
<1>3. UploadsTyped'
  <2>1. /\ lister' \in {Unknown} \cup SUBSET (1 .. MaxUploads)
        /\ uploadkids' \in {Unknown} \cup SUBSET (1 .. MaxUploads)
    <3>1. lister \in {Unknown} \cup SUBSET (1 .. MaxUploads)
      BY DEF UploadsInv, UploadsTyped
    <3>2. QU!There \in SUBSET (1 .. MaxUploads)
      BY <1>1
    <3> QED BY <1>1, <3>1, <3>2
  <2> QED BY <1>1, <1>2, <2>1 DEF UploadsInv, UploadsTyped
<1>4. PartsInOrder' /\ QU!TempsAccounted'
  BY <1>1 DEF UploadsInv, PartsInOrder, QU!TempsAccounted
<1>5. ListsTrue'
  BY <1>1, <1>2 DEF UploadsInv, ListsTrue
<1> QED BY <1>3, <1>4, <1>5 DEF UploadsInv

LEMMA UploadsKept ==
  ASSUME QuarkAssumption, UploadsInv, [QU!Next]_quarkvars
  PROVE  UploadsInv'
<1>1. CASE UNCHANGED quarkvars
  BY <1>1 DEF quarkvars, UploadsInv, UploadsTyped, PartsInOrder, QU!TempsAccounted, ListsTrue, QU!There
<1>2. CASE QU!Next
  BY <1>2, BeginKeeps, ProgressKeeps, FileThere, EndKeeps, ListingKeeps DEF QU!Next
<1> QED BY <1>1, <1>2

LEMMA UploadsInvServes ==
  ASSUME QuarkAssumption, UploadsInv
  PROVE  QuarkUploadsWhole
<1>1. QU!TypeOK
  BY DEF QU!TypeOK, UploadsInv, UploadsTyped, UploadRecords, UploadStates, QuarkAssumption
<1>2. QU!WholeInOrder
  <2>1. ASSUME NEW f \in 1 .. ups, quarkheld[f] # Unknown
        PROVE  \E n \in 0 .. MaxUploadSize : quarkheld[f] = QU!Bytes(n)
    <3>1. f \in 1 .. MaxUploads
      BY DEF UploadsInv, UploadsTyped, QuarkAssumption
    <3>2. quarkheld[f] \in Content
      BY <2>1, <3>1 DEF UploadsInv, UploadsTyped
    <3> QED BY <3>2 DEF Content
  <2>2. ASSUME NEW f \in 1 .. ups
        PROVE  f \in broken \/ quarkheld[f] # Unknown \/ (f = ups /\ up.at # "rest")
    BY DEF UploadsInv, PartsInOrder
  <2>3. up.at \in {"known", "finish"} => quarkheld[ups] = QU!Bytes(up.size)
    BY DEF UploadsInv, PartsInOrder
  <2> QED BY <2>1, <2>2, <2>3 DEF QU!WholeInOrder
<1>3. QU!TempsAccounted /\ QU!KidsCached
  BY DEF UploadsInv, ListsTrue, QU!KidsCached
<1> QED BY <1>1, <1>2, <1>3 DEF QuarkUploadsWhole

\* quark.py: whatever the sizes of files and parts, and whichever request of an upload fails,
\* a file that the service has holds the bytes given, in order; the temporary files left are
\* those of uploads that failed; a cached directory lists what it holds, but where a listing
\* or a failure left it known to be wrong.
THEOREM UploadsAreWhole == Spec => []QuarkUploadsWhole
<1>1. Init => UploadsInv
  BY QuarkAssumption, UploadsBegin DEF Init
<1>2. UploadsInv /\ [Next]_vars => UploadsInv'
  BY QuarkAssumption, Turns, UploadsKept
<1>3. UploadsInv => QuarkUploadsWhole
  BY QuarkAssumption, UploadsInvServes
<1> QED BY <1>1, <1>2, <1>3, PTL DEF Spec
-----------------------------------------------------------------------------
(* ByteStreams: stream_file of every provider.                              *)

\* The bytes of a file from f on, k of them, and how many there are from f to t.
Run(f, k) == [i \in 1 .. k |-> f + i - 1]
Count(f, t, n) == LET k == BS!Least(t, n - 1) - f + 1 IN IF k > 0 THEN k ELSE 0
Last(a, n) == IF a.to = Blank THEN n - 1 ELSE a.to

\* What is got for an answer that is not in segments.
Got(d, a, n, honours) ==
    IF d \in {"local", "telegram"} THEN a ELSE BS!Upstream(a.asks, n, honours)
\* What can be told beforehand of the answers whose bodies are not what they say.
Askew(d, a, n, h, honours) ==
    \/ ~honours /\ a.asks.unit = "bytes" /\ d # "quark"
    \/ h.to # Blank /\ h.to < BS!From(h)
    \/ d = "alist" /\ n = 0
InSegments(d, a) == d = "webdav" /\ a.asks.unit = "bytes"

\* An answer as long as it says, for which the service sends just that part.
Fits(d, a, n, h, honours) ==
    ~Askew(d, a, n, h, honours) =>
        /\ a.from \in Nat /\ a.to \in Int \cup {Blank}
        /\ a.length # Blank => a.length = Count(a.from, Last(a, n), n)
        /\ ~InSegments(d, a) =>
             LET u == Got(d, a, n, honours) IN
             u.status < 400 => /\ Count(u.from, u.to, n) = Count(a.from, Last(a, n), n)
                               /\ Count(u.from, u.to, n) = 0 \/ u.from = a.from
                               /\ u.from \in Nat /\ u.to \in Int

LEMMA HeadersTyped ==
  ASSUME StreamsAssumption, NEW h \in BS!Headers
  PROVE  /\ h.unit \in {"none", "bytes", "other"} /\ h.bad \in BOOLEAN
         /\ h.from \in Nat \cup {Blank} /\ h.to \in Nat \cup {Blank}
         /\ h.unit = "none" \/ h.bad => h.from = Blank /\ h.to = Blank
         /\ h.unit = "none" => ~h.bad
<1>1. BS!Numbers \subseteq Nat
  BY DEF BS!Numbers, StreamsAssumption
<1>2. CASE h \in [unit : {"none"}, bad : {FALSE}, from : {Blank}, to : {Blank}]
  BY <1>2
<1>3. CASE h \in [unit : {"bytes", "other"}, bad : {TRUE}, from : {Blank}, to : {Blank}]
  BY <1>3
<1>4. CASE h \in [unit : {"bytes", "other"}, bad : {FALSE}, from : BS!Numbers \cup {Blank},
                  to : BS!Numbers \cup {Blank}]
  BY <1>1, <1>4
<1> QED BY <1>2, <1>3, <1>4 DEF BS!Headers

LEMMA PartFields ==
  ASSUME NEW f, NEW t
  PROVE  /\ BS!Part(f, t).status = 206 /\ BS!Part(f, t).from = f /\ BS!Part(f, t).to = t
         /\ BS!Part(f, t).length = t - f + 1 /\ BS!Part(f, t).asks = BS!Bytes(f, t)
         /\ BS!Bytes(f, t).unit = "bytes" /\ ~BS!Bytes(f, t).bad
         /\ BS!Bytes(f, t).from = f /\ BS!Bytes(f, t).to = t
BY DEF BS!Part, BS!Answer, BS!Bytes

LEMMA WholeFields ==
  ASSUME NEW n
  PROVE  /\ BS!Whole(n).status = 200 /\ BS!Whole(n).from = 0 /\ BS!Whole(n).to = n - 1
         /\ BS!Whole(n).length = n /\ BS!Whole(n).asks = BS!NoHeader
         /\ BS!NoHeader.unit = "none" /\ BS!Refuse(n).status = n
BY DEF BS!Whole, BS!Refuse, BS!Answer, BS!NoHeader

\* What services answer to a range within the file, and to one of all of it.
LEMMA UpstreamPart ==
  ASSUME StreamsAssumption, NEW n \in Nat, NEW f \in Nat, NEW t \in Nat, f <= t, t < n
  PROVE  BS!Upstream(BS!Bytes(f, t), n, TRUE) = BS!Part(f, t)
BY PartFields DEF BS!Upstream, BS!To, BS!Least, StreamsAssumption

LEMMA UpstreamAll ==
  ASSUME StreamsAssumption, NEW n \in Nat, NEW last \in Int, last = n - 1
  PROVE  /\ BS!Upstream(BS!Bytes(0, last), n, TRUE).from = 0
         /\ BS!Upstream(BS!Bytes(0, last), n, TRUE).to = last
<1> DEFINE b == BS!Bytes(0, last)
<1>1. CASE last < 0
  <2>1. b.from = 0 /\ b.to = last /\ b.unit = "bytes" /\ ~b.bad
    BY PartFields
  <2>2. b.from # Blank /\ b.to # Blank /\ b.to < b.from
    BY <1>1, <2>1 DEF StreamsAssumption
  <2> HIDE DEF b
  <2>3. BS!Upstream(b, n, TRUE) = BS!Whole(n)
    BY <2>1, <2>2 DEF BS!Upstream
  <2>4. BS!Whole(n).from = 0 /\ BS!Whole(n).to = last
    BY WholeFields
  <2> QED BY <2>3, <2>4 DEF b
<1>2. CASE ~(last < 0)
  <2>1. last \in Nat /\ 0 <= last /\ last < n
    BY <1>2
  <2>2. ASSUME NEW f \in Nat, f = 0
        PROVE  BS!Upstream(BS!Bytes(f, last), n, TRUE) = BS!Part(f, last)
    <3>1. f <= last /\ last < n /\ last \in Nat
      BY <2>1, <2>2
    <3> QED BY <3>1, UpstreamPart, Zenon
  <2>4. 0 \in Nat
    OBVIOUS
  <2>3. BS!Part(0, last).from = 0 /\ BS!Part(0, last).to = last
    BY PartFields
  <2> QED BY <2>2, <2>3, <2>4, Zenon
<1> QED BY <1>1, <1>2

LEMMA UpstreamNone ==
  ASSUME NEW n, NEW honours
  PROVE  BS!Upstream(BS!NoHeader, n, honours) = BS!Whole(n)
BY WholeFields DEF BS!Upstream

\* A service that knows ranges, asked for one that begins at a byte.
LEMMA UpstreamLegal ==
  ASSUME StreamsAssumption, NEW n \in Nat, NEW h \in BS!Headers, BS!Legal(h)
  PROVE  BS!Upstream(h, n, TRUE) = IF h.from >= n THEN BS!Refuse(416)
                                  ELSE BS!Part(h.from, BS!Least(BS!To(h, n), n - 1))
BY HeadersTyped DEF BS!Upstream, BS!Legal, StreamsAssumption

LEMMA FitPart ==
  ASSUME StreamsAssumption, NEW d, d # "quark", NEW n \in Nat, NEW h, NEW honours \in BOOLEAN,
         NEW f \in Nat, NEW t \in Nat, f <= t, t < n
  PROVE  Fits(d, BS!Part(f, t), n, h, honours)
<1> SUFFICES ASSUME ~Askew(d, BS!Part(f, t), n, h, honours)
             PROVE  /\ t - f + 1 = Count(f, t, n)
                    /\ Last(BS!Part(f, t), n) = t
                    /\ Got(d, BS!Part(f, t), n, honours) = BS!Part(f, t)
  BY PartFields DEF Fits
<1>1. t - f + 1 = Count(f, t, n) /\ Last(BS!Part(f, t), n) = t
  BY PartFields DEF Count, Last, BS!Least, StreamsAssumption
<1>2. honours = TRUE
  BY PartFields DEF Askew
<1>3. BS!Part(f, t).asks = BS!Bytes(f, t)
  BY PartFields
<1>4. BS!Upstream(BS!Bytes(f, t), n, honours) = BS!Part(f, t)
  BY <1>2, UpstreamPart
<1>5. Got(d, BS!Part(f, t), n, honours) = BS!Part(f, t)
  BY <1>3, <1>4 DEF Got
<1> QED BY <1>1, <1>5

LEMMA FitWhole ==
  ASSUME StreamsAssumption, NEW d, d # "quark", NEW n \in Nat, NEW h, NEW honours \in BOOLEAN, NEW a,
         a.from = 0, a.to = n - 1, a.length \in {n, Blank},
         a.asks \in {BS!NoHeader, BS!Bytes(0, n - 1)}
  PROVE  Fits(d, a, n, h, honours)
<1>1. Last(a, n) = n - 1 /\ Count(0, n - 1, n) = n
  BY DEF Count, Last, BS!Least, StreamsAssumption
<1>2. ASSUME ~Askew(d, a, n, h, honours)
      PROVE  Got(d, a, n, honours).from = 0 /\ Got(d, a, n, honours).to = n - 1
  <2>1. CASE d \in {"local", "telegram"}
    BY <2>1 DEF Got
  <2>2. CASE a.asks = BS!NoHeader
    BY <2>1, <2>2, UpstreamNone, WholeFields DEF Got
  <2>3. CASE a.asks = BS!Bytes(0, n - 1)
    <3>1. honours = TRUE
      BY <1>2, <2>3, PartFields DEF Askew
    <3>2. BS!Upstream(BS!Bytes(0, n - 1), n, TRUE).from = 0 /\ BS!Upstream(BS!Bytes(0, n - 1), n, TRUE).to = n - 1
      <4>1. PICK last \in Int : last = n - 1
        OBVIOUS
      <4>2. BS!Upstream(BS!Bytes(0, last), n, TRUE).from = 0 /\ BS!Upstream(BS!Bytes(0, last), n, TRUE).to = last
        BY <4>1, UpstreamAll
      <4> QED BY <4>1, <4>2
    <3> QED BY <2>1, <2>3, <3>1, <3>2 DEF Got
  <2> QED BY <2>2, <2>3
<1> QED BY <1>1, <1>2 DEF Fits

\* local.py, ftp.py, sftp.py and alist.py ask for what they found; googledrive.py and
\* onedrive.py for a range at all events.
LEMMA LocalFits ==
  ASSUME StreamsAssumption, NEW d \in Streamers, d # "quark", NEW n \in Nat, NEW h \in BS!Headers,
         NEW honours \in BOOLEAN, BS!LocalStream(h, n).status < 400
  PROVE  /\ Fits(d, BS!LocalStream(h, n), n, h, honours)
         /\ Fits(d, BS!GdriveStream(h, n), n, h, honours)
<1> DEFINE a == BS!LocalStream(h, n)
<1>1. CASE h.unit # "bytes"
  <2>1. a = BS!Whole(n)
    BY <1>1 DEF BS!LocalStream
  <2>2. Fits(d, a, n, h, honours)
    BY <2>1, WholeFields, FitWhole
  <2>3. /\ BS!GdriveStream(h, n).from = 0 /\ BS!GdriveStream(h, n).to = n - 1
        /\ BS!GdriveStream(h, n).length = n /\ BS!GdriveStream(h, n).asks = BS!Bytes(0, n - 1)
    BY <2>1 DEF BS!GdriveStream, BS!Whole, BS!Answer
  <2>4. Fits(d, BS!GdriveStream(h, n), n, h, honours)
    BY <2>3, FitWhole
  <2> QED BY <2>2, <2>4
<1>2. CASE h.unit = "bytes"
  <2> DEFINE f == BS!From(h)  t == BS!Least(BS!To(h, n), n - 1)
  <2>1. a = BS!Part(f, t) /\ f < n
    <3>1. BS!Refuse(400).status = 400 /\ BS!Refuse(416).status = 416
      BY WholeFields
    <3>2. f \in Nat
      BY HeadersTyped DEF BS!From
    <3> QED BY <1>2, <3>1, <3>2 DEF BS!LocalStream
  <2>2. BS!GdriveStream(h, n) = a
    BY <2>1, PartFields DEF BS!GdriveStream
  <2>3. f \in Nat /\ BS!To(h, n) \in Int /\ t \in Int /\ t < n
    BY HeadersTyped DEF BS!From, BS!To, BS!Least
  <2>4. CASE h.to # Blank /\ h.to < f
    BY <2>2, <2>4 DEF Fits, Askew
  <2>5. CASE ~(h.to # Blank /\ h.to < f)
    <3>1. f <= BS!To(h, n)
      BY <2>1, <2>3, <2>5, HeadersTyped DEF BS!To
    <3>2. f <= t /\ t \in Nat
      BY <3>1, <2>1, <2>3 DEF BS!Least
    <3> QED BY <2>1, <2>2, <2>3, <3>2, FitPart
  <2> QED BY <2>4, <2>5
<1> QED BY <1>1, <1>2

LEMMA AlistFits ==
  ASSUME StreamsAssumption, "alist" \in Streamers, NEW n \in Nat, NEW h \in BS!Headers,
         NEW honours \in BOOLEAN, BS!AlistStream(h, n).status < 400
  PROVE  Fits("alist", BS!AlistStream(h, n), n, h, honours)
<1>1. CASE n = 0
  BY <1>1 DEF Fits, Askew
<1>2. CASE n > 0
  <2>1. BS!AlistStream(h, n) = BS!LocalStream(h, n)
    BY <1>2 DEF BS!AlistStream, BS!LocalStream
  <2> QED BY <2>1, LocalFits
<1> QED BY <1>1, <1>2

\* s3.py and telegram.py: what is not refused is within the file.
LEMMA S3Fits ==
  ASSUME StreamsAssumption, NEW d \in Streamers, d # "quark", NEW n \in Nat, NEW h \in BS!Headers,
         NEW honours \in BOOLEAN
  PROVE  /\ BS!S3Stream(h, n).status < 400 => Fits(d, BS!S3Stream(h, n), n, h, honours)
         /\ BS!TelegramStream(h, n).status < 400 => Fits(d, BS!TelegramStream(h, n), n, h, honours)
<1>1. ASSUME BS!S3Stream(h, n).status < 400
      PROVE  Fits(d, BS!S3Stream(h, n), n, h, honours)
  <2>1. CASE h.unit = "none"
    <3>1. /\ BS!S3Stream(h, n).from = 0 /\ BS!S3Stream(h, n).to = n - 1
          /\ BS!S3Stream(h, n).length = n /\ BS!S3Stream(h, n).asks = BS!Bytes(0, n - 1)
      BY <2>1 DEF BS!S3Stream, BS!Whole, BS!Answer
    <3> QED BY <3>1, FitWhole
  <2>2. CASE h.unit # "none"
    <3> DEFINE f == BS!From(h)  t == BS!To(h, n)
    <3>1. BS!S3Stream(h, n) = BS!Part(f, t) /\ ~(f >= n \/ t >= n \/ f > t)
      BY <1>1, <2>2, WholeFields DEF BS!S3Stream
    <3>2. f \in Nat /\ t \in Int
      BY HeadersTyped DEF BS!From, BS!To
    <3>3. t \in Nat /\ f <= t /\ t < n
      BY <3>1, <3>2
    <3> QED BY <3>1, <3>2, <3>3, FitPart
  <2> QED BY <2>1, <2>2
<1>2. ASSUME BS!TelegramStream(h, n).status < 400
      PROVE  Fits(d, BS!TelegramStream(h, n), n, h, honours)
  <2>1. CASE n = 0
    BY <2>1, WholeFields, FitWhole DEF BS!TelegramStream
  <2>2. CASE n # 0
    BY <2>2, <1>1, <1>2 DEF BS!TelegramStream
  <2> QED BY <2>1, <2>2
<1> QED BY <1>1, <1>2

LEMMA PikpakFits ==
  ASSUME StreamsAssumption, "pikpak" \in Streamers, NEW n \in Nat, NEW h \in BS!Headers,
         NEW honours \in BOOLEAN, BS!PikpakStream(h, n).status < 400
  PROVE  Fits("pikpak", BS!PikpakStream(h, n), n, h, honours)
<1> DEFINE a == BS!PikpakStream(h, n)  f == BS!From(h)  t == BS!Least(BS!To(h, n), n - 1)
<1>1. CASE h.unit # "bytes"
  <2>1. a.from = 0 /\ a.to = n - 1 /\ a.length \in {n, Blank} /\ a.asks = BS!NoHeader
    BY <1>1 DEF BS!PikpakStream, BS!Whole, BS!Answer
  <2> QED BY <2>1, FitWhole
<1>2. CASE h.unit = "bytes" /\ n = 0
  <2>1. /\ a.from = f /\ a.to = h.to /\ a.length = Blank
        /\ a.asks = IF h.to = Blank THEN BS!NoHeader ELSE BS!Bytes(f, h.to)
    BY <1>2, WholeFields DEF BS!PikpakStream, BS!Answer
  <2>2. f \in Nat /\ (h.to # Blank => h.to \in Nat)
    BY HeadersTyped DEF BS!From
  <2>3. Count(a.from, Last(a, n), n) = 0
    BY <1>2, <2>1, <2>2 DEF Count, Last, BS!Least
  <2>4. CASE h.to = Blank
    <3>1. Got("pikpak", a, n, honours) = BS!Whole(n)
      BY <2>1, <2>4, UpstreamNone DEF Got
    <3>2. Count(0, n - 1, n) = 0
      BY <1>2 DEF Count, BS!Least
    <3>3. a.from \in Nat /\ a.to \in Int \cup {Blank} /\ 0 \in Nat /\ n - 1 \in Int
      BY <2>1, <2>2, <2>4
    <3> QED BY <1>2, <2>1, <2>3, <3>1, <3>2, <3>3, WholeFields DEF Fits
  <2>5. CASE h.to # Blank /\ ~Askew("pikpak", a, n, h, honours)
    <3>1. honours = TRUE /\ ~(h.to < f)
      BY <2>1, <2>5, PartFields DEF Askew
    <3>2. BS!Upstream(BS!Bytes(f, h.to), n, TRUE) = BS!Refuse(416)
      BY <1>2, <2>2, <2>5, <3>1, PartFields DEF BS!Upstream, StreamsAssumption
    <3>3. Got("pikpak", a, n, honours) = BS!Refuse(416)
      BY <2>1, <2>5, <3>1, <3>2 DEF Got
    <3>4. BS!Refuse(416).status = 416
      BY WholeFields
    <3> QED BY <2>1, <2>2, <3>3, <3>4 DEF Fits
  <2>6. CASE Askew("pikpak", a, n, h, honours)
    BY <2>6 DEF Fits
  <2> QED BY <2>4, <2>5, <2>6
<1>3. CASE h.unit = "bytes" /\ n # 0
  <2>1. a = BS!Part(f, t) /\ ~(f >= n \/ f > t)
    BY <1>3, WholeFields DEF BS!PikpakStream
  <2>2. f \in Nat /\ BS!To(h, n) \in Int
    BY HeadersTyped DEF BS!From, BS!To
  <2>3. t \in Nat /\ f <= t /\ t < n
    BY <2>1, <2>2 DEF BS!Least
  <2> QED BY <2>1, <2>2, <2>3, FitPart
<1> QED BY <1>1, <1>2, <1>3

\* An answer that is the service's own, and what is asked of it next is the same.
LEMMA UpstreamLength ==
  ASSUME StreamsAssumption, NEW n \in Nat, NEW honours \in BOOLEAN, NEW h,
         h.from \in Nat \cup {Blank}, h.to \in Nat \cup {Blank}
  PROVE  LET u == BS!Upstream(h, n, honours) IN
         u.status < 400 => /\ u.from \in Nat /\ u.to \in Int /\ u.to # Blank
                           /\ u.length = Count(u.from, u.to, n)
<1>1. BS!Refuse(416).status = 416
  BY WholeFields
<1>2. CASE BS!Upstream(h, n, honours) = BS!Whole(n)
  <2>1. n - 1 \in Int /\ n = Count(0, n - 1, n) /\ 0 \in Nat
    BY DEF Count, BS!Least
  <2> QED BY <1>2, <2>1, WholeFields DEF StreamsAssumption
<1>3. ASSUME NEW f \in Nat, NEW t \in Nat, f <= t, t < n, BS!Upstream(h, n, honours) = BS!Part(f, t)
      PROVE  LET u == BS!Upstream(h, n, honours) IN
             /\ u.from \in Nat /\ u.to \in Int /\ u.to # Blank
             /\ u.length = Count(u.from, u.to, n)
  <2>1. t - f + 1 = Count(f, t, n) /\ t \in Int /\ t # Blank
    BY <1>3 DEF Count, BS!Least, StreamsAssumption
  <2> QED BY <1>3, <2>1, PartFields
<1>4. CASE ~honours \/ h.unit # "bytes" \/ h.bad \/ (h.from = Blank /\ h.to = Blank)
                \/ (h.from # Blank /\ h.to # Blank /\ h.to < h.from)
  BY <1>2, <1>4 DEF BS!Upstream
<1>5. CASE ~(~honours \/ h.unit # "bytes" \/ h.bad \/ (h.from = Blank /\ h.to = Blank)
                \/ (h.from # Blank /\ h.to # Blank /\ h.to < h.from))
  <2>1. CASE h.from = Blank
    <3>1. h.to \in Nat
      BY <1>5, <2>1
    <3>2. CASE h.to = 0 \/ n = 0
      <4>1. BS!Upstream(h, n, honours) = BS!Refuse(416)
        BY <1>5, <2>1, <3>2 DEF BS!Upstream
      <4> QED BY <1>1, <4>1
    <3>3. CASE ~(h.to = 0 \/ n = 0)
      <4>1. PICK f \in Nat, t \in Nat : f = n - BS!Least(h.to, n) /\ t = n - 1 /\ f <= t /\ t < n
        BY <3>1, <3>3 DEF BS!Least
      <4>2. BS!Upstream(h, n, honours) = BS!Part(f, t)
        BY <1>5, <2>1, <3>3, <4>1 DEF BS!Upstream
      <4> QED BY <1>3, <4>1, <4>2
    <3> QED BY <3>2, <3>3
  <2>2. CASE h.from # Blank /\ h.from >= n
    <3>1. BS!Upstream(h, n, honours) = BS!Refuse(416)
      BY <1>5, <2>2 DEF BS!Upstream
    <3> QED BY <1>1, <3>1
  <2>3. CASE h.from # Blank /\ ~(h.from >= n)
    <3>1. PICK f \in Nat, t \in Nat :
            f = h.from /\ t = BS!Least(BS!To(h, n), n - 1) /\ f <= t /\ t < n
      <4>1. h.from \in Nat /\ h.from < n
        BY <2>3
      <4>2. BS!To(h, n) \in Nat /\ h.from <= BS!To(h, n)
        BY <1>5, <2>3, <4>1 DEF BS!To
      <4>3. BS!Least(BS!To(h, n), n - 1) \in Nat /\ h.from <= BS!Least(BS!To(h, n), n - 1)
            /\ BS!Least(BS!To(h, n), n - 1) < n
        BY <4>1, <4>2 DEF BS!Least
      <4> QED BY <4>1, <4>3
    <3>2. BS!Upstream(h, n, honours) = BS!Part(f, t)
      BY <1>5, <2>3, <3>1 DEF BS!Upstream
    <3> QED BY <1>3, <3>1, <3>2
  <2> QED BY <2>1, <2>2, <2>3
<1> QED BY <1>4, <1>5

\* quark.py, dropbox.py and foxel.py answer what the service does.
Passed(u, asks) == [u EXCEPT !.asks = asks]

LEMMA PassedFields ==
  ASSUME NEW h, NEW n, NEW honours, NEW asks
  PROVE  LET u == BS!Upstream(h, n, honours)  a == Passed(u, asks) IN
         /\ a.status = u.status /\ a.from = u.from /\ a.to = u.to /\ a.length = u.length /\ a.asks = asks
         /\ u.status \in {200, 206, 416}
BY DEF Passed, BS!Upstream, BS!Refuse, BS!Part, BS!Whole, BS!Answer

LEMMA PassedFits ==
  ASSUME StreamsAssumption, NEW d, d \in {"quark", "dropbox", "foxel"}, NEW n \in Nat,
         NEW honours \in BOOLEAN, NEW h, NEW asks,
         asks.from \in Nat \cup {Blank}, asks.to \in Nat \cup {Blank},
         BS!Upstream(asks, n, honours).status < 400
  PROVE  Fits(d, Passed(BS!Upstream(asks, n, honours), asks), n, h, honours)
<1> DEFINE u == BS!Upstream(asks, n, honours)
           a == Passed(u, asks)
<1>1. /\ a.status = u.status /\ a.from = u.from /\ a.to = u.to /\ a.length = u.length /\ a.asks = asks
  BY PassedFields
<1>2. u.from \in Nat /\ u.to \in Int /\ u.to # Blank /\ u.length = Count(u.from, u.to, n)
  BY UpstreamLength
<1>3. Got(d, a, n, honours) = u
  BY <1>1 DEF Got
<1>4. Last(a, n) = u.to
  BY <1>1, <1>2 DEF Last
<1> HIDE DEF u, a
<1>5. Fits(d, a, n, h, honours)
  BY <1>1, <1>2, <1>3, <1>4 DEF Fits
<1> QED BY <1>5 DEF u, a

LEMMA QuarkFits ==
  ASSUME StreamsAssumption, NEW n \in Nat, NEW h \in BS!Headers, NEW honours \in BOOLEAN,
         BS!QuarkStream(h, n, honours).status < 400
  PROVE  Fits("quark", BS!QuarkStream(h, n, honours), n, h, honours)
<1> DEFINE a == BS!PikpakStream(h, n)
           asks == IF a.status = 206 THEN BS!Bytes(a.from, a.to) ELSE BS!NoHeader
<1>1. CASE a.status >= 400
  <2>1. BS!QuarkStream(h, n, honours) = a
    BY <1>1 DEF BS!QuarkStream
  <2>2. a.status \in Nat
    BY WholeFields, PartFields DEF BS!PikpakStream, BS!Whole, BS!Answer, BS!Refuse, BS!Part
  <2> QED BY <1>1, <2>1, <2>2
<1>2. CASE ~(a.status >= 400)
  <2>1. asks.from \in Nat \cup {Blank} /\ asks.to \in Nat \cup {Blank}
    <3>1. BS!NoHeader.from = Blank /\ BS!NoHeader.to = Blank
      BY DEF BS!NoHeader
    <3>2. CASE a.status # 206
      BY <3>1, <3>2
    <3>3. CASE a.status = 206
      <4>1. asks.from = a.from /\ asks.to = a.to
        BY <3>3, PartFields
      <4>2. CASE n = 0
        <5>1. h.unit = "bytes" /\ a.from = BS!From(h) /\ a.to = h.to
          BY <3>3, <4>2, WholeFields DEF BS!PikpakStream, BS!Answer, BS!Whole, BS!Refuse
        <5> QED BY <4>1, <5>1, HeadersTyped DEF BS!From
      <4>3. CASE n # 0
        <5> DEFINE f == BS!From(h)  t == BS!Least(BS!To(h, n), n - 1)
        <5>1. a = BS!Part(f, t) /\ ~(f >= n \/ f > t)
          BY <3>3, <4>3, WholeFields DEF BS!PikpakStream, BS!Whole, BS!Answer, BS!Refuse
        <5>2. f \in Nat /\ BS!To(h, n) \in Int
          BY HeadersTyped DEF BS!From, BS!To
        <5>3. t \in Nat
          BY <5>1, <5>2 DEF BS!Least
        <5> QED BY <4>1, <5>1, <5>2, <5>3, PartFields
      <4> QED BY <4>2, <4>3
    <3> QED BY <3>2, <3>3
  <2>2. BS!QuarkStream(h, n, honours) = Passed(BS!Upstream(asks, n, honours), asks)
    BY <1>2 DEF BS!QuarkStream, Passed
  <2> HIDE DEF asks
  <2>3. BS!Upstream(asks, n, honours).status < 400
    BY <2>2, PassedFields
  <2> QED BY <2>1, <2>2, <2>3, PassedFits
<1> QED BY <1>1, <1>2

LEMMA DropboxFits ==
  ASSUME StreamsAssumption, NEW d, d \in {"dropbox", "foxel"}, NEW n \in Nat, NEW h \in BS!Headers,
         NEW honours \in BOOLEAN, BS!DropboxStream(h, n, honours).status < 400
  PROVE  Fits(d, BS!DropboxStream(h, n, honours), n, h, honours)
<1>1. h.from \in Nat \cup {Blank} /\ h.to \in Nat \cup {Blank}
  BY HeadersTyped
<1>2. BS!DropboxStream(h, n, honours) = Passed(BS!Upstream(h, n, honours), h)
  BY DEF BS!DropboxStream, Passed
<1>3. d \in {"quark", "dropbox", "foxel"}
  OBVIOUS
<1>4. BS!Upstream(h, n, honours).status < 400
  BY <1>2, PassedFields
<1> QED BY <1>1, <1>2, <1>3, <1>4, PassedFits

\* webdav.py: from a number, to one or to where the service ends.
LEMMA WebdavFits ==
  ASSUME StreamsAssumption, NEW n \in Nat, NEW h \in BS!Headers, NEW given,
         given.honours \in BOOLEAN, given.length \in BOOLEAN, given.declares \in BOOLEAN,
         BS!WebdavStream(h, n, given).status < 400
  PROVE  LET a == BS!WebdavStream(h, n, given) IN
         /\ Fits("webdav", a, n, h, given.honours)
         /\ a.from \in Nat /\ a.length = Blank /\ a.to \in Int \cup {Blank}
         /\ a.to # Blank => a.from <= a.to
         /\ h.unit # "bytes" => a.from = 0
<1> DEFINE a == BS!WebdavStream(h, n, given)
           ranged == h.unit = "bytes"
           upto == IF ranged THEN h.to ELSE Blank
           first == IF ranged THEN BS!From(h) ELSE 0
           total == IF given.length \/ (upto = Blank /\ given.honours /\ n > 0) THEN n ELSE Blank
           end == IF upto = Blank /\ total # Blank THEN n - 1 ELSE upto
           asks == IF h.unit = "none" /\ ~given.declares THEN BS!NoHeader ELSE BS!Bytes(first, end)
<1>1. /\ first \in Nat /\ end \in Int \cup {Blank} /\ (end # Blank => first <= end)
      /\ a.from = first /\ a.to = end /\ a.length = Blank /\ a.asks = asks
  <2>1. first \in Nat /\ end \in Int \cup {Blank}
    BY HeadersTyped DEF BS!From
  <2>2. ~(ranged /\ h.bad) /\ ~(end # Blank /\ end < first)
    BY WholeFields DEF BS!WebdavStream
  <2>3. a = BS!Answer(IF ranged THEN 206 ELSE 200, first, end, Blank, asks)
    BY <2>2 DEF BS!WebdavStream
  <2> QED BY <2>1, <2>2, <2>3 DEF BS!Answer
<1>2. CASE InSegments("webdav", a)
  BY <1>1, <1>2 DEF Fits
<1>3. CASE ~InSegments("webdav", a)
  <2>1. h.unit = "none" /\ asks = BS!NoHeader
    BY <1>1, <1>3, PartFields DEF InSegments
  <2>2. first = 0 /\ end \in {n - 1, Blank}
    BY <2>1
  <2>3. Got("webdav", a, n, given.honours) = BS!Whole(n)
    BY <1>1, <2>1, UpstreamNone DEF Got
  <2>4. Last(a, n) = n - 1
    BY <1>1, <2>2 DEF Last
  <2>5. n - 1 \in Int
    OBVIOUS
  <2> QED BY <1>1, <2>2, <2>3, <2>4, <2>5, WholeFields DEF Fits
<1>4. h.unit # "bytes" => first = 0
  OBVIOUS
<1> QED BY <1>1, <1>2, <1>3, <1>4

LEMMA AnswersFit ==
  ASSUME StreamsAssumption, NEW d \in Streamers, NEW n \in Nat, NEW h \in BS!Headers,
         NEW given \in BS!Services(d), BS!Answered(d, h, n, given).status < 400
  PROVE  LET a == BS!Answered(d, h, n, given) IN
         /\ Fits(d, a, n, h, given.honours)
         /\ InSegments(d, a) => a.length = Blank /\ (a.to # Blank => a.from <= a.to)
<1> DEFINE a == BS!Answered(d, h, n, given)
<1>1. given.honours \in BOOLEAN /\ given.length \in BOOLEAN /\ given.declares \in BOOLEAN
  BY DEF BS!Services
<1>2. CASE d \in {"local", "ftp", "sftp"}
  <2>1. CASE d # "ftp" \/ given.length
    <3>1. a = BS!LocalStream(h, n)
      BY <1>2, <2>1 DEF BS!Answered, BS!FtpStream, BS!SftpStream
    <3> QED BY <1>1, <1>2, <3>1, LocalFits DEF InSegments
  <2>2. CASE d = "ftp" /\ ~given.length
    <3>1. a = [BS!Whole(n) EXCEPT !.length = Blank]
      BY <2>2 DEF BS!Answered, BS!FtpStream
    <3>2. a.from = 0 /\ a.to = n - 1 /\ a.length = Blank /\ a.asks = BS!NoHeader
      BY <3>1 DEF BS!Whole, BS!Answer
    <3>3. Fits(d, a, n, h, given.honours)
      BY <1>1, <2>2, <3>2, FitWhole
    <3> QED BY <2>2, <3>3 DEF InSegments
  <2> QED BY <2>1, <2>2
<1>3. CASE d \in {"googledrive", "onedrive"}
  <2>1. a = BS!GdriveStream(h, n)
    BY <1>3 DEF BS!Answered, BS!OnedriveStream
  <2>2. a.status = BS!LocalStream(h, n).status
    BY <2>1 DEF BS!GdriveStream, BS!LocalStream, BS!Whole, BS!Answer
  <2> QED BY <1>1, <1>3, <2>1, <2>2, LocalFits DEF InSegments
<1>4. CASE d = "alist"
  <2>1. a = BS!AlistStream(h, n)
    BY <1>4 DEF BS!Answered
  <2> QED BY <1>1, <1>4, <2>1, AlistFits DEF InSegments
<1>5. CASE d \in {"s3", "telegram"}
  <2>1. a = IF d = "s3" THEN BS!S3Stream(h, n) ELSE BS!TelegramStream(h, n)
    BY <1>5 DEF BS!Answered
  <2> QED BY <1>1, <1>5, <2>1, S3Fits DEF InSegments
<1>6. CASE d = "pikpak"
  <2>1. a = BS!PikpakStream(h, n)
    BY <1>6 DEF BS!Answered
  <2> QED BY <1>1, <1>6, <2>1, PikpakFits DEF InSegments
<1>7. CASE d = "quark"
  <2>1. a = BS!QuarkStream(h, n, given.honours)
    BY <1>7 DEF BS!Answered
  <2> QED BY <1>1, <1>7, <2>1, QuarkFits DEF InSegments
<1>8. CASE d \in {"dropbox", "foxel"}
  <2>1. a = BS!DropboxStream(h, n, given.honours)
    BY <1>8 DEF BS!Answered, BS!FoxelStream
  <2> QED BY <1>1, <1>8, <2>1, DropboxFits DEF InSegments
<1>9. CASE d = "webdav"
  <2>1. a = BS!WebdavStream(h, n, given)
    BY <1>9 DEF BS!Answered
  <2> QED BY <1>1, <1>9, <2>1, WebdavFits
<1> QED BY <1>2, <1>3, <1>4, <1>5, <1>6, <1>7, <1>8, <1>9 DEF StreamsAssumption

-----------------------------------------------------------------------------
\* What a body has, unless it is one of those that are not what they say.
Target(s) == IF InSegments(s.drive, s.ans)
             THEN LET e == s.seg + SegmentSize - 1 IN IF s.ans.to = Blank THEN e ELSE BS!Least(e, s.ans.to)
             ELSE Last(s.ans, s.size)
BodySoFar(s) ==
    LET first == s.ans.from IN
    /\ s.body \in Seq(Nat) /\ s.body = Run(first, Len(s.body)) /\ first \in Nat
    /\ s.at \in {"open", "body"} => /\ s.seg \in Nat /\ first <= s.seg
                                    /\ ~InSegments(s.drive, s.ans) => s.seg = first
                                    /\ InSegments(s.drive, s.ans) => s.ans.to = Blank \/ s.seg <= s.ans.to
    /\ s.at = "open" => s.left = <<>> /\ Len(s.body) = Count(first, s.seg - 1, s.size)
    /\ s.at = "body" => /\ s.left \in Seq(Nat) /\ s.left = Run(first + Len(s.body), Len(s.left))
                        /\ Len(s.body) + Len(s.left) = Count(first, Target(s), s.size)
                        /\ Len(s.body) >= Count(first, s.seg - 1, s.size)
    /\ s.at = "done" => Len(s.body) = Count(first, Last(s.ans, s.size), s.size)
Flawed(s) == Askew(s.drive, s.ans, s.size, s.ask, s.up.honours) \/ s.resent \/ s.given

StreamFields == {"at", "drive", "size", "ask", "up", "ans", "body", "left", "seg", "tries", "broken",
                 "resent", "given"}
StreamsInv ==
    \/ stream = [at |-> "idle"]
    \/ /\ DOMAIN stream = StreamFields
       /\ stream.at \in {"refused", "stuck", "open", "body", "done", "cut"}
       /\ stream.drive \in Streamers /\ stream.size \in 0 .. MaxSize /\ stream.ask \in BS!Headers
       /\ stream.up \in BS!Services(stream.drive)
       /\ stream.ans = BS!Answered(stream.drive, stream.ask, stream.size, stream.up)
       /\ stream.at \in {"open", "body", "done"} =>
            stream.ans.status < 400 /\ (~Flawed(stream) => BodySoFar(stream))

LEMMA SliceIsRun ==
  ASSUME NEW f \in Nat, NEW t \in Int, NEW n \in Nat
  PROVE  /\ BS!Slice(f, t, n) = Run(f, Count(f, t, n)) /\ Count(f, t, n) \in Nat
         /\ BS!Slice(f, t, n) \in Seq(Nat) /\ Len(BS!Slice(f, t, n)) = Count(f, t, n)
<1> DEFINE k == BS!Least(t, n - 1) - f + 1
<1>1. k \in Int /\ Count(f, t, n) = IF k > 0 THEN k ELSE 0
  BY DEF Count, BS!Least
<1>2. BS!Slice(f, t, n) = [i \in 1 .. k |-> f + i - 1]
  BY DEF BS!Slice
<1> HIDE DEF k
<1>3. 1 .. k = 1 .. Count(f, t, n) /\ Count(f, t, n) \in Nat
  BY <1>1
<1>4. BS!Slice(f, t, n) = Run(f, Count(f, t, n))
  BY <1>2, <1>3 DEF Run
<1>5. \A i \in 1 .. Count(f, t, n) : f + i - 1 \in Nat
  BY <1>3
<1> QED BY <1>3, <1>4, <1>5 DEF Run

\* The next byte of a run goes from what is left to what was sent.
LEMMA RunGrows ==
  ASSUME NEW f \in Nat, NEW body \in Seq(Nat), body = Run(f, Len(body)),
         NEW left \in Seq(Nat), left = Run(f + Len(body), Len(left)), left # <<>>
  PROVE  /\ Append(body, Head(left)) \in Seq(Nat) /\ Tail(left) \in Seq(Nat)
         /\ Append(body, Head(left)) = Run(f, Len(Append(body, Head(left))))
         /\ Tail(left) = Run(f + Len(Append(body, Head(left))), Len(Tail(left)))
         /\ Len(Append(body, Head(left))) + Len(Tail(left)) = Len(body) + Len(left)
         /\ Len(Append(body, Head(left))) >= Len(body)
<1>1. PICK k \in Nat : Len(body) = k
  OBVIOUS
<1>2. body = Run(f, k) /\ left = Run(f + k, Len(left))
  BY <1>1
<1>3. Len(left) \in Nat /\ Len(left) > 0 /\ Head(left) = left[1] /\ Head(left) \in Nat
  OBVIOUS
<1>4. Head(left) = f + k
  BY <1>2, <1>3 DEF Run
<1>5. Append(body, Head(left)) \in Seq(Nat) /\ Len(Append(body, Head(left))) = k + 1
  BY <1>1, <1>3
<1>6. Append(body, Head(left)) = Run(f, k + 1)
  <2>1. ASSUME NEW i \in 1 .. k + 1
        PROVE  Append(body, Head(left))[i] = f + i - 1
    <3>1. CASE i = k + 1
      BY <1>1, <1>3, <1>4, <3>1
    <3>2. CASE i # k + 1
      <4>1. i \in 1 .. k /\ Append(body, Head(left))[i] = body[i]
        BY <1>1, <1>3, <3>2
      <4>2. body[i] = f + i - 1
        BY <1>2, <4>1 DEF Run
      <4> QED BY <4>1, <4>2
    <3> QED BY <3>1, <3>2
  <2>2. Run(f, k + 1) \in Seq(Nat) /\ Len(Run(f, k + 1)) = k + 1
    <3>1. \A i \in 1 .. k + 1 : f + i - 1 \in Nat
      OBVIOUS
    <3> QED BY <3>1 DEF Run
  <2>3. \A i \in 1 .. k + 1 : Run(f, k + 1)[i] = f + i - 1
    BY DEF Run
  <2>4. \A i \in 1 .. Len(Append(body, Head(left))) : Append(body, Head(left))[i] = Run(f, k + 1)[i]
    BY <1>5, <2>1, <2>3
  <2>5. Len(Append(body, Head(left))) = Len(Run(f, k + 1))
    BY <1>5, <2>2
  <2> QED BY <1>5, <2>2, <2>4, <2>5, SeqEqual
<1>7. Tail(left) \in Seq(Nat) /\ Len(Tail(left)) = Len(left) - 1
  BY <1>3
<1>8. Tail(left) = Run(f + (k + 1), Len(left) - 1)
  <2> DEFINE m == Len(left) - 1
  <2>1. \A i \in 1 .. m : Tail(left)[i] = f + (k + 1) + i - 1
    <3>1. \A i \in 1 .. m : Tail(left)[i] = left[i + 1] /\ i + 1 \in 1 .. Len(left)
      BY <1>3
    <3>2. \A j \in 1 .. Len(left) : left[j] = f + k + j - 1
      BY <1>2 DEF Run
    <3> QED BY <3>1, <3>2
  <2>2. Run(f + (k + 1), m) \in Seq(Nat) /\ Len(Run(f + (k + 1), m)) = m
    <3>1. \A i \in 1 .. m : f + (k + 1) + i - 1 \in Nat
      BY <1>3
    <3>2. m \in Nat
      BY <1>3
    <3> HIDE DEF m
    <3> QED BY <3>1, <3>2 DEF Run
  <2>3. \A i \in 1 .. m : Run(f + (k + 1), m)[i] = f + (k + 1) + i - 1
    BY DEF Run
  <2> HIDE DEF m
  <2>4. Len(Tail(left)) = m
    BY <1>7 DEF m
  <2>5. Tail(left) = Run(f + (k + 1), m)
    BY <1>7, <2>1, <2>2, <2>3, <2>4, SeqEqual
  <2> QED BY <2>5 DEF m
<1>9. k + 1 + (Len(left) - 1) = k + Len(left) /\ k + 1 >= k
  BY <1>3
<1> QED BY <1>1, <1>5, <1>6, <1>7, <1>8, <1>9

LEMMA StatusTyped ==
  ASSUME StreamsAssumption, NEW d \in Streamers, NEW n, NEW h, NEW given
  PROVE  BS!Answered(d, h, n, given).status \in {200, 206, 400, 416, 500}
<1>1. BS!LocalStream(h, n).status \in {200, 206, 400, 416, 500}
  BY DEF BS!LocalStream, BS!Whole, BS!Part, BS!Refuse, BS!Answer
<1>2. BS!GdriveStream(h, n).status \in {200, 206, 400, 416, 500}
  BY <1>1 DEF BS!GdriveStream, BS!LocalStream, BS!Whole, BS!Answer
<1>3. BS!AlistStream(h, n).status \in {200, 206, 400, 416, 500}
  BY <1>1 DEF BS!AlistStream, BS!Whole, BS!Part, BS!Refuse, BS!Answer
<1>4. BS!S3Stream(h, n).status \in {200, 206, 400, 416, 500}
  BY DEF BS!S3Stream, BS!Whole, BS!Part, BS!Refuse, BS!Answer
<1>5. BS!TelegramStream(h, n).status \in {200, 206, 400, 416, 500}
  BY <1>4 DEF BS!TelegramStream, BS!Whole, BS!Answer
<1>6. BS!PikpakStream(h, n).status \in {200, 206, 400, 416, 500}
  BY DEF BS!PikpakStream, BS!Whole, BS!Part, BS!Refuse, BS!Answer
<1>7. BS!QuarkStream(h, n, given.honours).status \in {200, 206, 400, 416, 500}
  BY <1>6, PassedFields DEF BS!QuarkStream, Passed
<1>8. BS!DropboxStream(h, n, given.honours).status \in {200, 206, 400, 416, 500}
  BY PassedFields DEF BS!DropboxStream, Passed
<1>9. BS!WebdavStream(h, n, given).status \in {200, 206, 400, 416, 500}
  BY DEF BS!WebdavStream, BS!Refuse, BS!Answer
<1>10. BS!FtpStream(h, n, given.length).status \in {200, 206, 400, 416, 500}
  BY <1>1 DEF BS!FtpStream, BS!Whole, BS!Answer
<1> QED BY <1>1, <1>2, <1>3, <1>4, <1>5, <1>6, <1>7, <1>8, <1>9, <1>10
        DEF BS!Answered, BS!SftpStream, BS!OnedriveStream, BS!FoxelStream, StreamsAssumption

\* A step of a request that is under way.
Asked ==
    /\ DOMAIN stream = StreamFields /\ stream.at \in {"open", "body"}
    /\ stream.drive \in Streamers /\ stream.size \in 0 .. MaxSize /\ stream.size \in Nat
    /\ stream.ask \in BS!Headers /\ stream.up \in BS!Services(stream.drive)
    /\ stream.ans = BS!Answered(stream.drive, stream.ask, stream.size, stream.up)
    /\ stream.ans.status < 400 /\ (~Flawed(stream) => BodySoFar(stream))
Steps ==
    /\ DOMAIN stream' = StreamFields
    /\ stream'.drive = stream.drive /\ stream'.size = stream.size /\ stream'.ask = stream.ask
    /\ stream'.up = stream.up /\ stream'.ans = stream.ans

LEMMA AskedFits ==
  ASSUME StreamsAssumption, Asked
  PROVE  /\ Fits(stream.drive, stream.ans, stream.size, stream.ask, stream.up.honours)
         /\ InSegments(stream.drive, stream.ans) => stream.ans.length = Blank
<1>1. PICK d \in Streamers, n \in Nat, h \in BS!Headers :
        d = stream.drive /\ n = stream.size /\ h = stream.ask
  BY DEF Asked
<1>2. PICK given \in BS!Services(d) : given = stream.up
  BY <1>1 DEF Asked
<1>3. stream.ans = BS!Answered(d, h, n, given) /\ BS!Answered(d, h, n, given).status < 400
  BY <1>1, <1>2 DEF Asked
<1>4. /\ Fits(d, BS!Answered(d, h, n, given), n, h, given.honours)
      /\ InSegments(d, BS!Answered(d, h, n, given)) => BS!Answered(d, h, n, given).length = Blank
  BY <1>3, AnswersFit
<1> QED BY <1>1, <1>2, <1>3, <1>4

LEMMA StepKeeps ==
  ASSUME StreamsAssumption, Asked, Steps, stream'.at \in {"open", "body", "done", "cut"},
         stream'.at # "cut" /\ ~Flawed(stream') => BodySoFar(stream')
  PROVE  StreamsInv'
BY DEF StreamsInv, Asked, Steps

LEMMA AskKeeps ==
  ASSUME StreamsAssumption, stream = [at |-> "idle"], NEW d \in Streamers, NEW n \in 0 .. MaxSize,
         NEW h \in BS!Headers, NEW given \in BS!Services(d), BS!Ask(d, n, h, given)
  PROVE  StreamsInv'
<1> DEFINE a == BS!Answered(d, h, n, given)
           now == IF a.status >= 400 THEN "refused" ELSE IF d \in {"ftp", "sftp"} THEN "stuck" ELSE "open"
<1>1. stream' = [at |-> now, drive |-> d, size |-> n, ask |-> h, up |-> given, ans |-> a, body |-> <<>>,
                 left |-> <<>>, seg |-> a.from, tries |-> 0, broken |-> 0, resent |-> FALSE,
                 given |-> FALSE]
  BY DEF BS!Ask
<1> HIDE DEF a
<1>2. DOMAIN stream' = StreamFields
  BY <1>1 DEF StreamFields
<1>3. /\ stream'.at = now /\ stream'.drive = d /\ stream'.size = n /\ stream'.ask = h
      /\ stream'.up = given /\ stream'.ans = a /\ stream'.body = <<>> /\ stream'.left = <<>>
      /\ stream'.seg = a.from
  BY <1>1
<1>4. now \in {"refused", "stuck", "open"}
  OBVIOUS
<1>5. n \in Nat
  BY DEF StreamsAssumption
<1>6. now = "open" => a.status < 400
  BY StatusTyped DEF a
<1>7. ASSUME now = "open", ~Flawed(stream')
      PROVE  BodySoFar(stream')
  <2>1. a.from \in Nat
    BY <1>3, <1>5, <1>6, <1>7, AnswersFit DEF Flawed, Fits, a
  <2>2. /\ InSegments(d, a) => a.to = Blank \/ a.from <= a.to
    BY <1>5, <1>6, <1>7, AnswersFit DEF a
  <2>3. Count(a.from, a.from - 1, n) = 0
    BY <1>5, <2>1 DEF Count, BS!Least
  <2>4. <<>> \in Seq(Nat) /\ Len(<<>>) = 0 /\ <<>> = Run(a.from, 0)
    BY DEF Run
  <2> QED BY <1>3, <1>7, <2>1, <2>2, <2>3, <2>4 DEF BodySoFar
<1>8. stream'.at \in {"open", "body", "done"} => now = "open"
  BY <1>3, <1>4
<1> QED BY <1>2, <1>3, <1>4, <1>6, <1>7, <1>8 DEF StreamsInv, a

LEMMA ChunkKeeps ==
  ASSUME StreamsAssumption, Asked, BS!Chunk
  PROVE  StreamsInv'
<1>0. stream.at = "body" /\ stream.left # <<>>
  BY DEF BS!Chunk, BS!s
<1>1. PICK body, left : /\ body = Append(stream.body, Head(stream.left)) /\ left = Tail(stream.left)
                        /\ stream' = [stream EXCEPT !.body = body, !.left = left]
  BY DEF BS!Chunk, BS!s
<1>2. /\ Steps /\ stream'.at = "body" /\ stream'.body = body /\ stream'.left = left
      /\ stream'.seg = stream.seg /\ stream'.resent = stream.resent /\ stream'.given = stream.given
  BY <1>0, <1>1 DEF Asked, Steps, StreamFields
<1>3. ASSUME ~Flawed(stream') PROVE BodySoFar(stream')
  <2>1. BodySoFar(stream)
    BY <1>2, <1>3 DEF Flawed, Asked, Steps
  <2>2. PICK f \in Nat, b \in Seq(Nat), l \in Seq(Nat) :
          f = stream.ans.from /\ b = stream.body /\ l = stream.left
    BY <1>0, <2>1 DEF BodySoFar
  <2>3. b = Run(f, Len(b)) /\ l = Run(f + Len(b), Len(l)) /\ l # <<>>
        /\ body = Append(b, Head(l)) /\ left = Tail(l)
    BY <1>0, <1>1, <2>1, <2>2 DEF BodySoFar
  <2>4. /\ body \in Seq(Nat) /\ left \in Seq(Nat) /\ body = Run(f, Len(body))
        /\ left = Run(f + Len(body), Len(left))
        /\ Len(body) + Len(left) = Len(b) + Len(l) /\ Len(body) >= Len(b)
    BY <2>3, RunGrows
  <2>5. PICK had \in Int : had = Count(f, stream.seg - 1, stream.size)
    <3>1. stream.seg - 1 \in Int /\ stream.size \in Nat
      BY <1>0, <2>1 DEF BodySoFar, Asked
    <3> QED BY <3>1 DEF Count, BS!Least
  <2>6. Len(b) >= had /\ Len(b) + Len(l) = Count(f, Target(stream), stream.size)
    BY <1>0, <2>1, <2>2, <2>5 DEF BodySoFar
  <2>7. Len(body) >= had
    BY <2>4, <2>6
  <2>8. Target(stream') = Target(stream)
    BY <1>2 DEF Target, Steps
  <2>9. /\ stream.seg \in Nat /\ f <= stream.seg
        /\ ~InSegments(stream.drive, stream.ans) => stream.seg = f
        /\ InSegments(stream.drive, stream.ans) => stream.ans.to = Blank \/ stream.seg <= stream.ans.to
    BY <1>0, <2>1, <2>2 DEF BodySoFar
  <2> QED BY <1>2, <2>2, <2>4, <2>5, <2>6, <2>7, <2>8, <2>9 DEF BodySoFar, Steps
<1> QED BY <1>2, <1>3, StepKeeps

\* A segment is within the answer, and what is there of it comes after what was sent.
LEMMA SegmentWithin ==
  ASSUME StreamsAssumption, NEW F \in Nat, NEW g \in Nat, F <= g, NEW t \in Int, g <= t, NEW n \in Nat
  PROVE  /\ Count(F, t, n) = Count(F, g - 1, n) + Count(g, t, n)
         /\ Count(F, t, n) \in Nat /\ Count(F, g - 1, n) \in Nat /\ Count(g, t, n) \in Nat
         /\ g < n => Count(F, g - 1, n) = g - F
BY DEF Count, BS!Least

LEMMA OpenKeeps ==
  ASSUME StreamsAssumption, Asked, BS!Open
  PROVE  StreamsInv'
<1> DEFINE got == IF BS!Segmented
                  THEN BS!Upstream(BS!Bytes(stream.seg, BS!SegmentEnd), stream.size, stream.up.honours)
                  ELSE Got(stream.drive, stream.ans, stream.size, stream.up.honours)
           left == BS!Slice(got.from, got.to, stream.size)
<1>1. /\ stream.at = "open"
      /\ stream' = IF got.status < 400
                   THEN [stream EXCEPT !.at = "body", !.left = left, !.tries = @ + 1]
                   ELSE IF ~BS!Segmented THEN [stream EXCEPT !.at = "cut"]
                   ELSE IF stream.tries < 2 THEN [stream EXCEPT !.tries = @ + 1]
                   ELSE [stream EXCEPT !.at = "done", !.given = TRUE]
  BY DEF BS!Open, BS!s, Got
<1>2. BS!Segmented = InSegments(stream.drive, stream.ans)
  BY DEF BS!Segmented, BS!s, InSegments
<1> HIDE DEF got, left
<1>3. CASE ~(got.status < 400) /\ ~BS!Segmented
  <2>1. Steps /\ stream'.at = "cut"
    BY <1>1, <1>3 DEF Asked, Steps, StreamFields
  <2> QED BY <2>1, StepKeeps
<1>4. CASE ~(got.status < 400) /\ BS!Segmented /\ stream.tries < 2
  <2>1. /\ Steps /\ stream'.at = "open" /\ stream'.body = stream.body /\ stream'.left = stream.left
        /\ stream'.seg = stream.seg /\ stream'.resent = stream.resent /\ stream'.given = stream.given
    BY <1>1, <1>4 DEF Asked, Steps, StreamFields
  <2>2. ~Flawed(stream') => BodySoFar(stream')
    <3>1. stream.at = "open"
      BY <1>1
    <3>2. ~Flawed(stream') => BodySoFar(stream)
      BY <2>1 DEF Asked, Flawed, Steps
    <3> QED BY <2>1, <3>1, <3>2 DEF BodySoFar, Steps
  <2> QED BY <2>1, <2>2, StepKeeps
<1>5. CASE ~(got.status < 400) /\ BS!Segmented /\ ~(stream.tries < 2)
  <2>1. Steps /\ stream'.at = "done" /\ stream'.given
    BY <1>1, <1>5 DEF Asked, Steps, StreamFields
  <2> QED BY <2>1, StepKeeps DEF Flawed
<1>6. CASE got.status < 400
  <2>1. /\ Steps /\ stream'.at = "body" /\ stream'.body = stream.body /\ stream'.left = left
        /\ stream'.seg = stream.seg /\ stream'.resent = stream.resent /\ stream'.given = stream.given
    BY <1>1, <1>6 DEF Asked, Steps, StreamFields
  <2>2. ASSUME ~Flawed(stream') PROVE BodySoFar(stream')
    <3> DEFINE first == stream.ans.from  k == Len(stream.body)  n == stream.size
               target == Target(stream)
    <3>1. ~Flawed(stream) /\ BodySoFar(stream) /\ n \in Nat
      BY <2>1, <2>2 DEF Flawed, Asked, Steps
    <3>2. /\ stream.body \in Seq(Nat) /\ stream.body = Run(first, k) /\ first \in Nat /\ k \in Nat
          /\ stream.seg \in Nat /\ first <= stream.seg
          /\ ~InSegments(stream.drive, stream.ans) => stream.seg = first
          /\ InSegments(stream.drive, stream.ans) => stream.ans.to = Blank \/ stream.seg <= stream.ans.to
          /\ k = Count(first, stream.seg - 1, n)
      BY <1>1, <3>1 DEF BodySoFar
    <3>3. Target(stream') = target
      BY <2>1 DEF Target, Steps
    <3>4. /\ left \in Seq(Nat) /\ left = Run(first + k, Len(left))
          /\ k + Len(left) = Count(first, target, n)
      <4>1. CASE ~BS!Segmented
        <5>1. got = Got(stream.drive, stream.ans, n, stream.up.honours)
          BY <4>1 DEF got
        <5>2. Fits(stream.drive, stream.ans, n, stream.ask, stream.up.honours)
          BY AskedFits
        <5>3. ~Askew(stream.drive, stream.ans, n, stream.ask, stream.up.honours)
          BY <3>1 DEF Flawed
        <5>4. /\ Count(got.from, got.to, n) = Count(first, Last(stream.ans, n), n)
              /\ Count(got.from, got.to, n) = 0 \/ got.from = first
              /\ got.from \in Nat /\ got.to \in Int
          BY <1>2, <1>6, <4>1, <5>1, <5>2, <5>3 DEF Fits
        <5>5. target = Last(stream.ans, n)
          BY <1>2, <4>1 DEF Target
        <5>6. k = 0
          <6>1. Count(first, first - 1, n) = 0
            BY <3>1, <3>2 DEF Count, BS!Least
          <6> QED BY <1>2, <3>2, <4>1, <6>1
        <5>7. /\ left = Run(got.from, Count(got.from, got.to, n)) /\ left \in Seq(Nat)
              /\ Len(left) = Count(got.from, got.to, n) /\ Len(left) \in Nat
          <6>1. got.from \in Nat /\ got.to \in Int /\ n \in Nat
            BY <3>1, <5>4
          <6>2. PICK g \in Nat, u \in Int, m \in Nat : g = got.from /\ u = got.to /\ m = n
            BY <6>1
          <6>3. left = BS!Slice(g, u, m)
            BY <6>2 DEF left
          <6>4. left = Run(g, Count(g, u, m)) /\ left \in Seq(Nat) /\ Len(left) = Count(g, u, m)
                /\ Len(left) \in Nat
            BY <6>3, SliceIsRun
          <6> QED BY <6>2, <6>4
        <5>8. Run(got.from, 0) = Run(first + k, 0)
          BY DEF Run
        <5>9. first + k = first
          BY <3>2, <5>6
        <5> HIDE DEF target, k, first, n
        <5> QED BY <5>4, <5>5, <5>6, <5>7, <5>8, <5>9
      <4>2. CASE BS!Segmented
        <5>1. stream.up.honours = TRUE /\ InSegments(stream.drive, stream.ans)
          <6>1. stream.up.honours \in BOOLEAN
            BY DEF Asked, BS!Services
          <6> QED BY <1>2, <3>1, <4>2, <6>1 DEF Flawed, Askew, InSegments
        <5>2. stream.ans.to \in Int \cup {Blank}
          <6>1. Fits(stream.drive, stream.ans, n, stream.ask, stream.up.honours)
            BY AskedFits
          <6> QED BY <3>1, <6>1 DEF Flawed, Fits
        <5>3. target = BS!SegmentEnd
          BY <5>1 DEF Target, BS!SegmentEnd, BS!s
        <5>4. target \in Nat /\ stream.seg <= target
          BY <3>2, <5>1, <5>2 DEF Target, BS!Least, StreamsAssumption
        <5>5. got = BS!Upstream(BS!Bytes(stream.seg, target), n, TRUE)
          BY <4>2, <5>1, <5>3 DEF got
        <5>6. PICK f \in Nat, t \in Nat : f = stream.seg /\ t = target
          BY <3>2, <5>4
        <5>7. got = BS!Upstream(BS!Bytes(f, t), n, TRUE) /\ f <= t
          BY <5>4, <5>5, <5>6
        <5>8. /\ BS!Bytes(f, t).unit = "bytes" /\ ~BS!Bytes(f, t).bad
              /\ BS!Bytes(f, t).from = f /\ BS!Bytes(f, t).to = t /\ f # Blank /\ t # Blank
          BY PartFields DEF StreamsAssumption
        <5>9. f < n /\ got = BS!Part(f, BS!Least(t, n - 1))
          <6>1. CASE f >= n
            <7>1. got = BS!Refuse(416)
              BY <3>1, <5>7, <5>8, <6>1 DEF BS!Upstream
            <7>2. BS!Refuse(416).status = 416
              BY WholeFields
            <7> QED BY <1>6, <7>1, <7>2
          <6>2. CASE ~(f >= n)
            <7>1. BS!To(BS!Bytes(f, t), n) = t
              BY <5>8 DEF BS!To
            <7> QED BY <3>1, <5>7, <5>8, <6>2, <7>1 DEF BS!Upstream
          <6> QED BY <6>1, <6>2
        <5>10. got.from = f /\ got.to = BS!Least(t, n - 1) /\ BS!Least(t, n - 1) \in Int
          BY <3>1, <5>9, PartFields DEF BS!Least
        <5>11. /\ left = Run(f, Count(f, got.to, n)) /\ left \in Seq(Nat)
               /\ Len(left) = Count(f, got.to, n) /\ Len(left) \in Nat
          <6>1. got.to \in Int /\ n \in Nat
            BY <3>1, <5>10
          <6>2. PICK u \in Int, m \in Nat : u = got.to /\ m = n
            BY <6>1
          <6>3. left = BS!Slice(f, u, m)
            BY <5>10, <6>2 DEF left
          <6>4. /\ BS!Slice(f, u, m) = Run(f, Count(f, u, m)) /\ Count(f, u, m) \in Nat
                /\ BS!Slice(f, u, m) \in Seq(Nat) /\ Len(BS!Slice(f, u, m)) = Count(f, u, m)
            BY SliceIsRun
          <6> QED BY <6>2, <6>3, <6>4
        <5>12. Count(f, got.to, n) = Count(f, t, n)
          BY <3>1, <5>10 DEF Count, BS!Least
        <5>13. /\ Count(first, t, n) = Count(first, f - 1, n) + Count(f, t, n)
               /\ Count(first, f - 1, n) = f - first
          <6>1. first \in Nat /\ first <= f /\ n \in Nat /\ f < n /\ f <= t /\ t \in Int
            BY <3>1, <3>2, <5>6, <5>7, <5>9
          <6> HIDE DEF first, n
          <6> QED BY <6>1 DEF Count, BS!Least
        <5>14. k = f - first /\ first + k = f
          BY <3>2, <5>6, <5>13
        <5> HIDE DEF target, k, first, n
        <5> QED BY <5>6, <5>11, <5>12, <5>13, <5>14
      <4> QED BY <4>1, <4>2
    <3>5. k >= Count(first, stream.seg - 1, n)
      BY <3>2
    <3> HIDE DEF k, n, target
    <3> QED BY <2>1, <3>2, <3>3, <3>4, <3>5 DEF BodySoFar, Steps, k, n, target
  <2> QED BY <2>1, <2>2, StepKeeps
<1> QED BY <1>3, <1>4, <1>5, <1>6

\* What is counted is the same wherever after the end of the file it ends.
LEMMA CountPast ==
  ASSUME NEW F \in Nat, NEW n \in Nat, NEW t \in Int, NEW u \in Int, t >= n - 1, u >= n - 1
  PROVE  Count(F, t, n) = Count(F, u, n)
BY DEF Count, BS!Least

LEMMA BodyEndsKeeps ==
  ASSUME StreamsAssumption, Asked, BS!BodyEnds
  PROVE  StreamsInv'
<1> DEFINE more == BS!Segmented /\ (stream.ans.to = Blank \/ BS!SegmentEnd < stream.ans.to)
                   /\ stream.seg <= 2 * MaxSize
<1>1. /\ stream.at = "body" /\ stream.left = <<>>
      /\ stream' = IF more THEN [stream EXCEPT !.at = "open", !.seg = BS!SegmentEnd + 1, !.tries = 0]
                   ELSE [stream EXCEPT !.at = "done"]
  BY DEF BS!BodyEnds, BS!s
<1>2. BS!Segmented = InSegments(stream.drive, stream.ans)
  BY DEF BS!Segmented, BS!s, InSegments
<1>3. /\ Steps /\ stream'.body = stream.body /\ stream'.left = stream.left
      /\ stream'.resent = stream.resent /\ stream'.given = stream.given
      /\ stream'.at = IF more THEN "open" ELSE "done"
      /\ stream'.seg = IF more THEN BS!SegmentEnd + 1 ELSE stream.seg
  <2> HIDE DEF more
  <2> QED BY <1>1 DEF Asked, Steps, StreamFields
<1> HIDE DEF more
<1>4. ASSUME ~Flawed(stream') PROVE BodySoFar(stream')
  <2>1. ~Flawed(stream) /\ BodySoFar(stream)
    BY <1>3, <1>4 DEF Flawed, Asked, Steps
  <2>2. PICK F \in Nat, n \in Nat, g \in Nat : F = stream.ans.from /\ n = stream.size /\ g = stream.seg
    BY <1>1, <2>1 DEF BodySoFar, Asked
  <2>3. /\ stream.body \in Seq(Nat) /\ stream.body = Run(F, Len(stream.body)) /\ F <= g
        /\ InSegments(stream.drive, stream.ans) => stream.ans.to = Blank \/ g <= stream.ans.to
        /\ Len(stream.body) + Len(stream.left) = Count(F, Target(stream), n)
    BY <1>1, <2>1, <2>2 DEF BodySoFar
  <2>4. Len(stream.body) = Count(F, Target(stream), n)
    <3>1. Len(stream.left) = 0 /\ Len(stream.body) \in Nat
      BY <1>1, <2>3
    <3> QED BY <2>3, <3>1
  <2>5. stream.ans.to \in Int \cup {Blank}
    BY <2>1, AskedFits DEF Flawed, Fits
  <2>6. n <= MaxSize /\ MaxSize \in Nat
    BY <2>2 DEF Asked, StreamsAssumption
  <2>7. ASSUME BS!Segmented
        PROVE  /\ BS!SegmentEnd = Target(stream) /\ BS!SegmentEnd \in Nat /\ g <= BS!SegmentEnd
               /\ stream.ans.to # Blank => BS!SegmentEnd <= stream.ans.to
    <3>1. BS!SegmentEnd = Target(stream)
      BY <1>2, <2>7 DEF Target, BS!SegmentEnd, BS!s
    <3>2. /\ Target(stream) \in Nat /\ g <= Target(stream)
          /\ stream.ans.to # Blank => Target(stream) <= stream.ans.to
      BY <1>2, <2>2, <2>3, <2>5, <2>7 DEF Target, BS!Least, StreamsAssumption
    <3> QED BY <3>1, <3>2
  <2>8. CASE more
    <3>1. BS!Segmented /\ (stream.ans.to = Blank \/ BS!SegmentEnd < stream.ans.to)
      BY <2>8 DEF more
    <3>2. PICK u \in Nat : u = BS!SegmentEnd
      BY <2>7, <3>1
    <3>3. stream'.seg = u + 1 /\ stream'.at = "open" /\ u + 1 \in Nat /\ F <= u + 1 /\ (u + 1) - 1 = u
      BY <1>3, <2>3, <2>7, <2>8, <3>1, <3>2
    <3>4. stream.ans.to = Blank \/ u + 1 <= stream.ans.to
      BY <2>5, <3>1, <3>2
    <3>5. Len(stream.body) = Count(F, u, n)
      BY <2>4, <2>7, <3>1, <3>2
    <3>6. InSegments(stream.drive, stream.ans)
      BY <1>2, <3>1
    <3> QED BY <1>1, <1>3, <2>2, <2>3, <3>3, <3>4, <3>5, <3>6 DEF BodySoFar, Steps
  <2>9. CASE ~more
    <3>1. Count(F, Target(stream), n) = Count(F, Last(stream.ans, n), n)
      <4>1. CASE ~BS!Segmented
        BY <1>2, <2>2, <4>1 DEF Target
      <4>2. CASE BS!Segmented /\ stream.ans.to # Blank /\ ~(BS!SegmentEnd < stream.ans.to)
        <5>1. BS!SegmentEnd = stream.ans.to
          BY <2>5, <2>7, <4>2
        <5> QED BY <2>7, <4>2, <5>1 DEF Last
      <4>3. CASE BS!Segmented /\ ~(stream.seg <= 2 * MaxSize)
        <5>1. Target(stream) \in Int /\ Target(stream) >= n - 1 /\ g >= n - 1
          BY <2>2, <2>6, <2>7, <4>3
        <5>2. Last(stream.ans, n) \in Int /\ Last(stream.ans, n) >= n - 1
          BY <1>2, <2>3, <2>5, <4>3, <5>1 DEF Last
        <5> QED BY <5>1, <5>2, CountPast
      <4> QED BY <2>9, <4>1, <4>2, <4>3 DEF more
    <3>2. stream'.at = "done"
      BY <1>3, <2>9
    <3> QED BY <1>3, <2>2, <2>3, <2>4, <3>1, <3>2 DEF BodySoFar, Steps
  <2> QED BY <2>8, <2>9
<1> QED BY <1>3, <1>4, StepKeeps

LEMMA BodyBreaksKeeps ==
  ASSUME StreamsAssumption, Asked, BS!BodyBreaks
  PROVE  StreamsInv'
<1> DEFINE again == BS!Slice(stream.seg, BS!SegmentEnd, stream.size)
           cut == ~BS!Segmented \/ (stream.tries >= 3 /\ stream.body = <<>>)
           resent == stream.resent \/ Len(stream.left) < Len(again)
<1>1. /\ stream.at = "body"
      /\ stream' = LET t == [stream EXCEPT !.broken = @ + 1, !.left = <<>>] IN
                   IF cut THEN [t EXCEPT !.at = "cut"]
                   ELSE IF stream.tries >= 3 THEN [t EXCEPT !.at = "done", !.given = TRUE]
                   ELSE [t EXCEPT !.at = "open", !.resent = @ \/ Len(stream.left) < Len(again)]
  BY DEF BS!BodyBreaks, BS!s
<1>2. BS!Segmented = InSegments(stream.drive, stream.ans)
  BY DEF BS!Segmented, BS!s, InSegments
<1> HIDE DEF again, cut
<1>3. CASE cut
  <2>1. Steps /\ stream'.at = "cut"
    BY <1>1, <1>3 DEF Asked, Steps, StreamFields
  <2> QED BY <2>1, StepKeeps
<1>4. CASE ~cut /\ stream.tries >= 3
  <2>1. Steps /\ stream'.at = "done" /\ stream'.given
    BY <1>1, <1>4 DEF Asked, Steps, StreamFields
  <2> QED BY <2>1, StepKeeps DEF Flawed
<1>5. CASE ~cut /\ ~(stream.tries >= 3)
  <2>1. /\ Steps /\ stream'.at = "open" /\ stream'.body = stream.body /\ stream'.left = <<>>
        /\ stream'.seg = stream.seg /\ stream'.resent = resent /\ stream'.given = stream.given
    BY <1>1, <1>5 DEF Asked, Steps, StreamFields
  <2>2. ASSUME ~Flawed(stream') PROVE BodySoFar(stream')
    <3>1. ~resent /\ ~stream.resent /\ ~(Len(stream.left) < Len(again))
      BY <2>1, <2>2 DEF Flawed
    <3> HIDE DEF resent
    <3>2. ~Flawed(stream) /\ BodySoFar(stream)
      BY <2>1, <2>2, <3>1 DEF Flawed, Asked, Steps
    <3>3. PICK F \in Nat, n \in Nat, g \in Nat : F = stream.ans.from /\ n = stream.size /\ g = stream.seg
      BY <1>1, <3>2 DEF BodySoFar, Asked
    <3>4. /\ stream.body \in Seq(Nat) /\ stream.left \in Seq(Nat)
          /\ stream.body = Run(F, Len(stream.body)) /\ F <= g
          /\ InSegments(stream.drive, stream.ans) => stream.ans.to = Blank \/ g <= stream.ans.to
          /\ Len(stream.body) + Len(stream.left) = Count(F, Target(stream), n)
          /\ Len(stream.body) >= Count(F, g - 1, n)
      BY <1>1, <3>2, <3>3 DEF BodySoFar
    <3>5. InSegments(stream.drive, stream.ans)
      BY <1>2, <1>5 DEF cut
    <3>6. stream.ans.to \in Int \cup {Blank}
      BY <3>2, AskedFits DEF Flawed, Fits
    <3>7. PICK u \in Nat : u = Target(stream) /\ g <= u
      <4>1. Target(stream) \in Nat /\ g <= Target(stream)
        BY <3>3, <3>4, <3>5, <3>6 DEF Target, BS!Least, StreamsAssumption
      <4> QED BY <4>1
    <3>8. BS!SegmentEnd = Target(stream)
      BY <3>5 DEF Target, BS!SegmentEnd, BS!s
    <3>9. again = BS!Slice(g, u, n)
      BY <3>3, <3>7, <3>8 DEF again
    <3>10. Len(again) = Count(g, u, n)
      <4>1. u \in Int
        OBVIOUS
      <4>2. Len(BS!Slice(g, u, n)) = Count(g, u, n)
        BY <4>1, SliceIsRun
      <4> QED BY <3>9, <4>2
    <3>11. /\ Count(F, u, n) = Count(F, g - 1, n) + Count(g, u, n)
           /\ Count(F, g - 1, n) \in Nat /\ Count(g, u, n) \in Nat
      BY <3>4, <3>7, SegmentWithin
    <3>12. Len(stream.body) = Count(F, g - 1, n)
      <4>1. Len(stream.body) \in Nat /\ Len(stream.left) \in Nat
        BY <3>4
      <4>2. PICK b \in Nat, l \in Nat : b = Len(stream.body) /\ l = Len(stream.left)
        BY <4>1
      <4>3. PICK x \in Nat, y \in Nat : x = Count(F, g - 1, n) /\ y = Count(g, u, n)
        BY <3>11
      <4>4. b + l = x + y /\ b >= x /\ ~(l < y)
        BY <3>1, <3>4, <3>7, <3>10, <3>11, <4>2, <4>3
      <4>5. b = x
        BY <4>4
      <4> QED BY <4>2, <4>3, <4>5
    <3> QED BY <2>1, <3>3, <3>4, <3>5, <3>12 DEF BodySoFar, Steps
  <2> QED BY <2>1, <2>2, StepKeeps
<1> QED BY <1>3, <1>4, <1>5

LEMMA StreamsKept ==
  ASSUME StreamsAssumption, StreamsInv, [BS!Next]_bytesvars
  PROVE  StreamsInv'
<1>1. CASE UNCHANGED bytesvars
  BY <1>1 DEF bytesvars, StreamsInv
<1>2. ASSUME NEW d \in Streamers, NEW n \in 0 .. MaxSize, NEW h \in BS!Headers,
             NEW given \in BS!Services(d), stream.at = "idle", BS!Ask(d, n, h, given)
      PROVE  StreamsInv'
  <2>1. stream = [at |-> "idle"]
    BY <1>2 DEF StreamsInv
  <2> QED BY <1>2, <2>1, AskKeeps
<1>3. ASSUME stream.at \in {"open", "body"} PROVE Asked
  BY <1>3 DEF StreamsInv, Asked, StreamsAssumption
<1>4. CASE BS!Open
  BY <1>3, <1>4, OpenKeeps DEF BS!Open, BS!s
<1>5. CASE BS!Chunk
  BY <1>3, <1>5, ChunkKeeps DEF BS!Chunk, BS!s
<1>6. CASE BS!BodyEnds
  BY <1>3, <1>6, BodyEndsKeeps DEF BS!BodyEnds, BS!s
<1>7. CASE BS!BodyBreaks
  BY <1>3, <1>7, BodyBreaksKeeps DEF BS!BodyBreaks, BS!s
<1>8. CASE BS!Stuck
  BY <1>8 DEF BS!Stuck, BS!s, StreamsInv, StreamFields
<1> QED BY <1>1, <1>2, <1>4, <1>5, <1>6, <1>7, <1>8 DEF BS!Next, BS!s

\* Where an answer differs from what HTTP asks for, and what it is elsewhere.
Strays(d, n, h, given) ==
    \/ d \in {"s3", "telegram"} /\ h.to # Blank /\ h.to >= n
    \/ d \in {"alist", "pikpak", "telegram", "webdav"} /\ n = 0
    \/ d = "webdav" /\ (IF h.to = Blank THEN ~given.length ELSE h.to >= n)
    \/ d = "ftp" /\ h.unit # "none" /\ ~given.length
    \/ d \in {"quark", "dropbox", "foxel"} /\ ~given.honours
Right(a, h, n) ==
    /\ h.unit = "none" => a.status = 200
    /\ BS!Legal(h) => IF h.from >= n THEN a.status = 416
                      ELSE a.status = 206 /\ a.from = h.from /\ a.to = BS!Least(BS!To(h, n), n - 1)

LEMMA LocalRight ==
  ASSUME StreamsAssumption, NEW n \in Nat, NEW h \in BS!Headers
  PROVE  Right(BS!LocalStream(h, n), h, n) /\ Right(BS!GdriveStream(h, n), h, n)
<1>1. Right(BS!LocalStream(h, n), h, n)
  BY HeadersTyped, PartFields, WholeFields DEF Right, BS!LocalStream, BS!Legal, BS!From, BS!Refuse, BS!Answer
<1>2. CASE BS!LocalStream(h, n).status = 200
  <2>1. h.unit # "bytes"
    BY <1>2, PartFields DEF BS!LocalStream, BS!Refuse, BS!Answer
  <2>2. BS!LocalStream(h, n) = BS!Whole(n)
    BY <2>1 DEF BS!LocalStream
  <2>3. BS!GdriveStream(h, n).status = 200
    BY <1>2, <2>2 DEF BS!GdriveStream, BS!Whole, BS!Answer
  <2> QED BY <1>1, <2>1, <2>3 DEF Right, BS!Legal
<1>3. CASE BS!LocalStream(h, n).status # 200
  <2>1. BS!GdriveStream(h, n) = BS!LocalStream(h, n)
    BY <1>3 DEF BS!GdriveStream
  <2> QED BY <1>1, <2>1
<1> QED BY <1>1, <1>2, <1>3

LEMMA S3Right ==
  ASSUME StreamsAssumption, NEW n \in Nat, NEW h \in BS!Headers, ~(h.to # Blank /\ h.to >= n)
  PROVE  Right(BS!S3Stream(h, n), h, n)
<1>1. CASE h.unit = "none"
  <2>1. BS!S3Stream(h, n).status = 200
    BY <1>1 DEF BS!S3Stream, BS!Whole, BS!Answer
  <2> QED BY <1>1, <2>1 DEF Right, BS!Legal
<1>2. CASE h.unit # "none" /\ ~BS!Legal(h)
  BY <1>2 DEF Right
<1>3. CASE h.unit # "none" /\ BS!Legal(h)
  <2>1. /\ h.from \in Nat /\ h.to \in Nat \cup {Blank} /\ BS!From(h) = h.from /\ ~h.bad
        /\ h.to # Blank => h.from <= h.to /\ h.to < n
    BY <1>3, HeadersTyped DEF BS!Legal, BS!From
  <2>2. CASE h.from >= n
    <3>1. BS!S3Stream(h, n) = BS!Refuse(416)
      BY <1>3, <2>1, <2>2 DEF BS!S3Stream
    <3> QED BY <1>3, <2>2, <3>1, WholeFields DEF Right
  <2>3. CASE ~(h.from >= n)
    <3>1. /\ BS!To(h, n) \in Int /\ BS!To(h, n) < n /\ h.from <= BS!To(h, n)
          /\ BS!Least(BS!To(h, n), n - 1) = BS!To(h, n)
      BY <2>1, <2>3 DEF BS!To, BS!Least, StreamsAssumption
    <3>2. BS!S3Stream(h, n) = BS!Part(h.from, BS!To(h, n))
      BY <1>3, <2>1, <2>3, <3>1 DEF BS!S3Stream
    <3> QED BY <1>3, <2>3, <3>1, <3>2, PartFields DEF Right
  <2> QED BY <2>2, <2>3
<1> QED BY <1>1, <1>2, <1>3

LEMMA PikpakRight ==
  ASSUME StreamsAssumption, NEW n \in Nat, n # 0, NEW h \in BS!Headers
  PROVE  /\ Right(BS!PikpakStream(h, n), h, n)
         /\ BS!Legal(h) => BS!PikpakStream(h, n) = IF h.from >= n THEN BS!Refuse(416)
                                                   ELSE BS!Part(h.from, BS!Least(BS!To(h, n), n - 1))
         /\ BS!Legal(h) /\ ~(h.from >= n) => /\ BS!Least(BS!To(h, n), n - 1) \in Nat
                                             /\ h.from <= BS!Least(BS!To(h, n), n - 1)
                                             /\ BS!Least(BS!To(h, n), n - 1) < n
<1>1. CASE ~BS!Legal(h)
  <2>1. h.unit = "none" => BS!PikpakStream(h, n).status = 200
    BY DEF BS!PikpakStream, BS!Whole, BS!Answer
  <2> QED BY <1>1, <2>1 DEF Right
<1>2. CASE BS!Legal(h)
  <2>1. /\ h.from \in Nat /\ h.to \in Nat \cup {Blank} /\ BS!From(h) = h.from /\ ~h.bad /\ h.unit = "bytes"
        /\ h.to # Blank => h.from <= h.to
    BY <1>2, HeadersTyped DEF BS!Legal, BS!From
  <2>2. ~(h.from >= n) => /\ BS!Least(BS!To(h, n), n - 1) \in Nat
                          /\ h.from <= BS!Least(BS!To(h, n), n - 1)
                          /\ BS!Least(BS!To(h, n), n - 1) < n
    BY <2>1 DEF BS!To, BS!Least, StreamsAssumption
  <2>3. BS!PikpakStream(h, n) = IF h.from >= n THEN BS!Refuse(416)
                                ELSE BS!Part(h.from, BS!Least(BS!To(h, n), n - 1))
    BY <2>1, <2>2 DEF BS!PikpakStream
  <2>4. Right(BS!PikpakStream(h, n), h, n)
    BY <2>1, <2>3, PartFields, WholeFields DEF Right
  <2> QED BY <2>2, <2>3, <2>4
<1> QED BY <1>1, <1>2

LEMMA DropboxRight ==
  ASSUME StreamsAssumption, NEW n \in Nat, NEW h \in BS!Headers
  PROVE  Right(BS!DropboxStream(h, n, TRUE), h, n)
<1>1. PICK u, q : u = BS!Upstream(h, n, TRUE) /\ q = BS!DropboxStream(h, n, TRUE)
  OBVIOUS
<1>2. q.status = u.status /\ q.from = u.from /\ q.to = u.to
  BY <1>1 DEF BS!DropboxStream, BS!Upstream, BS!Refuse, BS!Part, BS!Whole, BS!Answer
<1>3. h.unit = "none" => u.status = 200
  BY <1>1, WholeFields DEF BS!Upstream
<1>4. PICK t : t = BS!Least(BS!To(h, n), n - 1)
  OBVIOUS
<1>5. BS!Legal(h) => u = IF h.from >= n THEN BS!Refuse(416) ELSE BS!Part(h.from, t)
  BY <1>1, <1>4, UpstreamLegal
<1>6. /\ BS!Refuse(416).status = 416
      /\ BS!Part(h.from, t).status = 206 /\ BS!Part(h.from, t).from = h.from /\ BS!Part(h.from, t).to = t
  BY WholeFields, PartFields
<1>7. SUFFICES Right(q, h, n)
  BY <1>1
<1> QED BY <1>2, <1>3, <1>4, <1>5, <1>6 DEF Right

LEMMA QuarkRight ==
  ASSUME StreamsAssumption, NEW n \in Nat, NEW h \in BS!Headers
  PROVE  Right(BS!QuarkStream(h, n, TRUE), h, n)
<1>1. PICK a : a = BS!PikpakStream(h, n)
  OBVIOUS
<1>2. PICK asks : asks = IF a.status = 206 THEN BS!Bytes(a.from, a.to) ELSE BS!NoHeader
  OBVIOUS
<1>3. PICK q : q = BS!QuarkStream(h, n, TRUE)
  OBVIOUS
<1>4. PICK u : u = BS!Upstream(asks, n, TRUE)
  OBVIOUS
<1>5. q = IF a.status >= 400 THEN a ELSE Passed(u, asks)
  BY <1>1, <1>2, <1>3, <1>4 DEF BS!QuarkStream, Passed
<1>6. Passed(u, asks).status = u.status /\ Passed(u, asks).from = u.from /\ Passed(u, asks).to = u.to
  BY <1>4 DEF Passed, BS!Upstream, BS!Refuse, BS!Part, BS!Whole, BS!Answer
<1>7. BS!Refuse(416).status = 416 /\ BS!Whole(n).status = 200
  BY WholeFields
<1>8. SUFFICES Right(q, h, n)
  BY <1>3
<1>9. CASE h.unit = "none"
  <2>1. a.status = 200
    BY <1>1, <1>9 DEF BS!PikpakStream, BS!Whole, BS!Answer
  <2>2. asks = BS!NoHeader
    BY <1>2, <2>1
  <2>3. u = BS!Whole(n)
    BY <1>4, <2>2, UpstreamNone
  <2>4. q.status = 200
    BY <1>5, <1>6, <1>7, <2>1, <2>3
  <2> QED BY <1>9, <2>4 DEF Right, BS!Legal
<1>10. CASE h.unit # "none" /\ ~BS!Legal(h)
  BY <1>10 DEF Right
<1>11. CASE BS!Legal(h)
  <2>1. /\ h.from \in Nat /\ h.to \in Nat \cup {Blank} /\ BS!From(h) = h.from /\ ~h.bad /\ h.unit = "bytes"
        /\ h.to # Blank => h.from <= h.to
    BY <1>11, HeadersTyped DEF BS!Legal, BS!From
  <2>2. CASE n = 0
    <3>1. a.status = 206 /\ a.from = h.from /\ a.to = h.to
      BY <1>1, <2>1, <2>2 DEF BS!PikpakStream, BS!Answer
    <3>2. asks = BS!Bytes(h.from, h.to)
      BY <1>2, <3>1
    <3>3. asks.unit = "bytes" /\ ~asks.bad /\ asks.from = h.from /\ asks.to = h.to
      BY <3>2, PartFields
    <3>4. h.from # Blank /\ h.from >= n /\ ~(h.to # Blank /\ h.to < h.from)
      BY <2>1, <2>2 DEF StreamsAssumption
    <3>5. u = BS!Refuse(416)
      BY <1>4, <3>3, <3>4 DEF BS!Upstream
    <3>6. q.status = 416
      BY <1>5, <1>6, <1>7, <3>1, <3>5
    <3> QED BY <2>1, <3>4, <3>6 DEF Right
  <2>3. CASE n # 0 /\ h.from >= n
    <3>1. a = BS!Refuse(416)
      BY <1>1, <1>11, <2>3, PikpakRight
    <3>2. q.status = 416
      BY <1>5, <1>7, <3>1
    <3> QED BY <2>1, <2>3, <3>2 DEF Right
  <2>4. CASE n # 0 /\ ~(h.from >= n)
    <3>1. PICK f \in Nat, t \in Nat : /\ f = h.from /\ t = BS!Least(BS!To(h, n), n - 1)
                                      /\ f <= t /\ t < n /\ a = BS!Part(f, t)
      <4>1. /\ BS!Least(BS!To(h, n), n - 1) \in Nat /\ h.from <= BS!Least(BS!To(h, n), n - 1)
            /\ BS!Least(BS!To(h, n), n - 1) < n /\ a = BS!Part(h.from, BS!Least(BS!To(h, n), n - 1))
        BY <1>1, <1>11, <2>4, PikpakRight
      <4> QED BY <2>1, <4>1
    <3>2. /\ BS!Part(f, t).status = 206 /\ BS!Part(f, t).from = f /\ BS!Part(f, t).to = t
      BY PartFields
    <3>3. asks = BS!Bytes(f, t)
      BY <1>2, <3>1, <3>2
    <3>4. BS!Upstream(BS!Bytes(f, t), n, TRUE) = BS!Part(f, t)
      BY <3>1, PartFields DEF BS!Upstream, BS!To, BS!Least, StreamsAssumption
    <3>5. u = BS!Part(f, t)
      BY <1>4, <3>3, <3>4
    <3>6. q.status = 206 /\ q.from = f /\ q.to = t
      BY <1>5, <1>6, <3>1, <3>2, <3>5
    <3> QED BY <2>1, <2>4, <3>1, <3>6 DEF Right
  <2> QED BY <2>2, <2>3, <2>4
<1> QED BY <1>9, <1>10, <1>11

LEMMA WebdavRight ==
  ASSUME StreamsAssumption, NEW n \in Nat, n # 0, NEW h \in BS!Headers, NEW given,
         given.length \in BOOLEAN, IF h.to = Blank THEN given.length ELSE h.to < n
  PROVE  Right(BS!WebdavStream(h, n, given), h, n)
<1> DEFINE w == BS!WebdavStream(h, n, given)
<1>1. CASE h.unit = "none"
  <2>1. h.to = Blank /\ h.from = Blank /\ given.length = TRUE
    BY <1>1, HeadersTyped
  <2>2. w.status = 200
    BY <1>1, <2>1 DEF BS!WebdavStream, BS!Answer, StreamsAssumption
  <2> QED BY <1>1, <2>2 DEF Right, BS!Legal
<1>2. CASE h.unit # "none" /\ ~BS!Legal(h)
  BY <1>2 DEF Right
<1>3. CASE BS!Legal(h)
  <2>1. /\ h.from \in Nat /\ h.to \in Nat \cup {Blank} /\ BS!From(h) = h.from /\ ~h.bad /\ h.unit = "bytes"
        /\ h.to # Blank => h.from <= h.to
    BY <1>3, HeadersTyped DEF BS!Legal, BS!From
  <2>2. n - 1 # Blank /\ n - 1 \in Int
    BY DEF StreamsAssumption
  <2>3. CASE h.from >= n
    <3>1. h.to = Blank /\ given.length = TRUE
      BY <2>1, <2>3
    <3>2. w = BS!Refuse(416)
      BY <2>1, <2>2, <2>3, <3>1 DEF BS!WebdavStream, StreamsAssumption
    <3> QED BY <2>1, <2>3, <3>2, WholeFields DEF Right
  <2>4. CASE ~(h.from >= n)
    <3>1. /\ BS!To(h, n) \in Int /\ h.from <= BS!To(h, n) /\ BS!Least(BS!To(h, n), n - 1) = BS!To(h, n)
      BY <2>1, <2>4 DEF BS!To, BS!Least, StreamsAssumption
    <3>2. w.status = 206 /\ w.from = h.from /\ w.to = BS!To(h, n)
      <4>1. CASE h.to = Blank
        <5>1. given.length = TRUE
          BY <4>1
        <5> QED BY <2>1, <2>2, <2>4, <4>1, <5>1 DEF BS!WebdavStream, BS!To, BS!Answer, StreamsAssumption
      <4>2. CASE h.to # Blank
        BY <2>1, <2>4, <4>2 DEF BS!WebdavStream, BS!To, BS!Answer, StreamsAssumption
      <4> QED BY <4>1, <4>2
    <3> QED BY <2>1, <2>4, <3>1, <3>2 DEF Right
  <2> QED BY <2>3, <2>4
<1> QED BY <1>1, <1>2, <1>3

LEMMA AnswersRight ==
  ASSUME StreamsAssumption, NEW d \in Streamers, NEW n \in Nat, NEW h \in BS!Headers,
         NEW given \in BS!Services(d), ~Strays(d, n, h, given)
  PROVE  Right(BS!Answered(d, h, n, given), h, n)
<1>1. CASE d \in {"local", "ftp", "sftp"} /\ (d # "ftp" \/ given.length)
  BY <1>1, LocalRight DEF BS!Answered, BS!FtpStream, BS!SftpStream
<1>2. CASE d = "alist"
  <2>1. n > 0
    BY <1>2 DEF Strays
  <2>2. BS!AlistStream(h, n) = IF h.unit # "bytes" THEN BS!Whole(n)
                               ELSE IF h.bad THEN BS!Refuse(400) ELSE BS!LocalStream(h, n)
    BY <2>1 DEF BS!AlistStream
  <2>3. BS!AlistStream(h, n) = BS!LocalStream(h, n)
    BY <2>2 DEF BS!LocalStream
  <2> QED BY <1>2, <2>3, LocalRight DEF BS!Answered
<1>3. CASE d \in {"googledrive", "onedrive"}
  BY <1>3, LocalRight DEF BS!Answered, BS!OnedriveStream
<1>4. CASE d = "s3"
  BY <1>4, S3Right DEF BS!Answered, Strays
<1>5. CASE d = "telegram"
  BY <1>5, S3Right DEF BS!Answered, BS!TelegramStream, Strays
<1>6. CASE d = "pikpak"
  BY <1>6, PikpakRight DEF BS!Answered, Strays
<1>7. CASE d \in {"quark", "dropbox", "foxel"}
  <2>1. given.honours = TRUE
    BY <1>7 DEF BS!Services, Strays
  <2> QED BY <1>7, <2>1, QuarkRight, DropboxRight DEF BS!Answered, BS!FoxelStream
<1>8. CASE d = "webdav"
  <2>1. n # 0 /\ given.length \in BOOLEAN /\ IF h.to = Blank THEN given.length ELSE h.to < n
    BY <1>8, HeadersTyped DEF Strays, BS!Services
  <2>2. BS!Answered(d, h, n, given) = BS!WebdavStream(h, n, given)
    BY <1>8 DEF BS!Answered
  <2> QED BY <2>1, <2>2, WebdavRight
<1>9. CASE d = "ftp" /\ ~given.length
  <2>1. h.unit = "none"
    BY <1>9 DEF Strays
  <2>2. BS!Answered(d, h, n, given) = [BS!Whole(n) EXCEPT !.length = Blank]
    BY <1>9 DEF BS!Answered, BS!FtpStream
  <2>3. BS!Answered(d, h, n, given).status = 200
    BY <2>2 DEF BS!Whole, BS!Answer
  <2> QED BY <2>1, <2>3 DEF Right, BS!Legal
<1> QED BY <1>1, <1>2, <1>3, <1>4, <1>5, <1>6, <1>7, <1>8, <1>9 DEF StreamsAssumption

LEMMA StreamsRight ==
  ASSUME StreamsAssumption, StreamsInv
  PROVE  BS!TypeOK /\ BS!AnswerIsRight /\ BS!BodyIsExact
<1>1. CASE stream = [at |-> "idle"]
  BY <1>1 DEF BS!TypeOK, BS!AnswerIsRight, BS!BodyIsExact, BS!s
<1>2. CASE stream # [at |-> "idle"]
  <2>1. PICK d \in Streamers, n \in Nat, h \in BS!Headers :
          d = stream.drive /\ n = stream.size /\ h = stream.ask
    <3>1. stream.drive \in Streamers /\ stream.size \in 0 .. MaxSize /\ stream.ask \in BS!Headers
      BY <1>2 DEF StreamsInv
    <3>2. stream.size \in Nat
      BY <3>1 DEF StreamsAssumption
    <3> QED BY <3>1, <3>2
  <2>2. PICK given \in BS!Services(d) : given = stream.up
    BY <1>2, <2>1 DEF StreamsInv
  <2>3. PICK a : a = stream.ans /\ a = BS!Answered(d, h, n, given)
    BY <1>2, <2>1, <2>2 DEF StreamsInv
  <2>4. BS!TypeOK
    BY <1>2 DEF BS!TypeOK, BS!s, StreamsInv
  <2>5. BS!AnswerIsRight
    <3>1. SUFFICES ASSUME ~BS!Deviates
                   PROVE  /\ h.unit = "none" => a.status = 200
                          /\ BS!Legal(h) => LET ref == BS!Upstream(h, n, TRUE) IN
                              /\ a.status = ref.status
                              /\ ref.status = 206 => a.from = ref.from /\ a.to = ref.to
      BY <2>1, <2>3 DEF BS!AnswerIsRight, BS!s
    <3>2. ~Strays(d, n, h, given)
      BY <2>1, <2>2, <3>1 DEF Strays, BS!Deviates, BS!s
    <3>3. Right(a, h, n)
      BY <2>3, <3>2, AnswersRight
    <3>4. PICK ref : ref = BS!Upstream(h, n, TRUE)
      OBVIOUS
    <3>5. SUFFICES /\ h.unit = "none" => a.status = 200
                   /\ BS!Legal(h) => /\ a.status = ref.status
                                     /\ ref.status = 206 => a.from = ref.from /\ a.to = ref.to
      BY <3>4
    <3>6. CASE ~BS!Legal(h)
      BY <3>3, <3>6 DEF Right
    <3>7. CASE BS!Legal(h) /\ h.from >= n
      <4>1. ref = BS!Refuse(416)
        BY <3>7, <3>4, UpstreamLegal
      <4>2. BS!Refuse(416).status = 416
        BY WholeFields
      <4>3. a.status = 416 /\ h.unit # "none"
        BY <3>3, <3>7 DEF Right, BS!Legal
      <4> QED BY <4>1, <4>2, <4>3
    <3>8. CASE BS!Legal(h) /\ ~(h.from >= n)
      <4>1. ref = BS!Part(h.from, BS!Least(BS!To(h, n), n - 1))
        BY <3>8, <3>4, UpstreamLegal
      <4>2. PICK t : t = BS!Least(BS!To(h, n), n - 1)
        OBVIOUS
      <4>3. BS!Part(h.from, t).status = 206 /\ BS!Part(h.from, t).from = h.from /\ BS!Part(h.from, t).to = t
        BY PartFields
      <4>4. a.status = 206 /\ a.from = h.from /\ a.to = t /\ h.unit # "none"
        BY <3>3, <3>8, <4>2 DEF Right, BS!Legal
      <4> QED BY <4>1, <4>2, <4>3, <4>4
    <3> QED BY <3>6, <3>7, <3>8
  <2>6. BS!BodyIsExact
    <3>1. SUFFICES ASSUME stream.at = "done", ~BS!Careless
                   PROVE  /\ stream.body = BS!Slice(a.from, Last(a, n), n)
                          /\ a.length # Blank => Len(stream.body) = a.length
      BY <2>1, <2>3 DEF BS!BodyIsExact, BS!s, Last
    <3>2. ~Flawed(stream)
      BY <3>1 DEF BS!Careless, BS!s, Flawed, Askew
    <3>3. BodySoFar(stream) /\ a.status < 400
      BY <1>2, <2>3, <3>1, <3>2 DEF StreamsInv
    <3>4. /\ a.from \in Nat /\ stream.body = Run(a.from, Len(stream.body))
          /\ Len(stream.body) = Count(a.from, Last(a, n), n)
      BY <2>1, <2>3, <3>1, <3>3 DEF BodySoFar
    <3>5. ~Askew(d, a, n, h, given.honours)
      BY <2>1, <2>2, <2>3, <3>2 DEF Flawed
    <3>6. Fits(d, a, n, h, given.honours)
      BY <2>3, <3>3, AnswersFit
    <3>7. /\ a.to \in Int \cup {Blank}
          /\ a.length # Blank => a.length = Count(a.from, Last(a, n), n)
      BY <3>5, <3>6 DEF Fits
    <3>8. PICK f \in Nat, t \in Int : f = a.from /\ t = Last(a, n)
      BY <3>4, <3>7 DEF Last
    <3>9. BS!Slice(f, t, n) = Run(f, Count(f, t, n))
      BY SliceIsRun
    <3> QED BY <3>4, <3>7, <3>8, <3>9
  <2> QED BY <2>4, <2>5, <2>6
<1> QED BY <1>1, <1>2

\* stream_file of every provider: whatever the request, the size of the file and the
\* service, and however its connections break, an answer has the range that HTTP gives it
\* and a body that ends as if complete is that part, each byte once (StreamsExact).
THEOREM StreamsAreExact == Spec => []StreamsExact
<1>1. Init => StreamsInv
  BY DEF Init, BS!Init, StreamsInv
<1>2. StreamsInv /\ [Next]_vars => StreamsInv'
  BY StreamsAssumption, StreamsKept, Turns
<1>3. StreamsInv => StreamsExact
  BY StreamsAssumption, StreamsRight DEF StreamsExact
<1> QED BY <1>1, <1>2, <1>3, PTL DEF Spec
-----------------------------------------------------------------------------
(* S3Bucket: s3.py.                                                         *)

BucketFields == {"at", "o", "parts", "got", "before", "marked", "disturbed", "lost", "left"}
Ready == {"setup", "ready"}
BucketStates == {"setup", "ready", "read", "stat", "list", "put", "mkdir", "create", "part", "complete",
                 "abort", "head", "look", "delete", "free", "copy", "done", "failed"}
Carrying == {"copy", "move"}

BucketTyped ==
    /\ SB!TypeOK
    /\ s3job.at \in Ready => DOMAIN s3job = {"at"}
    /\ s3job.at \notin Ready =>
        /\ DOMAIN s3job = BucketFields /\ SB!o \in SB!S3Operations /\ s3job.parts \in Nat
        /\ s3job.before \in [Keys -> SB!Contents]
        /\ s3job.disturbed \in BOOLEAN /\ s3job.left \in BOOLEAN /\ s3job.lost \in BOOLEAN

\* An upload is open only while its stream goes on, unless one was left.
UploadOpen ==
    /\ s3job.at \in Ready => uploads = {}
    /\ s3job.at \in {"part", "complete", "abort"} => s3job.left \/ uploads \subseteq {<<SB!o.p, TRUE>>}
    /\ s3job.at \notin Ready \cup {"part", "complete", "abort"} => s3job.left \/ uploads = {}

\* Where the objects of a copy or a move are, request by request, undisturbed.
Way(x) ==
    /\ s3job.at \in {"free", "copy", "head", "look", "delete", "done", "failed"}
    /\ s3job.at \in {"head", "look", "delete"} => x.op = "move"
    /\ s3job.at \in {"free", "copy"} => object = s3job.before
    /\ s3job.at = "copy" /\ x.op = "copy" /\ ~x.overwrite => object[x.q] = Void
    /\ s3job.before[x.p] # Void =>
        /\ s3job.at \in {"head", "look", "delete"} =>
            object[x.q] = s3job.before[x.p] /\ object[x.p] = s3job.before[x.p]
        /\ s3job.at = "done" => object[x.q] = s3job.before[x.p]
        /\ s3job.at = "failed" => \/ object[x.p] = s3job.before[x.p]
                                  \/ s3job.lost /\ object[x.q] = s3job.before[x.p]
OnTheWay ==
    s3job.at \notin Ready /\ SB!o.op \in Carrying /\ ~s3job.disturbed => Way(SB!o)

BucketInv == BucketTyped /\ UploadOpen /\ OnTheWay

\* Other fields of the job than at, got, parts and left do not matter to what is typed.
LEMMA JobGoes ==
  ASSUME BucketTyped, s3job.at \notin Ready, DOMAIN s3job' = DOMAIN s3job,
         s3job'.at \in BucketStates \ Ready, s3job'.o = s3job.o, s3job'.parts \in Nat,
         s3job'.before = s3job.before, s3job'.disturbed \in BOOLEAN, s3job'.left \in BOOLEAN,
         s3job'.lost \in BOOLEAN,
         object' \in [Keys -> SB!Contents], mark' \subseteq Keys, uploads' \subseteq Keys \X BOOLEAN
  PROVE  BucketTyped'
BY DEF BucketTyped, SB!TypeOK, SB!o, BucketStates, SB!Contents, SB!S3Operations, Ready

LEMMA BucketOps ==
  ASSUME BucketTyped, s3job.at \notin Ready
  PROVE  /\ SB!o.p \in Keys /\ SB!o.q \in Keys
         /\ SB!o.op \in Carrying => SB!o.q # SB!o.p
BY DEF BucketTyped, SB!S3Operations, Carrying

LEMMA BucketTypes ==
  ASSUME BucketInv
  PROVE  object \in [Keys -> SB!Contents] /\ mark \subseteq Keys /\ uploads \subseteq Keys \X BOOLEAN
BY DEF BucketInv, BucketTyped, SB!TypeOK

LEMMA BucketBegins ==
  ASSUME Init
  PROVE  BucketInv
BY DEF Init, SB!Init, BucketInv, BucketTyped, UploadOpen, OnTheWay, SB!TypeOK, Ready, SB!Contents

LEMMA BucketSetup ==
  ASSUME BucketInv, SB!S3Setup
  PROVE  BucketInv'
<1>1. s3job' = [s3job EXCEPT !.at = "ready"] /\ s3job.at = "setup" /\ uploads' = uploads
  BY DEF SB!S3Setup, SB!Goes
<1>2. DOMAIN s3job = {"at"}
  BY <1>1 DEF BucketInv, BucketTyped, Ready
<1>3. s3job'.at = "ready" /\ DOMAIN s3job' = {"at"}
  BY <1>1, <1>2
<1>4. object' \in [Keys -> SB!Contents]
  <2>1. object' \in [Keys -> Keys \cup {Void}]
    BY DEF SB!S3Setup
  <2> QED BY <2>1 DEF SB!Contents
<1>5. mark' \subseteq Keys
  BY DEF SB!S3Setup
<1>6. uploads = {}
  BY <1>1 DEF BucketInv, UploadOpen, Ready
<1> QED BY <1>1, <1>3, <1>4, <1>5, <1>6 DEF BucketInv, BucketTyped, SB!TypeOK, UploadOpen, OnTheWay, Ready

LEMMA BucketBegin ==
  ASSUME BucketInv, NEW x \in SB!S3Operations, SB!S3Begin(x)
  PROVE  BucketInv'
<1>1. s3job.at = "ready" /\ object' = object /\ mark' = mark /\ uploads' = uploads
  BY DEF SB!S3Begin
<1>2. /\ DOMAIN s3job' = BucketFields /\ s3job'.o = x /\ s3job'.parts = 0
      /\ s3job'.before = object /\ s3job'.disturbed = FALSE /\ s3job'.left = FALSE
      /\ s3job'.lost = FALSE
  BY DEF SB!S3Begin, BucketFields
<1>3. s3job'.at = CASE x.op = "copy" -> IF x.overwrite THEN "copy" ELSE "free"
                    [] x.op = "move" -> "copy"
                    [] x.op = "stream" -> "create"
                    [] x.op = "delete" -> "head"
                    [] OTHER -> x.op
  BY DEF SB!S3Begin
<1>4. x.op \in {"read", "stat", "list", "put", "stream", "mkdir", "delete", "copy", "move"}
  BY DEF SB!S3Operations
<1>5. s3job'.at \in BucketStates \ (Ready \cup {"part", "complete", "abort"})
  BY <1>3, <1>4 DEF BucketStates, Ready
<1>6. uploads = {}
  BY <1>1 DEF BucketInv, UploadOpen, Ready
<1>7. BucketTyped'
  <2>1. object \in [Keys -> SB!Contents] /\ mark \subseteq Keys /\ uploads \subseteq Keys \X BOOLEAN
    BY BucketTypes
  <2>2. s3job'.at \in BucketStates \ Ready
    BY <1>5
  <2>3. SB!TypeOK'
    BY <1>1, <2>1, <2>2 DEF SB!TypeOK, BucketStates, SB!Contents
  <2>4. s3job'.before \in [Keys -> SB!Contents]
    BY <1>2, <2>1
  <2>5. SB!o' \in SB!S3Operations
    BY <1>2 DEF SB!o
  <2>6. s3job'.parts \in Nat
    BY <1>2
  <2>8. s3job'.disturbed \in BOOLEAN /\ s3job'.left \in BOOLEAN /\ s3job'.lost \in BOOLEAN
    BY <1>2, Zenon
  <2>7. s3job'.at \notin Ready /\ DOMAIN s3job' = BucketFields
    BY <1>2, <2>2
  <2> QED BY <2>3, <2>4, <2>5, <2>6, <2>7, <2>8 DEF BucketTyped
<1>8. UploadOpen'
  BY <1>1, <1>5, <1>6 DEF UploadOpen
<1>9. ASSUME x.op \in Carrying PROVE Way(x)'
  <2>1. s3job'.at \in {"free", "copy"}
    BY <1>3, <1>9 DEF Carrying
  <2>2. ~(s3job'.at = "copy" /\ x.op = "copy" /\ ~x.overwrite)
    BY <1>3, <1>9 DEF Carrying
  <2> QED BY <1>1, <1>2, <2>1, <2>2 DEF Way
<1>10. OnTheWay'
  BY <1>2, <1>9 DEF OnTheWay, SB!o
<1> QED BY <1>7, <1>8, <1>10 DEF BucketInv

\* What a step says of the job when it only goes on, or comes to an end.
LEMMA BucketMoves ==
  ASSUME BucketInv, s3job.at \notin Ready, NEW at \in BucketStates \ Ready,
         \/ s3job' = [s3job EXCEPT !.at = at]
         \/ \E v : s3job' = [s3job EXCEPT !.at = at, !.got = v],
         object' \in [Keys -> SB!Contents], mark' \subseteq Keys, uploads' \subseteq Keys \X BOOLEAN
  PROVE  /\ BucketTyped'
         /\ s3job'.at = at /\ s3job'.o = s3job.o /\ s3job'.before = s3job.before
         /\ s3job'.disturbed = s3job.disturbed /\ s3job'.left = s3job.left /\ s3job'.lost = s3job.lost
<1>1. DOMAIN s3job = BucketFields
  BY DEF BucketInv, BucketTyped
<1>2. /\ DOMAIN s3job' = BucketFields /\ s3job'.parts = s3job.parts
      /\ s3job'.at = at /\ s3job'.o = s3job.o /\ s3job'.before = s3job.before
      /\ s3job'.disturbed = s3job.disturbed /\ s3job'.left = s3job.left /\ s3job'.lost = s3job.lost
  BY <1>1 DEF BucketFields
<1>3. s3job.parts \in Nat /\ s3job.disturbed \in BOOLEAN /\ s3job.left \in BOOLEAN /\ s3job.lost \in BOOLEAN
  BY DEF BucketInv, BucketTyped
<1>4. BucketTyped'
  BY <1>1, <1>2, <1>3, JobGoes DEF BucketInv
<1> QED BY <1>2, <1>4

\* Requests of reads, listings, put and mkdir.
LEMMA BucketSimple ==
  ASSUME BucketInv, SB!S3Read \/ SB!S3Stat \/ SB!S3List \/ SB!S3Put \/ SB!S3Mkdir
  PROVE  BucketInv'
<1>1. s3job.at \in {"read", "stat", "list", "put", "mkdir"} /\ uploads' = uploads
  BY DEF SB!S3Read, SB!S3Stat, SB!S3List, SB!S3Put, SB!S3Mkdir
<1>2. SB!o.p \in Keys
  BY <1>1, BucketOps DEF BucketInv, Ready
<1>3. object' \in [Keys -> SB!Contents] /\ mark' \subseteq Keys /\ uploads' \subseteq Keys \X BOOLEAN
  BY <1>2, BucketTypes DEF SB!S3Read, SB!S3Stat, SB!S3List, SB!S3Put, SB!S3Mkdir, SB!Contents
<1>4. PICK at \in {"done", "failed"} : \/ s3job' = [s3job EXCEPT !.at = at]
                                       \/ \E v : s3job' = [s3job EXCEPT !.at = at, !.got = v]
  BY DEF SB!S3Read, SB!S3Stat, SB!S3List, SB!S3Put, SB!S3Mkdir, SB!Goes, SB!Fetch, SB!Answered
<1>5. at \in BucketStates \ Ready /\ s3job.at \notin Ready
  BY <1>1 DEF BucketStates, Ready
<1>6. /\ BucketTyped' /\ s3job'.at = at /\ s3job'.o = s3job.o /\ s3job'.left = s3job.left
      /\ s3job'.disturbed = s3job.disturbed
  BY <1>3, <1>4, <1>5, BucketMoves
<1>7. UploadOpen'
  BY <1>1, <1>6 DEF BucketInv, UploadOpen, Ready
<1>8. OnTheWay'
  BY <1>1, <1>6 DEF BucketInv, OnTheWay, Way, SB!o, Ready
<1> QED BY <1>6, <1>7, <1>8 DEF BucketInv

\* Requests of a stream.
LEMMA BucketStream ==
  ASSUME BucketInv, SB!S3Create \/ SB!S3Part \/ SB!S3Complete \/ SB!S3Abort \/ SB!S3Cancel
  PROVE  BucketInv'
<1>1. s3job.at \in {"create", "part", "complete", "abort"} /\ mark' = mark
  BY DEF SB!S3Create, SB!S3Part, SB!S3Complete, SB!S3Abort, SB!S3Cancel
<1>2. SB!o.p \in Keys /\ DOMAIN s3job = BucketFields /\ s3job.at \notin Ready
  BY <1>1, BucketOps DEF BucketInv, BucketTyped, Ready
<1>3. /\ s3job.parts \in Nat /\ s3job.disturbed \in BOOLEAN /\ s3job.left \in BOOLEAN
      /\ s3job.lost \in BOOLEAN
  BY <1>2 DEF BucketInv, BucketTyped
<1>4. object' \in [Keys -> SB!Contents] /\ mark' \subseteq Keys /\ uploads' \subseteq Keys \X BOOLEAN
  <2>1. object \in [Keys -> SB!Contents] /\ mark \subseteq Keys /\ uploads \subseteq Keys \X BOOLEAN
    BY BucketTypes
  <2>2. object' \in [Keys -> SB!Contents]
    BY <1>2, <2>1 DEF SB!S3Create, SB!S3Part, SB!S3Complete, SB!S3Abort, SB!S3Cancel, SB!Contents
  <2>3. uploads' \in {uploads, uploads \cup {<<SB!o.p, TRUE>>}, uploads \cup {<<SB!o.p, FALSE>>},
                     uploads \ {<<SB!o.p, TRUE>>}}
    BY DEF SB!S3Create, SB!S3Part, SB!S3Complete, SB!S3Abort, SB!S3Cancel
  <2>5. <<SB!o.p, TRUE>> \in Keys \X BOOLEAN /\ <<SB!o.p, FALSE>> \in Keys \X BOOLEAN
    BY <1>2
  <2>4. uploads' \subseteq Keys \X BOOLEAN
    BY <2>1, <2>3, <2>5, Zenon
  <2> QED BY <1>1, <2>1, <2>2, <2>4
<1>5. /\ DOMAIN s3job' = BucketFields /\ s3job'.o = s3job.o /\ s3job'.before = s3job.before
      /\ s3job'.disturbed = s3job.disturbed /\ s3job'.lost = s3job.lost
      /\ s3job'.left \in {s3job.left, TRUE} /\ s3job'.parts \in {s3job.parts, s3job.parts + 1}
      /\ s3job'.at \in {"create", "part", "complete", "abort", "done", "failed"}
  BY <1>1, <1>2 DEF SB!S3Create, SB!S3Part, SB!S3Complete, SB!S3Abort, SB!S3Cancel, SB!Goes, SB!Answered,
                    BucketFields
<1>6. BucketTyped'
  <2>3. s3job'.at \in BucketStates \ Ready
    BY <1>5 DEF BucketStates, Ready
  <2>4. s3job'.parts \in Nat
    BY <1>3, <1>5
  <2>5. s3job'.left \in BOOLEAN
    BY <1>3, <1>5
  <2>2. BucketTyped /\ DOMAIN s3job' = DOMAIN s3job
    BY <1>2, <1>5 DEF BucketInv
  <2> QED BY <1>2, <1>3, <1>4, <1>5, <2>2, <2>3, <2>4, <2>5, JobGoes
<1>7. UploadOpen'
  <2>1. UploadOpen
    BY DEF BucketInv
  <2>2. CASE SB!S3Create
    <3>1. s3job.at = "create" /\ (s3job.left \/ uploads = {})
      BY <2>1, <2>2 DEF SB!S3Create, UploadOpen, Ready
    <3>2. CASE uploads' = uploads \cup {<<SB!o.p, TRUE>>} /\ SB!Goes("part")
      <4>1. s3job'.at = "part" /\ s3job'.left = s3job.left
        BY <1>2, <3>2 DEF SB!Goes, BucketFields
      <4> QED BY <1>5, <3>1, <3>2, <4>1 DEF UploadOpen, SB!o, Ready
    <3>3. CASE \E pc \in {"create", "failed"} : s3job' = [s3job EXCEPT !.at = pc, !.left = TRUE]
      <4>1. s3job'.at \in {"create", "failed"} /\ s3job'.left
        BY <1>2, <3>3 DEF BucketFields
      <4> QED BY <4>1 DEF UploadOpen, Ready
    <3> QED BY <2>2, <3>2, <3>3 DEF SB!S3Create
  <2>3. CASE SB!S3Part
    BY <1>2, <1>5, <2>1, <2>3 DEF UploadOpen, SB!S3Part, SB!Goes, SB!o, Ready, BucketFields
  <2>4. CASE SB!S3Complete
    BY <1>2, <1>5, <2>1, <2>4 DEF UploadOpen, SB!S3Complete, SB!Goes, SB!Answered, SB!o, Ready,
                                    BucketFields
  <2>5. CASE SB!S3Abort
    BY <1>2, <1>5, <2>1, <2>5 DEF UploadOpen, SB!S3Abort, SB!Goes, SB!o, Ready, BucketFields
  <2>6. CASE SB!S3Cancel
    BY <1>2, <1>5, <2>1, <2>6 DEF UploadOpen, SB!S3Cancel, SB!o, Ready, BucketFields
  <2> QED BY <2>2, <2>3, <2>4, <2>5, <2>6
<1>8. OnTheWay'
  BY <1>1, <1>2, <1>5 DEF BucketInv, OnTheWay, Way, SB!o, Ready
<1> QED BY <1>6, <1>7, <1>8 DEF BucketInv

\* A request that fails.
LEMMA BucketFails ==
  ASSUME BucketInv, SB!S3Fail
  PROVE  BucketInv'
<1>1. /\ s3job.at \in BucketStates \ (Ready \cup {"done", "failed", "abort"})
      /\ object' = object /\ mark' = mark /\ uploads' = uploads
  BY DEF BucketInv, BucketTyped, SB!TypeOK, SB!S3Fail, BucketStates, Ready
<1>2. PICK at \in {"abort", "failed"} :
        /\ s3job' = [s3job EXCEPT !.at = at]
        /\ at = "abort" <=> s3job.at \in {"part", "complete"}
  BY DEF SB!S3Fail, SB!Goes
<1>3. at \in BucketStates \ Ready /\ s3job.at \notin Ready
  BY <1>1 DEF BucketStates, Ready
<1>4. /\ BucketTyped' /\ s3job'.at = at /\ s3job'.o = s3job.o /\ s3job'.left = s3job.left
      /\ s3job'.disturbed = s3job.disturbed /\ s3job'.before = s3job.before
  BY <1>1, <1>2, <1>3, BucketMoves, BucketTypes
<1>5. UploadOpen'
  BY <1>1, <1>2, <1>4 DEF BucketInv, UploadOpen, Ready, SB!o
<1>6. ASSUME Way(SB!o), SB!o.op \in Carrying PROVE Way(SB!o)'
  <2>1. s3job.at \in {"free", "copy", "head", "look", "delete"}
    BY <1>1, <1>6 DEF Way
  <2>2. s3job'.at = "failed"
    BY <1>2, <1>4, <2>1
  <2> QED BY <1>1, <1>4, <1>6, <2>1, <2>2 DEF Way, SB!o
<1>7. OnTheWay'
  BY <1>3, <1>4, <1>6 DEF BucketInv, OnTheWay, SB!o, Ready
<1> QED BY <1>4, <1>5, <1>7 DEF BucketInv

\* Requests of a delete, a copy and a move.
LEMMA BucketCarries ==
  ASSUME BucketInv, SB!S3Head \/ SB!S3Look \/ SB!S3Delete \/ SB!S3Free \/ SB!S3Copy
  PROVE  BucketInv'
<1>1. s3job.at \in {"head", "look", "delete", "free", "copy"} /\ mark' = mark /\ uploads' = uploads
  BY DEF SB!S3Head, SB!S3Look, SB!S3Delete, SB!S3Free, SB!S3Copy
<1>0. DOMAIN s3job = BucketFields /\ s3job.lost \in BOOLEAN
  BY <1>1 DEF BucketInv, BucketTyped, Ready
<1>2. PICK at \in {"look", "failed", "delete", "done", "copy", "head"}, lost \in {s3job.lost, TRUE} :
        s3job' = [s3job EXCEPT !.at = at, !.lost = lost]
  <2>1. ASSUME NEW at, SB!Goes(at) PROVE s3job' = [s3job EXCEPT !.at = at, !.lost = s3job.lost]
    BY <1>0, <2>1 DEF SB!Goes, BucketFields
  <2>2. CASE \E at \in {"look", "failed", "delete", "done", "copy", "head"} : SB!Goes(at)
    BY <2>1, <2>2
  <2>3. CASE s3job' = [s3job EXCEPT !.at = "failed", !.lost = TRUE]
    BY <2>3
  <2>4. \/ \E at \in {"look", "failed", "delete", "done", "copy", "head"} : SB!Goes(at)
        \/ s3job' = [s3job EXCEPT !.at = "failed", !.lost = TRUE]
    BY DEF SB!S3Head, SB!S3Look, SB!S3Delete, SB!S3Free, SB!S3Copy, SB!Answered
  <2> QED BY <2>2, <2>3, <2>4
<1>3. at \in BucketStates \ Ready /\ s3job.at \notin Ready
  BY <1>1 DEF BucketStates, Ready
<1>4. SB!o.p \in Keys /\ SB!o.q \in Keys
  BY <1>3, BucketOps DEF BucketInv
<1>5. object' \in [Keys -> SB!Contents] /\ mark' \subseteq Keys /\ uploads' \subseteq Keys \X BOOLEAN
  BY <1>4, BucketTypes DEF SB!S3Head, SB!S3Look, SB!S3Delete, SB!S3Free, SB!S3Copy, SB!Contents
<1>6. /\ BucketTyped' /\ s3job'.at = at /\ s3job'.o = s3job.o /\ s3job'.left = s3job.left
      /\ s3job'.disturbed = s3job.disturbed /\ s3job'.before = s3job.before
  <2>1. /\ DOMAIN s3job' = BucketFields /\ s3job'.parts = s3job.parts
        /\ s3job'.at = at /\ s3job'.o = s3job.o /\ s3job'.before = s3job.before
        /\ s3job'.disturbed = s3job.disturbed /\ s3job'.left = s3job.left /\ s3job'.lost = lost
    BY <1>0, <1>2 DEF BucketFields
  <2>2. s3job.parts \in Nat /\ s3job.disturbed \in BOOLEAN /\ s3job.left \in BOOLEAN /\ lost \in BOOLEAN
    BY <1>0, <1>3 DEF BucketInv, BucketTyped
  <2>3. BucketTyped'
    BY <1>0, <1>3, <1>5, <2>1, <2>2, JobGoes DEF BucketInv
  <2> QED BY <2>1, <2>3
<1>7. UploadOpen'
  BY <1>1, <1>6 DEF BucketInv, UploadOpen, Ready
<1>8. ASSUME Way(SB!o), SB!o.op \in Carrying PROVE Way(SB!o)'
  <2>1. SB!o.p # SB!o.q /\ object \in [Keys -> SB!Contents]
    BY <1>3, <1>8, BucketOps, BucketTypes DEF BucketInv
  <2>2. s3job'.at = at /\ SB!o' = SB!o /\ s3job'.before = s3job.before
    BY <1>6 DEF SB!o
  <2>3. PICK x : x = SB!o
    OBVIOUS
  <2>11. \A pc : SB!Goes(pc) => at = pc
    BY <1>0, <1>2 DEF SB!Goes, BucketFields
  <2>4. x.p \in Keys /\ x.q \in Keys /\ x.p # x.q /\ Way(x) /\ x.op \in Carrying
    BY <1>4, <1>8, <2>1, <2>3
  <2> SUFFICES Way(x)'
    BY <2>2, <2>3
  <2>5. CASE SB!S3Head
    BY <2>2, <2>4, <2>5, <2>11 DEF SB!S3Head, Way
  <2>6. CASE SB!S3Look
    BY <2>2, <2>4, <2>6, <2>11 DEF SB!S3Look, Way
  <2>7. CASE SB!S3Delete
    <3>1. object' = [object EXCEPT ![x.p] = Void] /\ s3job.at = "delete"
      BY <2>3, <2>7 DEF SB!S3Delete
    <3>2. at = "done" \/ (at = "failed" /\ s3job'.lost)
      BY <1>0, <2>2, <2>7, <2>11 DEF SB!S3Delete, BucketFields
    <3> QED BY <2>1, <2>2, <2>4, <3>1, <3>2 DEF Way
  <2>8. CASE SB!S3Free
    BY <2>2, <2>3, <2>4, <2>8, <2>11 DEF SB!S3Free, SB!Exists, Way
  <2>9. CASE SB!S3Copy
    <3>1. CASE object[x.p] # Void
      <4>1. /\ object' = [object EXCEPT ![x.q] = object[x.p]]
            /\ at \in {IF x.op = "move" THEN "head" ELSE "done", "failed"}
        BY <2>3, <2>9, <2>11, <3>1 DEF SB!S3Copy, SB!Exists, SB!Answered
      <4>2. object'[x.q] = object[x.p] /\ object'[x.p] = object[x.p]
        BY <2>1, <2>4, <4>1
      <4>3. object = s3job.before
        BY <2>4, <2>9 DEF SB!S3Copy, Way
      <4>4. at \in {"head", "done", "failed"} /\ (at = "head" => x.op = "move")
        BY <4>1
      <4> QED BY <2>2, <4>2, <4>3, <4>4 DEF Way
    <3>2. CASE object[x.p] = Void
      <4>1. object' = object /\ at = "failed" /\ object = s3job.before
        BY <2>3, <2>4, <2>9, <2>11, <3>2 DEF SB!S3Copy, SB!Exists, Way
      <4> QED BY <2>2, <3>2, <4>1 DEF Way
    <3> QED BY <3>1, <3>2
  <2> QED
    BY <2>5, <2>6, <2>7, <2>8, <2>9
<1>9. OnTheWay'
  BY <1>3, <1>6, <1>8 DEF BucketInv, OnTheWay, SB!o, Ready
<1> QED BY <1>6, <1>7, <1>9 DEF BucketInv

\* Somebody else puts or deletes an object.
LEMMA BucketDisturbed ==
  ASSUME BucketInv, NEW p \in Keys, SB!S3Interfere(p)
  PROVE  BucketInv'
<1>1. s3job.at \notin Ready /\ mark' = mark /\ uploads' = uploads
  BY DEF SB!S3Interfere, Ready
<1>2. s3job' = [s3job EXCEPT !.disturbed = TRUE] /\ DOMAIN s3job = BucketFields
  BY <1>1 DEF SB!S3Interfere, BucketInv, BucketTyped
<1>3. /\ DOMAIN s3job' = BucketFields /\ s3job'.at = s3job.at /\ s3job'.o = s3job.o
      /\ s3job'.parts = s3job.parts /\ s3job'.before = s3job.before /\ s3job'.left = s3job.left
      /\ s3job'.lost = s3job.lost
      /\ s3job'.disturbed = TRUE
  BY <1>2 DEF BucketFields
<1>4. object' \in [Keys -> SB!Contents]
  BY BucketTypes DEF SB!S3Interfere, SB!Contents
<1>5. BucketTyped'
  BY <1>1, <1>2, <1>3, <1>4, BucketTypes, JobGoes DEF BucketInv, BucketTyped, SB!TypeOK, BucketStates, Ready
<1>6. UploadOpen'
  BY <1>1, <1>3 DEF BucketInv, UploadOpen, SB!o
<1>7. OnTheWay'
  BY <1>3 DEF OnTheWay
<1> QED BY <1>5, <1>6, <1>7 DEF BucketInv

LEMMA BucketStays ==
  ASSUME BucketInv, [SB!Next]_s3vars
  PROVE  BucketInv'
<1>1. CASE UNCHANGED s3vars
  BY <1>1 DEF s3vars, BucketInv, BucketTyped, UploadOpen, OnTheWay, Way, SB!TypeOK, SB!o
<1> QED BY <1>1, BucketSetup, BucketBegin, BucketSimple, BucketStream, BucketFails, BucketCarries,
           BucketDisturbed DEF SB!Next

LEMMA BucketInvServes ==
  ASSUME BucketInv
  PROVE  SB!TypeOK /\ SB!NoUploadLeft /\ SB!S3SourceKept /\ SB!S3CopyStep
<1>1. SB!TypeOK
  BY DEF BucketInv, BucketTyped
<1>2. SB!NoUploadLeft
  BY DEF BucketInv, UploadOpen, SB!NoUploadLeft, SB!Ended, Ready
<1>3. SB!S3SourceKept
  BY DEF BucketInv, OnTheWay, Way, SB!S3SourceKept, SB!Ended, SB!WasFile, Ready, Carrying
<1>4. SB!S3CopyStep
  BY DEF BucketInv, OnTheWay, Way, SB!S3CopyStep, Ready, Carrying
<1> QED BY <1>1, <1>2, <1>3, <1>4

\* s3.py: whatever the keys and the parts of a stream, whichever request fails, no multipart
\* upload stays behind a stream that ended, unless its abort failed too, it was cancelled or
\* nobody was told its id; a copy or a move keeps the content of its source, whichever answer
\* is lost, and a copy not asked to overwrite replaces no object, unless somebody interfered
\* (BucketKept).
THEOREM BucketIsKept == Spec => BucketKept
<1>1. Init => BucketInv
  BY BucketBegins
<1>2. BucketInv /\ [Next]_vars => BucketInv'
  BY Turns, BucketStays
<1>3. BucketInv => (turn = "s3" => SB!TypeOK /\ SB!NoUploadLeft /\ SB!S3SourceKept)
  BY BucketInvServes
<1>4. BucketInv /\ [Next]_vars => [SB!S3CopyStep]_s3vars
  BY BucketInvServes
<1>5. SB!S3Unasked <=> [][SB!S3CopyStep]_s3vars
  BY DEF SB!S3Unasked, SB!s3vars, s3vars
<1> QED BY <1>1, <1>2, <1>3, <1>4, <1>5, PTL DEF Spec, BucketKept
=============================================================================
