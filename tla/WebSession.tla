------------------------------ MODULE WebSession ------------------------------
(***************************************************************************)
(* The web client's side of a session (web/src/api/client.ts) over the     *)
(* server's AccountSessions: the tabs of one browser, each with its own    *)
(* copy of the tokens, and a network that delays answers and may lose      *)
(* them.  A tab that never reloads is as good as another device.           *)
(*                                                                         *)
(* Only the account's identity is followed; anonymous ones are all alike   *)
(* (NoSession).  A step of a tab runs from one await to the next.          *)
(*                                                                         *)
(* sessionRevision is only ever compared with its value at the start of    *)
(* the refresh in flight: the flight records whether it has changed.       *)
(***************************************************************************)
EXTENDS AccountSessions

CONSTANTS
  Tab,
  Does      \* Does[c]: what the user does in tab c, besides signing in

Op == {"read", "password", "delete", "logout", "logout_all"}

ASSUME WebAssumption == Does \in [Tab -> SUBSET Op]

VARIABLES
  stored,   \* the session in localStorage
  held,     \* per tab: the session in memory, and whether it is taken for fresh
  flight,   \* per tab: the refresh in progress (sessionPromise)
  login,    \* per tab: a sign-in or registration in progress
  request,  \* per tab: an authenticated request
  leaving,  \* per tab: the best-effort revocation sent by a sign-out
  wanted,   \* history, per tab: the user has not signed out since signing in
  alarmed   \* history: the server has taken a token for a stolen one

clientVars == <<stored, held, flight, login, request, leaving, wanted, alarmed>>
vars == <<serverVars, clientVars>>

None == [sid |-> NoSession, fresh |-> FALSE]
NoFlight == [phase |-> "none", sid |-> NoSession, got |-> NoSession, changed |-> FALSE]
NoLogin == [phase |-> "none", got |-> NoSession]
NoRequest == [phase |-> "none", op |-> "read", tok |-> NoSession, retried |-> FALSE]
NotLeaving == [phase |-> "none", op |-> "logout", tok |-> NoSession]

SomeSession == Session \cup {NoSession}

\* A request made by the account carries a token of the account.
Request ==
  {NoRequest} \cup
  [phase : {"sent", "admitted", "refused", "waiting", "deleted"},
   op : {"read", "password", "delete"}, tok : Session, retried : BOOLEAN]

TypeOK ==
  /\ ServerTypeOK
  /\ stored \in SomeSession
  /\ held \in [Tab -> [sid : SomeSession, fresh : BOOLEAN]]
  /\ flight \in [Tab -> [phase : {"none", "sent", "serving", "answered", "refused",
                                  "anonymous"},
                         sid : SomeSession, got : SomeSession, changed : BOOLEAN]]
  /\ login \in [Tab -> [phase : {"none", "serving", "answered"}, got : SomeSession]]
  /\ request \in [Tab -> Request]
  /\ leaving \in [Tab -> [phase : {"none", "sent", "admitted", "sweeping"},
                          op : {"logout", "logout_all"}, tok : SomeSession]]
  /\ wanted \in [Tab -> BOOLEAN]
  /\ alarmed \in BOOLEAN

Init ==
  /\ ServerInit
  /\ stored = NoSession
  /\ held = [c \in Tab |-> None]
  /\ flight = [c \in Tab |-> NoFlight]
  /\ login = [c \in Tab |-> NoLogin]
  /\ request = [c \in Tab |-> NoRequest]
  /\ leaving = [c \in Tab |-> NotLeaving]
  /\ wanted = [c \in Tab |-> FALSE]
  /\ alarmed = FALSE

SignedIn(c) == held[c].sid # NoSession

-----------------------------------------------------------------------------
(* The two helpers of the client that change its session.                  *)

\* saveSession: memory, storage and the revision.
Save(c, sid) ==
  /\ held' = [held EXCEPT ![c] = [sid |-> sid, fresh |-> sid # NoSession]]
  /\ stored' = sid

Bumped(f) == [f EXCEPT !.changed = f # NoFlight]

\* A refresh of sid; one whose refresh token has expired is not even tried.
NewFlight(sid) ==
  [phase |-> IF session[sid].expired THEN "anonymous" ELSE "sent",
   sid |-> sid, got |-> NoSession, changed |-> FALSE]

\* The callers that wait for the refresh go on with the session it returns.
ResumedAnyway(r, sid) ==
  IF r.phase # "waiting" THEN r
  ELSE [r EXCEPT !.phase = "sent", !.tok = sid, !.retried = TRUE]
Resumed(r, sid) ==
  IF r.phase # "waiting" THEN r
  ELSE IF sid = NoSession THEN NoRequest
  ELSE [r EXCEPT !.phase = "sent", !.tok = sid, !.retried = TRUE]

-----------------------------------------------------------------------------
(* ensureSession and bootstrapSession.                                     *)

\* The session comes within 30 s of its expiry.
Stale(c) ==
  /\ SignedIn(c) /\ held[c].fresh
  /\ held' = [held EXCEPT ![c].fresh = FALSE]
  /\ UNCHANGED <<serverVars, stored, flight, login, request, leaving, wanted, alarmed>>

StartRefresh(c) ==
  /\ SignedIn(c) /\ ~ held[c].fresh
  /\ flight[c] = NoFlight
  /\ flight' = [flight EXCEPT ![c] = NewFlight(held[c].sid)]
  /\ UNCHANGED <<serverVars, stored, held, login, request, leaving, wanted, alarmed>>

\* The server's side of the refresh.
ServeRefresh(c) ==
  /\ flight[c].phase = "sent"
  /\ BeginRefresh(flight[c].sid)
  /\ flight' = [flight EXCEPT ![c].phase = "serving"]
  /\ UNCHANGED <<stored, held, login, request, leaving, wanted, alarmed>>

CommitRefresh(c, n) ==
  /\ flight[c].phase = "serving"
  /\ FinishRefresh(n)
  /\ flight' = [flight EXCEPT ![c].phase = "answered", ![c].got = n]
  /\ UNCHANGED <<stored, held, login, request, leaving, wanted, alarmed>>

RefuseRefresh(c) ==
  /\ flight[c].phase = "sent"
  /\ \/ ReuseAlarm(flight[c].sid) /\ alarmed' = TRUE
     \/ RefuseExpired(flight[c].sid) /\ UNCHANGED alarmed
  /\ flight' = [flight EXCEPT ![c].phase = "refused"]
  /\ UNCHANGED <<stored, held, login, request, leaving, wanted>>

\* The refresh returns sid to whoever waits for it.
EndFlight(c, sid) ==
  /\ flight' = [flight EXCEPT ![c] = NoFlight]
  /\ request' = [request EXCEPT ![c] = Resumed(@, sid)]

\* The revision is not looked at again.
TakeRefreshAlways(c) ==
  /\ flight[c].phase = "answered"
  /\ EndFlight(c, flight[c].got) /\ Save(c, flight[c].got)
  /\ UNCHANGED <<serverVars, login, leaving, wanted, alarmed>>
TakeRefresh(c) ==
  /\ flight[c].phase = "answered"
  /\ IF flight[c].changed
       THEN EndFlight(c, held[c].sid) /\ UNCHANGED <<stored, held>>
       ELSE EndFlight(c, flight[c].got) /\ Save(c, flight[c].got)
  /\ UNCHANGED <<serverVars, login, leaving, wanted, alarmed>>

\* A 401: on with an anonymous session, asked of the server.
TakeRefusal(c) ==
  /\ flight[c].phase = "refused"
  /\ IF flight[c].changed
       THEN EndFlight(c, held[c].sid)
       ELSE /\ flight' = [flight EXCEPT ![c].phase = "anonymous"]
            /\ UNCHANGED request
  /\ UNCHANGED <<serverVars, stored, held, login, leaving, wanted, alarmed>>

TakeAnonymous(c) ==
  /\ flight[c].phase = "anonymous"
  /\ IF flight[c].changed
       THEN EndFlight(c, held[c].sid) /\ UNCHANGED <<stored, held>>
       ELSE EndFlight(c, NoSession) /\ Save(c, NoSession)
  /\ UNCHANGED <<serverVars, login, leaving, wanted, alarmed>>

\* A request or its answer is lost, or the server's transaction fails.
FailRefresh(c) ==
  /\ \/ flight[c].phase \in {"sent", "answered", "refused", "anonymous"}
        /\ UNCHANGED serverVars
     \/ flight[c].phase = "serving" /\ Abort
  /\ EndFlight(c, NoSession)
  /\ UNCHANGED <<stored, held, login, leaving, wanted, alarmed>>

-----------------------------------------------------------------------------
(* login and register.                                                     *)

StartLogin(c) ==
  /\ ~ SignedIn(c) /\ login[c] = NoLogin
  /\ BeginLogin
  /\ login' = [login EXCEPT ![c].phase = "serving"]
  /\ wanted' = [wanted EXCEPT ![c] = TRUE]
  /\ UNCHANGED <<stored, held, flight, request, leaving, alarmed>>

CommitLogin(c, n) ==
  /\ login[c].phase = "serving"
  /\ FinishLogin(n)
  /\ login' = [login EXCEPT ![c] = [phase |-> "answered", got |-> n]]
  /\ UNCHANGED <<stored, held, flight, request, leaving, wanted, alarmed>>

SignUp(c, n) ==
  /\ ~ SignedIn(c) /\ login[c] = NoLogin
  /\ Register(n)
  /\ login' = [login EXCEPT ![c] = [phase |-> "answered", got |-> n]]
  /\ wanted' = [wanted EXCEPT ![c] = TRUE]
  /\ UNCHANGED <<stored, held, flight, request, leaving, alarmed>>

TakeLogin(c) ==
  /\ login[c].phase = "answered"
  /\ Save(c, login[c].got)
  /\ login' = [login EXCEPT ![c] = NoLogin]
  /\ flight' = [flight EXCEPT ![c] = Bumped(@)]
  /\ UNCHANGED <<serverVars, request, leaving, wanted, alarmed>>

FailLogin(c) ==
  /\ login[c].phase = "serving"
  /\ Abort
  /\ login' = [login EXCEPT ![c] = NoLogin]
  /\ UNCHANGED <<stored, held, flight, request, leaving, wanted, alarmed>>

-----------------------------------------------------------------------------
(* rawResponse: an authenticated request, replayed once after a 401.       *)

Send(c, op) ==
  /\ op \in {"read", "password", "delete"}
  /\ SignedIn(c) /\ held[c].fresh
  /\ request[c] = NoRequest
  /\ request' = [request EXCEPT ![c] =
       [phase |-> "sent", op |-> op, tok |-> held[c].sid, retried |-> FALSE]]
  /\ UNCHANGED <<serverVars, stored, held, flight, login, leaving, wanted, alarmed>>

\* A 401 is answered by a refresh and a replay, but only once.
Unauthorised(r) == IF r.retried THEN NoRequest ELSE [r EXCEPT !.phase = "refused"]

\* require_account: one transaction, the operation is another.
Admit(c) ==
  /\ request[c].phase = "sent"
  /\ Resolves(request[c].tok)
  /\ request' = [request EXCEPT ![c] =
       IF @.op = "read" THEN NoRequest ELSE [@ EXCEPT !.phase = "admitted"]]
  /\ UNCHANGED <<serverVars, stored, held, flight, login, leaving, wanted, alarmed>>

\* The token is no good, or the request was so long on its way that it has
\* expired: that is 30 s after its tab stopped taking it for fresh.
Refuse(c) ==
  /\ request[c].phase = "sent"
  /\ \/ ~ Resolves(request[c].tok)
     \/ held[c].sid = request[c].tok /\ ~ held[c].fresh
  /\ request' = [request EXCEPT ![c] = Unauthorised(@)]
  /\ UNCHANGED <<serverVars, stored, held, flight, login, leaving, wanted, alarmed>>

\* A wrong old password is a 401 too, and so is an account already deleted.
ExecutePassword(c) ==
  /\ request[c].phase = "admitted" /\ request[c].op = "password"
  /\ \/ ChangePassword(request[c].tok) /\ request' = [request EXCEPT ![c] = NoRequest]
     \/ UNCHANGED serverVars /\ request' = [request EXCEPT ![c] = Unauthorised(@)]
  /\ UNCHANGED <<stored, held, flight, login, leaving, wanted, alarmed>>

ExecuteDelete(c) ==
  /\ request[c].phase = "admitted" /\ request[c].op = "delete"
  /\ \/ DeleteAccount /\ request' = [request EXCEPT ![c].phase = "deleted"]
     \/ /\ status # "active" /\ UNCHANGED serverVars
        /\ request' = [request EXCEPT ![c] = Unauthorised(@)]
  /\ UNCHANGED <<stored, held, flight, login, leaving, wanted, alarmed>>

TakeDeleted(c) ==
  /\ request[c].phase = "deleted"
  /\ Save(c, NoSession)
  /\ flight' = [flight EXCEPT ![c] = Bumped(@)]
  /\ request' = [request EXCEPT ![c] = NoRequest]
  /\ wanted' = [wanted EXCEPT ![c] = login[c] # NoLogin]
  /\ UNCHANGED <<serverVars, login, leaving, alarmed>>

\* The 401 reaches the tab: invalidateAccess if its token is still the one
\* refused, then ensureSession, which joins the refresh in flight.
TakeUnauthorised(c) ==
  LET same == held[c].sid = request[c].tok
      known == ~ same /\ held[c].fresh
  IN
  /\ request[c].phase = "refused"
  /\ IF ~ SignedIn(c) THEN
       /\ request' = [request EXCEPT ![c] = NoRequest]
       /\ UNCHANGED <<held, flight>>
     ELSE IF known THEN
       /\ request' = [request EXCEPT ![c] = Resumed([@ EXCEPT !.phase = "waiting"], held[c].sid)]
       /\ UNCHANGED <<held, flight>>
     ELSE
       /\ request' = [request EXCEPT ![c].phase = "waiting"]
       /\ held' = [held EXCEPT ![c].fresh = FALSE]
       /\ flight' = [flight EXCEPT ![c] =
            IF @ = NoFlight THEN NewFlight(held[c].sid)
            ELSE IF same THEN Bumped(@) ELSE @]
  /\ stored' = IF same /\ SignedIn(c) THEN held[c].sid ELSE stored
  /\ UNCHANGED <<serverVars, login, leaving, wanted, alarmed>>

-----------------------------------------------------------------------------
(* localLogoutWithBestEffortRevoke.                                        *)

SignOut(c, op) ==
  /\ op \in {"logout", "logout_all"}
  /\ SignedIn(c)
  /\ leaving[c] = NotLeaving   \* a bound: one revocation of a tab at a time
  /\ Save(c, NoSession)
  /\ flight' = [flight EXCEPT ![c] = Bumped(@)]
  /\ leaving' = [leaving EXCEPT ![c] = [phase |-> "sent", op |-> op, tok |-> held[c].sid]]
  /\ wanted' = [wanted EXCEPT ![c] = FALSE]
  /\ UNCHANGED <<serverVars, login, request, alarmed>>

AdmitSignOut(c) ==
  /\ leaving[c].phase = "sent"
  /\ leaving' = [leaving EXCEPT ![c] =
       IF Resolves(@.tok) THEN [@ EXCEPT !.phase = "admitted"] ELSE NotLeaving]
  /\ UNCHANGED <<serverVars, stored, held, flight, login, request, wanted, alarmed>>

ExecuteSignOut(c) ==
  /\ \/ /\ leaving[c].phase = "admitted" /\ leaving[c].op = "logout"
        /\ Logout(leaving[c].tok)
        /\ leaving' = [leaving EXCEPT ![c] = NotLeaving]
     \/ /\ leaving[c].phase = "admitted" /\ leaving[c].op = "logout_all"
        /\ BeginLogoutAll
        /\ leaving' = [leaving EXCEPT ![c].phase = "sweeping"]
     \/ /\ leaving[c].phase = "sweeping"
        /\ FinishLogoutAll
        /\ leaving' = [leaving EXCEPT ![c] = NotLeaving]
  /\ UNCHANGED <<stored, held, flight, login, request, wanted, alarmed>>

-----------------------------------------------------------------------------
(* The page is opened or reloaded: everything in memory is gone, and the   *)
(* session is whatever the tabs have last stored.  A bound: not while the  *)
(* server works for the tab, whose answer would find nobody; losing that   *)
(* answer later is the same.                                               *)
Reload(c) ==
  /\ flight[c].phase # "serving"
  /\ login[c].phase # "serving"
  /\ request[c].phase # "admitted"
  /\ held' = [held EXCEPT ![c] = [sid |-> stored, fresh |-> stored # NoSession]]
  /\ flight' = [flight EXCEPT ![c] = NoFlight]
  /\ login' = [login EXCEPT ![c] = NoLogin]
  /\ request' = [request EXCEPT ![c] = NoRequest]
  /\ wanted' = [wanted EXCEPT ![c] = stored # NoSession]
  /\ UNCHANGED <<serverVars, stored, leaving, alarmed>>

\* A refresh token expires long after every tab has taken its access token
\* for stale.
TimePasses(s) ==
  /\ \A c \in Tab : held[c].sid = s => ~ held[c].fresh
  /\ Expire(s)
  /\ UNCHANGED clientVars

Next ==
  \/ \E c \in Tab :
       \/ Stale(c) \/ StartRefresh(c) \/ ServeRefresh(c) \/ RefuseRefresh(c)
       \/ TakeRefresh(c) \/ TakeRefusal(c) \/ TakeAnonymous(c) \/ FailRefresh(c)
       \/ StartLogin(c) \/ TakeLogin(c) \/ FailLogin(c)
       \/ Admit(c) \/ Refuse(c) \/ ExecutePassword(c) \/ ExecuteDelete(c) \/ TakeDeleted(c)
       \/ TakeUnauthorised(c)
       \/ AdmitSignOut(c) \/ ExecuteSignOut(c) \/ Reload(c)
       \/ \E n \in Session : SignUp(c, n) \/ CommitLogin(c, n) \/ CommitRefresh(c, n)
       \/ \E op \in Does[c] : Send(c, op) \/ SignOut(c, op)
  \/ \E s \in Session : TimePasses(s)

Spec == Init /\ [][Next]_vars

-----------------------------------------------------------------------------
(***************************************************************************)
(* A signed-out tab stays signed out: no refresh or request that was in    *)
(* flight when the user signed out, or deleted the account, brings a       *)
(* session back (the purpose of sessionRevision).                          *)
(***************************************************************************)
SignedOutStaysOut == \A c \in Tab : ~ wanted[c] => ~ SignedIn(c)

(***************************************************************************)
(* A tab that gives up an account of its own accord, because a refresh was *)
(* refused before its token expired, gives up nothing that anyone could    *)
(* still use: no session of that sign-in is live.                          *)
(***************************************************************************)
GivesUp(c) == /\ flight[c].phase = "anonymous" /\ SignedIn(c) /\ held'[c].sid = NoSession
              /\ wanted'[c] /\ ~ session[held[c].sid].expired

GivesUpOnlyTheLost ==
  [][\A c \in Tab : GivesUp(c) =>
       \A s \in Live : session[s].root # session[held[c].sid].root]_vars

(***************************************************************************)
(* "A reused rotated token indicates credential theft" (accounts.rs:388):  *)
(* where no token is ever in other hands than those it was given to, the   *)
(* server never raises that alarm.                                         *)
(***************************************************************************)
NoFalseAlarm == ~ alarmed
=============================================================================
