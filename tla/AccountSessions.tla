---------------------------- MODULE AccountSessions ----------------------------
(***************************************************************************)
(* The sessions of one account (crates/storage/src/accounts.rs): sign-in,  *)
(* rotation of the token pair, password change, sign-out and deletion.     *)
(*                                                                         *)
(* A session stands for its pair of tokens, both random and never issued   *)
(* twice.  Rotation revokes a session and issues another; nothing reads    *)
(* replaced_by_session_id.  Transactions hold the write lock of the        *)
(* database (pg.rs) and the account's row from their first statement to    *)
(* their commit.  The two sign-outs are single statements outside any such *)
(* transaction: they wait for locked rows, but never see a row that was    *)
(* committed after they began (READ COMMITTED).                            *)
(*                                                                         *)
(* Any token ever issued may be presented to any operation at any time.    *)
(***************************************************************************)

CONSTANTS
  Session,
  NoSession

ASSUME SessionAssumption == NoSession \notin Session

VARIABLES
  status,   \* of the account
  session,  \* the account_sessions rows
  tx,       \* the transaction that holds the write lock
  sweep     \* the rows a sign-out of every device has seen

serverVars == <<status, session, tx, sweep>>

NoTx == [kind |-> "none", old |-> NoSession, ended |-> FALSE]
NoSweep == {NoSession}

(***************************************************************************)
(* expired: the refresh token is past its 30 days.  That an access token   *)
(* is past its minutes, long before, is left to who presents it.  root:    *)
(* the session issued at the sign-in this one descends from.  ended is     *)
(* history: since that sign-in was verified, something happened that ends  *)
(* every session but perhaps one, and this is not the one.                 *)
(***************************************************************************)
Row == [state : {"none", "live", "revoked"}, expired : BOOLEAN,
        root : Session \cup {NoSession}, ended : BOOLEAN]

NoRow == [state |-> "none", expired |-> FALSE, root |-> NoSession, ended |-> FALSE]

Transaction ==
  [kind : {"none", "login", "refresh"}, old : Session \cup {NoSession},
   ended : BOOLEAN]

ServerTypeOK ==
  /\ status \in {"none", "active", "deleted"}
  /\ session \in [Session -> Row]
  /\ tx \in Transaction
  /\ sweep \in (SUBSET Session) \cup {NoSweep}

ServerInit ==
  /\ status = "none"
  /\ session = [s \in Session |-> NoRow]
  /\ tx = NoTx
  /\ sweep = NoSweep

Issued == {s \in Session : session[s].state # "none"}
Live == {s \in Session : session[s].state = "live"}

LockFree == tx = NoTx

\* A refresh in progress holds the row of the session it replaces; if it did
\* not, a sign-out could end that session under its hands.
RowNeverHeld(s) == TRUE
RowFree(s) == s # tx.old

\* The access token of s, unless past its time, authenticates a request.
Resolves(s) ==
  /\ session[s].state = "live"
  /\ ~ session[s].expired
  /\ status = "active"

NewRow(root, ended) ==
  [state |-> "live", expired |-> FALSE, root |-> root, ended |-> ended]

-----------------------------------------------------------------------------
(* Statements that revoke.                                                 *)

Revoked(S) ==
  [s \in Session |->
     IF s \in S /\ session[s].state = "live"
       THEN [session[s] EXCEPT !.state = "revoked"] ELSE session[s]]

\* Everything issued or being issued ends, but for the sessions in keep.
EndAllBut(keep) ==
  /\ session' = [s \in Session |->
       IF s \in Issued \ keep
         THEN [session[s] EXCEPT !.state = "revoked", !.ended = TRUE]
         ELSE session[s]]
  /\ tx' = [tx EXCEPT !.ended = tx # NoTx]

-----------------------------------------------------------------------------
(* Sign-in.                                                                *)

Register(n) ==
  /\ LockFree
  /\ status = "none"
  /\ session[n].state = "none"
  /\ status' = "active"
  /\ session' = [session EXCEPT ![n] = NewRow(n, FALSE)]
  /\ UNCHANGED <<tx, sweep>>

\* The password is verified against the row just locked.  A bound: an
\* operation that issues a session needs one that was never issued.
BeginLogin ==
  /\ LockFree
  /\ status = "active"
  /\ Issued # Session
  /\ tx' = [kind |-> "login", old |-> NoSession, ended |-> FALSE]
  /\ UNCHANGED <<status, session, sweep>>

FinishLogin(n) ==
  /\ tx.kind = "login"
  /\ session[n].state = "none"
  /\ session' = [session EXCEPT ![n] = NewRow(n, tx.ended)]
  /\ tx' = NoTx
  /\ UNCHANGED <<status, sweep>>

-----------------------------------------------------------------------------
(* Rotation.                                                               *)

BeginRefresh(s) ==
  /\ LockFree
  /\ session[s].state = "live"
  /\ ~ session[s].expired
  /\ status = "active"
  /\ Issued # Session
  /\ tx' = [kind |-> "refresh", old |-> s, ended |-> session[s].ended]
  /\ UNCHANGED <<status, session, sweep>>

\* The session replaced stays good.
FinishRefreshKeepingOld(n) ==
  /\ tx.kind = "refresh"
  /\ session[n].state = "none"
  /\ session' = [session EXCEPT ![n] = NewRow(session[tx.old].root, tx.ended)]
  /\ tx' = NoTx
  /\ UNCHANGED <<status, sweep>>
FinishRefresh(n) ==
  /\ tx.kind = "refresh"
  /\ session[n].state = "none"
  /\ session' = [session EXCEPT ![n] = NewRow(session[tx.old].root, tx.ended),
                                ![tx.old].state = "revoked"]
  /\ tx' = NoTx
  /\ UNCHANGED <<status, sweep>>

\* A revoked token is only refused.
ReuseIsRefused(s) ==
  /\ LockFree
  /\ session[s].state = "revoked"
  /\ UNCHANGED serverVars
\* A revoked token is presented: every session of the account is revoked.
ReuseAlarm(s) ==
  /\ LockFree
  /\ session[s].state = "revoked"
  /\ EndAllBut({})
  /\ UNCHANGED <<status, sweep>>

RefuseExpired(s) ==
  /\ LockFree
  /\ session[s].state = "live"
  /\ session[s].expired \/ status # "active"
  /\ session' = Revoked({s})
  /\ UNCHANGED <<status, tx, sweep>>

\* The transaction fails and is rolled back.
Abort ==
  /\ tx # NoTx
  /\ tx' = NoTx
  /\ UNCHANGED <<status, session, sweep>>

-----------------------------------------------------------------------------
(* Operations of a signed-in user.  The handlers resolve the access token  *)
(* s in a transaction of its own, earlier; the operation does not look     *)
(* whether s is still good.                                                *)

ChangePassword(s) ==
  /\ LockFree
  /\ status = "active"
  /\ EndAllBut({s})
  /\ UNCHANGED <<status, sweep>>

\* The account's row is not locked.
DeleteAccountUnlocked ==
  /\ status = "active"
  /\ status' = "deleted"
  /\ EndAllBut({})
  /\ UNCHANGED sweep
DeleteAccount ==
  /\ LockFree
  /\ status = "active"
  /\ status' = "deleted"
  /\ EndAllBut({})
  /\ UNCHANGED sweep

Logout(s) ==
  /\ RowFree(s)
  /\ session' = Revoked({s})
  /\ UNCHANGED <<status, tx, sweep>>

\* One sweep at a time: two would revoke what the larger of them does.
BeginLogoutAll ==
  /\ sweep = NoSweep
  /\ sweep' = Live
  /\ UNCHANGED <<status, session, tx>>

FinishLogoutAll ==
  /\ sweep # NoSweep
  /\ \A s \in sweep : RowFree(s)
  /\ session' = Revoked(sweep)
  /\ sweep' = NoSweep
  /\ UNCHANGED <<status, tx>>

Expire(s) ==
  /\ session[s].state = "live"
  /\ ~ session[s].expired
  /\ session' = [session EXCEPT ![s].expired = TRUE]
  /\ UNCHANGED <<status, tx, sweep>>

ServerNext ==
  \/ \E s \in Session :
       \/ Register(s) \/ FinishLogin(s) \/ BeginRefresh(s) \/ FinishRefresh(s)
       \/ ReuseAlarm(s) \/ RefuseExpired(s) \/ ChangePassword(s) \/ Logout(s)
       \/ Expire(s)
  \/ BeginLogin \/ Abort \/ DeleteAccount \/ BeginLogoutAll \/ FinishLogoutAll

ServerSpec == ServerInit /\ [][ServerNext]_serverVars

-----------------------------------------------------------------------------
(***************************************************************************)
(* No session outlives what ended it: a live session belongs to an active  *)
(* account and stems from a sign-in later than the last password change,   *)
(* reuse alarm or deletion, unless it made that password change, whatever  *)
(* sign-ins and rotations were in progress meanwhile.                      *)
(***************************************************************************)
LiveSessionsAreCurrent ==
  \A s \in Live : status = "active" /\ ~ session[s].ended

(***************************************************************************)
(* Rotation never forks: of all sessions that descend from one sign-in at  *)
(* most one is live, whatever tokens are presented and in whatever order.  *)
(***************************************************************************)
OneLivePerSignIn ==
  \A s, t \in Live : session[s].root = session[t].root => s = t

(***************************************************************************)
(* A sign-in is one line of sessions, from which nothing forks, and a line *)
(* left without a good session never has one again: a rotation commits     *)
(* only on a session that is still live (refresh_account_session holds the *)
(* row it replaces), so that a sign-out and a rotation of one session come *)
(* one after the other.  It does not say that the sign-out wins: a line    *)
(* rotated under it goes on (LogoutAllSignsOutEveryDevice).                *)
(***************************************************************************)
GoodSessions(r) == {s \in Live : session[s].root = r}

SignIns ==
  INSTANCE SignInLifecycle WITH
    issued <- Issued,
    good <- [r \in Session |-> GoodSessions(r)]

ImplementsSignIns == SignIns!Spec

(***************************************************************************)
(* POST /v1/auth/logout-all signs out every device (docs/API.md:696): when *)
(* it is done, no sign-in that it found live has a live session.           *)
(***************************************************************************)
LogoutAllSignsOutEveryDevice ==
  [][sweep # NoSweep /\ sweep' = NoSweep =>
       \A s \in sweep : \A t \in Live' : session'[t].root # session[s].root]_serverVars
=============================================================================
