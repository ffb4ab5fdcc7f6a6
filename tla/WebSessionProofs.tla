--------------------------- MODULE WebSessionProofs ---------------------------
(***************************************************************************)
(* Proofs about AccountSessions and WebSession for every set of sessions   *)
(* and tabs.  The server's invariant is proved under ServerSpec, where any *)
(* token may be presented at any time; the clients only choose among the   *)
(* server's operations (RemoteIsServed), so it holds under Spec.          *)
(***************************************************************************)
EXTENDS WebSession, TLAPS

(***************************************************************************)
(* The server's inductive invariant.  A transaction in progress excludes   *)
(* whatever ends sessions (the write lock), so what it has read is still   *)
(* true when it commits; and a root is a session that was issued, so a new *)
(* sign-in starts a line of its own.                                       *)
(***************************************************************************)
TxInv ==
  /\ tx # NoTx => tx.kind # "none" /\ status = "active" /\ ~ tx.ended
  /\ tx.kind = "refresh" => tx.old \in Live

RootsAreIssued == \A s \in Issued : session[s].root \in Issued

ServerInv ==
  /\ ServerTypeOK
  /\ TxInv
  /\ RootsAreIssued
  /\ LiveSessionsAreCurrent
  /\ OneLivePerSignIn

LEMMA ServerInitInv == ServerInit => ServerInv
<1> USE DEF ServerInit, ServerInv, ServerTypeOK, Transaction, Row, NoRow, NoTx, NoSweep,
            TxInv, RootsAreIssued, LiveSessionsAreCurrent, OneLivePerSignIn, Issued, Live
<1> QED  OBVIOUS

\* Rows of the table after each kind of step.
Kept(s) == session'[s] = session[s]
Gone(s) == /\ session[s].state # "none"
           /\ session'[s] = [session[s] EXCEPT !.state = "revoked"]
Ended(s) == /\ session[s].state # "none"
            /\ session'[s] = [session[s] EXCEPT !.state = "revoked", !.ended = TRUE]
Aged(s) == session'[s] = [session[s] EXCEPT !.expired = TRUE]

\* Steps that issue no session: no row comes to life, no root changes.
Quiet ==
  /\ session' = [s \in Session |-> session'[s]]
  /\ \A s \in Session : Kept(s) \/ Gone(s) \/ Ended(s) \/ Aged(s)

LEMMA QuietKeeps ==
  ASSUME ServerInv, Quiet
  PROVE  /\ session' \in [Session -> Row]
         /\ RootsAreIssued'
         /\ OneLivePerSignIn'
         /\ Live' \subseteq Live
         /\ \A s \in Live' : session'[s].ended = session[s].ended
<1>1. ASSUME NEW s \in Session
      PROVE  /\ session'[s] \in Row
             /\ session'[s].root = session[s].root
             /\ session'[s].state = "none" <=> session[s].state = "none"
             /\ session'[s].state = "live" =>
                  session[s].state = "live" /\ session'[s].ended = session[s].ended
  <2>1. session[s] \in Row
    BY DEF ServerInv, ServerTypeOK
  <2>2. CASE Kept(s)
    BY <2>1, <2>2 DEF Kept
  <2>3. CASE Gone(s)
    BY <2>1, <2>3 DEF Gone, Row
  <2>4. CASE Ended(s)
    BY <2>1, <2>4 DEF Ended, Row
  <2>5. CASE Aged(s)
    BY <2>1, <2>5 DEF Aged, Row
  <2> QED  BY <2>2, <2>3, <2>4, <2>5 DEF Quiet
<1>2. session' \in [Session -> Row]
  BY <1>1 DEF Quiet
<1>3. RootsAreIssued'
  BY <1>1 DEF ServerInv, RootsAreIssued, Issued
<1>4. /\ Live' \subseteq Live
      /\ \A s \in Live' : session'[s].ended = session[s].ended
  BY <1>1 DEF Live
<1>5. OneLivePerSignIn'
  BY <1>1 DEF ServerInv, OneLivePerSignIn, Live
<1> QED  BY <1>2, <1>3, <1>4, <1>5

\* A session is issued with a root no live session has.
LEMMA IssueKeeps ==
  ASSUME ServerInv,
         NEW n \in Session, session[n].state = "none",
         NEW root \in Session, NEW old \in Session \cup {NoSession},
         root = n \/ (root \in Issued /\ old \in Live /\ session[old].root = root),
         session' \in [Session -> Row],
         session'[n] = NewRow(root, FALSE),
         \A s \in Session \ {n, old} : session'[s] = session[s],
         old \in Session => session'[old] = [session[old] EXCEPT !.state = "revoked"] /\ old \in Live
  PROVE  /\ RootsAreIssued'
         /\ OneLivePerSignIn'
         /\ Live' \subseteq Live \cup {n}
         /\ \A s \in Live' : ~ session'[s].ended \/ session[s].ended
<1> USE DEF ServerInv, ServerTypeOK, Row, Live, Issued, NewRow
<1>1. \A s \in Session \ {n} : /\ session'[s].root = session[s].root
                               /\ session'[s].ended = session[s].ended
                               /\ session'[s].state # "none" <=> session[s].state # "none"
                               /\ session'[s].state = "live" => session[s].state = "live" /\ s # old
  OBVIOUS
<1>2. RootsAreIssued'
  BY <1>1 DEF RootsAreIssued
<1>3. \A s \in Live : s # old => session[s].root # root
  BY SessionAssumption DEF OneLivePerSignIn, RootsAreIssued
<1>4. OneLivePerSignIn'
  BY <1>1, <1>3 DEF OneLivePerSignIn
<1> QED  BY <1>1, <1>2, <1>4

LEMMA UntouchedKeeps ==
  ASSUME ServerInv, UNCHANGED <<status, session>>
  PROVE  RootsAreIssued' /\ LiveSessionsAreCurrent' /\ OneLivePerSignIn' /\ Live' = Live
BY DEF ServerInv, RootsAreIssued, LiveSessionsAreCurrent, OneLivePerSignIn, Issued, Live

LEMMA ServerStepInv == ServerInv /\ [ServerNext]_serverVars => ServerInv'
<1> SUFFICES ASSUME ServerInv, [ServerNext]_serverVars  PROVE ServerInv'
  OBVIOUS
<1> USE DEF LockFree, NoTx, NoSweep
<1>1. CASE UNCHANGED serverVars
  BY <1>1 DEF serverVars, ServerInv, ServerTypeOK, TxInv, RootsAreIssued,
     LiveSessionsAreCurrent, OneLivePerSignIn, Issued, Live
<1>2. ASSUME NEW n \in Session, Register(n)  PROVE ServerInv'
  <2>1. session' \in [Session -> Row]
    BY <1>2 DEF Register, ServerInv, ServerTypeOK, NewRow, Row
  <2>2. RootsAreIssued' /\ OneLivePerSignIn' /\ Live' \subseteq Live \cup {n}
        /\ \A s \in Live' : ~ session'[s].ended \/ session[s].ended
    <3>1. session'[n] = NewRow(n, FALSE) /\ \A s \in Session \ {n, NoSession} : session'[s] = session[s]
      BY <1>2 DEF Register, ServerInv, ServerTypeOK
    <3> QED  BY <1>2, <2>1, <3>1, IssueKeeps, SessionAssumption DEF Register
  <2>3. LiveSessionsAreCurrent'
    BY <1>2, <2>2 DEF Register, ServerInv, LiveSessionsAreCurrent, Live, NewRow, ServerTypeOK
  <2> QED  BY <1>2, <2>1, <2>2, <2>3 DEF Register, ServerInv, ServerTypeOK, TxInv, Transaction
<1>3. ASSUME NEW n \in Session, FinishLogin(n)  PROVE ServerInv'
  <2>0. ~ tx.ended /\ status = "active"
    BY <1>3 DEF FinishLogin, ServerInv, TxInv
  <2>1. session' \in [Session -> Row]
    BY <1>3 DEF FinishLogin, ServerInv, ServerTypeOK, NewRow, Row, Transaction
  <2>2. RootsAreIssued' /\ OneLivePerSignIn' /\ Live' \subseteq Live \cup {n}
        /\ \A s \in Live' : ~ session'[s].ended \/ session[s].ended
    <3>1. session'[n] = NewRow(n, FALSE) /\ \A s \in Session \ {n, NoSession} : session'[s] = session[s]
      BY <1>3, <2>0 DEF FinishLogin, ServerInv, ServerTypeOK, NewRow, Transaction
    <3> QED  BY <1>3, <2>1, <3>1, IssueKeeps, SessionAssumption DEF FinishLogin
  <2>3. LiveSessionsAreCurrent'
    BY <1>3, <2>0, <2>2 DEF FinishLogin, ServerInv, LiveSessionsAreCurrent, Live, NewRow, ServerTypeOK
  <2> QED  BY <1>3, <2>1, <2>2, <2>3 DEF FinishLogin, ServerInv, ServerTypeOK, TxInv, Transaction
<1>4. ASSUME NEW n \in Session, FinishRefresh(n)  PROVE ServerInv'
  <2>0. ~ tx.ended /\ status = "active" /\ tx.old \in Live
    BY <1>4 DEF FinishRefresh, ServerInv, TxInv
  <2>a. PICK old \in Session, root \in Session : old = tx.old /\ root = session[old].root
    BY <2>0 DEF ServerInv, RootsAreIssued, Issued, Live
  <2>1. /\ old # n /\ session[n].state = "none"
        /\ root \in Issued
    BY <1>4, <2>0, <2>a DEF FinishRefresh, ServerInv, RootsAreIssued, Issued, Live
  <2>2. session' = [session EXCEPT ![n] = NewRow(root, FALSE), ![old].state = "revoked"]
    BY <1>4, <2>0, <2>a DEF FinishRefresh, ServerInv, ServerTypeOK, Transaction
  <2>3. old \in Live
    BY <2>0, <2>a
  <2>4. session' \in [Session -> Row]
    BY <2>1, <2>2 DEF ServerInv, ServerTypeOK, NewRow, Row
  <2>5. /\ session'[n] = NewRow(root, FALSE)
        /\ \A s \in Session \ {n, old} : session'[s] = session[s]
        /\ session'[old] = [session[old] EXCEPT !.state = "revoked"]
    BY <2>1, <2>2 DEF ServerInv, ServerTypeOK
  <2>6. session[old].root = root
    BY <2>a
  <2>7. RootsAreIssued' /\ OneLivePerSignIn' /\ Live' \subseteq Live \cup {n}
        /\ \A s \in Live' : ~ session'[s].ended \/ session[s].ended
    BY <2>1, <2>3, <2>4, <2>5, <2>6, IssueKeeps
  <2>8. LiveSessionsAreCurrent'
    <3>1. status' = "active" /\ ~ session'[n].ended
      BY <1>4, <2>0, <2>5 DEF FinishRefresh, NewRow
    <3> QED  BY <2>7, <3>1 DEF ServerInv, LiveSessionsAreCurrent
  <2> QED  BY <1>4, <2>4, <2>7, <2>8 DEF FinishRefresh, ServerInv, ServerTypeOK, TxInv, Transaction
<1>5. ASSUME BeginLogin \/ \E s \in Session : BeginRefresh(s)  PROVE ServerInv'
  <2>1. UNCHANGED <<status, session, sweep>> /\ status = "active"
    BY <1>5 DEF BeginRefresh, BeginLogin
  <2>2. CASE BeginLogin
    <3>1. tx' = [kind |-> "login", old |-> NoSession, ended |-> FALSE]
      BY <2>2 DEF BeginLogin
    <3> QED  BY <2>1, <3>1, UntouchedKeeps DEF ServerInv, ServerTypeOK, TxInv, Transaction
  <2>3. ASSUME NEW s \in Session, BeginRefresh(s)  PROVE ServerInv'
    <3>1. tx' = [kind |-> "refresh", old |-> s, ended |-> FALSE] /\ s \in Live
      BY <2>3 DEF BeginRefresh, ServerInv, LiveSessionsAreCurrent, ServerTypeOK, Row, Live
    <3> QED  BY <2>1, <3>1, UntouchedKeeps DEF ServerInv, ServerTypeOK, TxInv, Transaction
  <2> QED  BY <1>5, <2>2, <2>3
<1>6. ASSUME Abort \/ BeginLogoutAll  PROVE ServerInv'
  <2>1. UNCHANGED <<status, session>>
    BY <1>6 DEF Abort, BeginLogoutAll
  <2>2. CASE Abort
    BY <2>1, <2>2, UntouchedKeeps DEF Abort, ServerInv, ServerTypeOK, TxInv, Transaction
  <2>3. CASE BeginLogoutAll
    <3>1. sweep' \in SUBSET Session /\ tx' = tx
      BY <2>3 DEF BeginLogoutAll, Live
    <3> QED  BY <2>1, <3>1, UntouchedKeeps DEF ServerInv, ServerTypeOK, TxInv
  <2> QED  BY <1>6, <2>2, <2>3
<1>7. ASSUME NEW keep \in SUBSET Session, EndAllBut(keep), LockFree, UNCHANGED sweep,
             status' \in {"none", "active", "deleted"},
             keep = {} \/ (status = "active" /\ status' = status)
      PROVE  ServerInv'
  <2>1. tx = NoTx /\ tx' = NoTx
    BY <1>7 DEF EndAllBut
  <2>2. Quiet
    BY <1>7 DEF Quiet, EndAllBut, Kept, Ended, Issued
  <2>3. Live' \subseteq keep
    BY <1>7 DEF EndAllBut, Live, Issued, ServerInv, ServerTypeOK, Row
  <2>4. LiveSessionsAreCurrent'
    BY <1>7, <2>2, <2>3, QuietKeeps DEF ServerInv, LiveSessionsAreCurrent
  <2> QED  BY <1>7, <2>1, <2>2, <2>4, QuietKeeps DEF ServerInv, ServerTypeOK, TxInv, Transaction
<1>8. ASSUME NEW s \in Session, ReuseAlarm(s) \/ ChangePassword(s)  PROVE ServerInv'
  <2>1. status' = status /\ status \in {"none", "active", "deleted"}
    BY <1>8 DEF ReuseAlarm, ChangePassword, ServerInv, ServerTypeOK
  <2> QED  BY <1>7, <1>8, <2>1 DEF ReuseAlarm, ChangePassword
<1>9. ASSUME DeleteAccount  PROVE ServerInv'
  BY <1>7, <1>9 DEF DeleteAccount
<1>10. ASSUME NEW S \in SUBSET Session, session' = Revoked(S) \/ \E s \in Session : Expire(s),
              tx.old \notin S,
              UNCHANGED <<status, tx>>, sweep' \in (SUBSET Session) \cup {NoSweep}
       PROVE  ServerInv'
  <2>1. Quiet
    BY <1>10 DEF Quiet, Revoked, Expire, Kept, Gone, Aged, ServerInv, ServerTypeOK
  <2>2. tx.old \in Live => tx.old \in Live'
    BY <1>10 DEF Revoked, Expire, Live, ServerInv, ServerTypeOK, Row
  <2>3. LiveSessionsAreCurrent'
    BY <1>10, <2>1, QuietKeeps DEF ServerInv, LiveSessionsAreCurrent
  <2> QED  BY <1>10, <2>1, <2>2, <2>3, QuietKeeps DEF ServerInv, ServerTypeOK, TxInv
<1>11. ASSUME NEW s \in Session, RefuseExpired(s)  PROVE ServerInv'
  <2>1. tx.old \notin {s}
    BY <1>11, SessionAssumption DEF RefuseExpired
  <2>2. sweep \in (SUBSET Session) \cup {NoSweep}
    BY DEF ServerInv, ServerTypeOK
  <2> QED  BY <1>10, <1>11, <2>1, <2>2 DEF RefuseExpired
<1>12. ASSUME NEW s \in Session, Logout(s) \/ Expire(s)  PROVE ServerInv'
  <2>2. sweep \in (SUBSET Session) \cup {NoSweep}
    BY DEF ServerInv, ServerTypeOK
  <2>3. CASE Logout(s)
    BY <1>10, <2>2, <2>3 DEF Logout, RowFree
  <2>4. CASE Expire(s)
    <3>1. {} \in SUBSET Session /\ tx.old \notin {} /\ UNCHANGED <<status, tx>> /\ sweep' = sweep
      BY <2>4 DEF Expire
    <3> QED  BY <1>10, <2>2, <2>4, <3>1
  <2> QED  BY <1>12, <2>3, <2>4
<1>13. ASSUME FinishLogoutAll  PROVE ServerInv'
  <2>1. sweep \in SUBSET Session
    BY <1>13 DEF FinishLogoutAll, ServerInv, ServerTypeOK
  <2> QED  BY <1>10, <1>13, <2>1 DEF FinishLogoutAll, RowFree
<1> QED
  BY <1>1, <1>2, <1>3, <1>4, <1>5, <1>6, <1>8, <1>9, <1>11, <1>12, <1>13 DEF ServerNext

(***************************************************************************)
(* Whoever presents whatever token, no session outlives what ended it, and *)
(* no sign-in ever has two live sessions.                                  *)
(***************************************************************************)
THEOREM ServerSafe == ServerSpec => [](LiveSessionsAreCurrent /\ OneLivePerSignIn)
<1>1. ServerSpec => []ServerInv
  BY ServerInitInv, ServerStepInv, PTL DEF ServerSpec
<1>2. ServerInv => LiveSessionsAreCurrent /\ OneLivePerSignIn
  BY DEF ServerInv
<1> QED  BY <1>1, <1>2, PTL

-----------------------------------------------------------------------------
(***************************************************************************)
(* The server implements SignInLifecycle.                                  *)
(***************************************************************************)
LEMMA IssuesOrIsQuiet ==
  ASSUME ServerInv, ServerNext
  PROVE  \/ UNCHANGED session
         \/ Quiet
         \/ \E n \in Session : Register(n) \/ FinishLogin(n)
         \/ \E n \in Session : FinishRefresh(n)
<1>1. session = [s \in Session |-> session[s]]
  BY DEF ServerInv, ServerTypeOK
<1>2. ASSUME NEW keep, EndAllBut(keep)  PROVE Quiet
  BY <1>2 DEF EndAllBut, Quiet, Kept, Ended, Issued
<1>3. ASSUME NEW S, session' = Revoked(S)  PROVE Quiet
  BY <1>3 DEF Revoked, Quiet, Kept, Gone
<1>4. ASSUME NEW s \in Session, ReuseAlarm(s) \/ ChangePassword(s)  PROVE Quiet
  BY <1>2, <1>4 DEF ReuseAlarm, ChangePassword
<1>5. ASSUME NEW s \in Session, RefuseExpired(s) \/ Logout(s)  PROVE Quiet
  BY <1>3, <1>5 DEF RefuseExpired, Logout
<1>6. ASSUME NEW s \in Session, Expire(s)  PROVE Quiet
  BY <1>1, <1>6 DEF Expire, Quiet, Kept, Aged
<1>7. CASE DeleteAccount
  BY <1>2, <1>7 DEF DeleteAccount
<1>8. CASE FinishLogoutAll
  BY <1>3, <1>8 DEF FinishLogoutAll
<1>9. CASE BeginLogin \/ Abort \/ BeginLogoutAll
  BY <1>9 DEF BeginLogin, Abort, BeginLogoutAll
<1>10. ASSUME NEW s \in Session, BeginRefresh(s)  PROVE UNCHANGED session
  BY <1>10 DEF BeginRefresh
<1> QED
  BY <1>4, <1>5, <1>6, <1>7, <1>8, <1>9, <1>10 DEF ServerNext

\* Where no session is issued, a line keeps its good session or ends.
LEMMA QuietEnds ==
  ASSUME ServerInv, Quiet
  PROVE  SignIns!Next
<1>1. \A s \in Session : /\ session'[s].root = session[s].root
                         /\ session'[s].state = "none" <=> session[s].state = "none"
                         /\ session'[s].state = "live" => session[s].state = "live"
  <2>1. ASSUME NEW s \in Session
        PROVE  /\ session'[s].root = session[s].root
               /\ session'[s].state = "none" <=> session[s].state = "none"
               /\ session'[s].state = "live" => session[s].state = "live"
    <3>1. session[s] \in Row
      BY DEF ServerInv, ServerTypeOK
    <3> QED  BY <3>1 DEF Quiet, Kept, Gone, Ended, Aged, Row
  <2> QED  BY <2>1
<1>2. Issued' = Issued
  BY <1>1 DEF Issued
<1>3. ASSUME NEW r \in Session
      PROVE  GoodSessions(r)' = {} \/ GoodSessions(r)' = GoodSessions(r)
  <2>1. GoodSessions(r)' \subseteq GoodSessions(r)
    BY <1>1 DEF GoodSessions, Live
  <2>2. \A s, t \in GoodSessions(r) : s = t
    BY DEF ServerInv, OneLivePerSignIn, GoodSessions
  <2> QED  BY <2>1, <2>2
<1>4. PICK S \in SUBSET Session : S = {r \in Session : GoodSessions(r)' = {}}
  OBVIOUS
<1>5. [r \in Session |-> GoodSessions(r)]'
        = [r \in Session |-> IF r \in S THEN {} ELSE [q \in Session |-> GoodSessions(q)][r]]
  BY <1>3, <1>4
<1>6. SignIns!End(S)
  BY <1>2, <1>5 DEF SignIns!End
<1> QED  BY <1>4, <1>6 DEF SignIns!Next

\* A sign-in begins a line: no live session descends from a new one.
LEMMA SignInBegins ==
  ASSUME ServerInv, NEW n \in Session, Register(n) \/ FinishLogin(n)
  PROVE  SignIns!Next
<1>1. PICK ended : session' = [session EXCEPT ![n] = NewRow(n, ended)]
  BY DEF Register, FinishLogin
<1>2. /\ session[n].state = "none"
      /\ session'[n] = NewRow(n, ended)
      /\ \A s \in Session \ {n} : session'[s] = session[s]
  BY <1>1 DEF Register, FinishLogin, ServerInv, ServerTypeOK
<1>3. n \notin Issued /\ Issued' = Issued \cup {n} /\ Live' = Live \cup {n}
  BY <1>2 DEF Issued, Live, NewRow
<1>4. \A s \in Live : session[s].root # n
  BY <1>3 DEF ServerInv, RootsAreIssued, Issued, Live
<1>5. GoodSessions(n)' = {n}
  BY <1>2, <1>3, <1>4 DEF GoodSessions, NewRow, Live
<1>6. \A r \in Session \ {n} : GoodSessions(r)' = GoodSessions(r)
  BY <1>2, <1>3 DEF GoodSessions, NewRow, Live, Issued
<1>7. [r \in Session |-> GoodSessions(r)]'
        = [[r \in Session |-> GoodSessions(r)] EXCEPT ![n] = {n}]
  BY <1>5, <1>6
<1>8. SignIns!SignIn(n)
  BY <1>3, <1>7 DEF SignIns!SignIn
<1> QED  BY <1>8 DEF SignIns!Next

\* A rotation hands the line on: the session it replaces is still good (TxInv).
LEMMA RotationHandsOn ==
  ASSUME ServerInv, NEW n \in Session, FinishRefresh(n)
  PROVE  SignIns!Next
<1>1. tx.old \in Live
  BY DEF FinishRefresh, ServerInv, TxInv
<1>2. PICK old \in Session, root \in Session : old = tx.old /\ root = session[old].root
  BY <1>1 DEF ServerInv, RootsAreIssued, Issued, Live
<1>3. /\ session[n].state = "none" /\ session[old].state = "live" /\ old # n
      /\ session[old].root = root
  BY <1>1, <1>2 DEF FinishRefresh, Live
<1>4. /\ session'[n].state = "live" /\ session'[n].root = root
      /\ session'[old].state = "revoked"
      /\ \A s \in Session \ {n, old} : session'[s] = session[s]
  <2>1. session' = [session EXCEPT ![n] = NewRow(root, tx.ended), ![old].state = "revoked"]
    BY <1>2 DEF FinishRefresh
  <2>2. session \in [Session -> Row] /\ session[old] \in Row
    BY DEF ServerInv, ServerTypeOK
  <2>3. session'[n] = NewRow(root, tx.ended)
    BY <1>3, <2>1, <2>2
  <2>4. session'[old] = [session[old] EXCEPT !.state = "revoked"]
    BY <1>3, <2>1, <2>2
  <2>5. \A s \in Session \ {n, old} : session'[s] = session[s]
    BY <2>1, <2>2
  <2> QED  BY <2>2, <2>3, <2>4, <2>5 DEF NewRow, Row
<1>5. n \notin Issued /\ Issued' = Issued \cup {n} /\ Live' = (Live \ {old}) \cup {n}
  BY <1>3, <1>4 DEF Issued, Live
<1>6. GoodSessions(root) = {old}
  BY <1>1, <1>2, <1>3 DEF ServerInv, OneLivePerSignIn, GoodSessions
<1>7. GoodSessions(root)' = {n}
  <2>1. n \in GoodSessions(root)'
    BY <1>4, <1>5 DEF GoodSessions
  <2>2. \A s \in Live' : s # n => s \in Live /\ s # old /\ session'[s].root = session[s].root
    BY <1>3, <1>4, <1>5 DEF Live
  <2>3. \A s \in GoodSessions(root)' : s = n
    BY <1>6, <2>2 DEF GoodSessions
  <2> QED  BY <2>1, <2>3
<1>8. ASSUME NEW r \in Session \ {root}  PROVE GoodSessions(r)' = GoodSessions(r)
  <2>1. \A s \in Session \ {n, old} : (s \in Live' <=> s \in Live) /\ session'[s].root = session[s].root
    BY <1>4 DEF Live
  <2>2. n \notin Live /\ old \notin Live' /\ session'[n].root # r /\ session[old].root # r
    BY <1>3, <1>4 DEF Live
  <2>3. Live \subseteq Session /\ Live' \subseteq Session
    BY DEF Live
  <2> QED  BY <2>1, <2>2, <2>3 DEF GoodSessions
<1>9. [r \in Session |-> GoodSessions(r)]'
        = [[r \in Session |-> GoodSessions(r)] EXCEPT ![root] = {n}]
  BY <1>7, <1>8
<1>10. SignIns!HandOn(root, n)
  BY <1>5, <1>6, <1>9 DEF SignIns!HandOn
<1> QED  BY <1>10 DEF SignIns!Next

LEMMA SignInsStep ==
  ServerInv /\ [ServerNext]_serverVars => [SignIns!Next]_(SignIns!lines)
<1> SUFFICES ASSUME ServerInv, [ServerNext]_serverVars
             PROVE  [SignIns!Next]_(SignIns!lines)
  OBVIOUS
<1>1. CASE UNCHANGED session
  BY <1>1 DEF SignIns!lines, Issued, GoodSessions, Live
<1>2. CASE ServerNext
  BY <1>1, <1>2, IssuesOrIsQuiet, QuietEnds, SignInBegins, RotationHandsOn
<1> QED  BY <1>1, <1>2 DEF serverVars

LEMMA SignInsInit == ServerInit => SignIns!Init
BY DEF ServerInit, NoRow, SignIns!Init, Issued, GoodSessions, Live

(***************************************************************************)
(* Whoever presents whatever token, every sign-in is one line of sessions: *)
(* none is good beside another, and no transaction in progress gives a     *)
(* session to a line that has none left (refresh_account_session holds the *)
(* row of the session it replaces).  A line may go on through a sign-out   *)
(* that a rotation overtakes.                                              *)
(***************************************************************************)
THEOREM ServerKeepsLines == ServerSpec => ImplementsSignIns
<1>1. ServerSpec => []ServerInv
  BY ServerInitInv, ServerStepInv, PTL DEF ServerSpec
<1> QED
  BY <1>1, SignInsInit, SignInsStep, PTL DEF ServerSpec, ImplementsSignIns, SignIns!Spec

-----------------------------------------------------------------------------
(***************************************************************************)
(* The clients.  Dead(s): the sign-in s descends from is over.  A refresh  *)
(* that nothing has overtaken is one of the session the tab holds, and if  *)
(* it was refused before that session expired, the session is dead; a tab  *)
(* whose user has left has nothing in flight that would be taken.          *)
(***************************************************************************)
Known == Issued \cup {NoSession}

Dead(s) == s \in Issued /\ \A t \in Live : session[t].root # session[s].root

Flight ==
  [phase : {"none", "sent", "serving", "answered", "refused", "anonymous"},
   sid : SomeSession, got : SomeSession, changed : BOOLEAN]

TabType(c) ==
  /\ held[c] \in [sid : SomeSession, fresh : BOOLEAN]
  /\ flight[c] \in Flight
  /\ login[c] \in [phase : {"none", "serving", "answered"}, got : SomeSession]
  /\ request[c] \in Request
  /\ leaving[c] \in [phase : {"none", "sent", "admitted", "sweeping"},
                     op : {"logout", "logout_all"}, tok : SomeSession]
  /\ wanted[c] \in BOOLEAN
  /\ leaving[c].phase # "none" => leaving[c].tok \in Session

TabKnows(c) ==
  /\ held[c].sid \in Known
  /\ flight[c].got \in Known
  /\ login[c].got \in Known

FlightInv(c) ==
  flight[c] # NoFlight =>
    /\ flight[c].phase # "none"
    /\ flight[c].sid \in Issued
    /\ ~ flight[c].changed => held[c].sid = flight[c].sid
    /\ flight[c].phase \in {"refused", "anonymous"} =>
         session[flight[c].sid].expired \/ Dead(flight[c].sid)

WantedInv(c) ==
  /\ ~ wanted[c] => ~ SignedIn(c) /\ login[c] = NoLogin
                       /\ (flight[c] = NoFlight \/ flight[c].changed)
  /\ SignedIn(c) => login[c] = NoLogin

TabInv(c) == TabType(c) /\ TabKnows(c) /\ FlightInv(c) /\ WantedInv(c)

Inv ==
  /\ TypeOK
  /\ ServerInv
  /\ stored \in Known
  /\ \A c \in Tab : TabInv(c)

LEMMA InitInv == Init => Inv
<1> SUFFICES ASSUME Init  PROVE Inv
  OBVIOUS
<1>1. ServerInv
  BY ServerInitInv DEF Init
<1>2. TypeOK
  BY <1>1 DEF Init, TypeOK, ServerInv, SomeSession, None, NoFlight, NoLogin, NoRequest, NotLeaving, Request
<1>3. ASSUME NEW c \in Tab  PROVE TabInv(c)
  <2>1. /\ held[c] = None /\ flight[c] = NoFlight /\ login[c] = NoLogin
        /\ request[c] = NoRequest /\ leaving[c] = NotLeaving /\ wanted[c] = FALSE
    BY DEF Init
  <2>2. TabType(c)
    <3>1. held[c] \in [sid : SomeSession, fresh : BOOLEAN]
      BY <2>1 DEF None, SomeSession
    <3>6. wanted[c] \in BOOLEAN
      BY <2>1
    <3>2. flight[c] \in Flight
      BY <2>1 DEF NoFlight, Flight, SomeSession
    <3>3. login[c] \in [phase : {"none", "serving", "answered"}, got : SomeSession]
      BY <2>1 DEF NoLogin, SomeSession
    <3>4. request[c] \in Request
      BY <2>1 DEF Request
    <3>5. leaving[c] \in [phase : {"none", "sent", "admitted", "sweeping"},
                         op : {"logout", "logout_all"}, tok : SomeSession]
          /\ leaving[c].phase = "none"
      BY <2>1 DEF NotLeaving, SomeSession
    <3> QED  BY <3>1, <3>2, <3>3, <3>4, <3>5, <3>6 DEF TabType
  <2>3. TabKnows(c) /\ FlightInv(c) /\ WantedInv(c)
    BY <2>1 DEF TabKnows, FlightInv, WantedInv, SignedIn, None, NoFlight, NoLogin, Known
  <2> QED  BY <2>2, <2>3 DEF TabInv
<1> QED  BY <1>1, <1>2, <1>3 DEF Inv, Init, Known

\* What the clients rely on: what is issued stays issued, what has expired
\* stays so, and a dead line of sessions never revives.
Steady(s) ==
  /\ session'[s].root = session[s].root
  /\ session'[s].expired = session[s].expired
  /\ session'[s].state # "none" <=> session[s].state # "none"
  /\ session'[s].state = "live" => session[s].state = "live"

LEMMA ServerKeeps ==
  ASSUME ServerInv, [ServerNext]_serverVars
  PROVE  /\ Issued \subseteq Issued'
         /\ \A s \in Issued : session[s].expired => session'[s].expired
         /\ \A s \in Session : Dead(s) => Dead(s)'
<1>0. session \in [Session -> Row] /\ ServerTypeOK
  BY DEF ServerInv, ServerTypeOK
<1>1. CASE UNCHANGED session
  BY <1>1 DEF Issued, Dead, Live
<1>2. CASE Quiet
  <2>1. Live' \subseteq Live
    BY <1>2, QuietKeeps
  <2>2. ASSUME NEW s \in Session
        PROVE  /\ session'[s].root = session[s].root
               /\ session'[s].state = "none" <=> session[s].state = "none"
               /\ session[s].expired => session'[s].expired
    <3>1. session[s] \in Row
      BY <1>0
    <3> QED  BY <1>2, <3>1 DEF Quiet, Kept, Gone, Ended, Aged, Row
  <2> QED  BY <2>1, <2>2 DEF Issued, Dead, Live
<1>3. ASSUME NEW n \in Session, session[n].state = "none", session'[n].state = "live",
             session'[n].root = n
               \/ \E old \in Live : session'[n].root = session[old].root,
             \A s \in Session \ {n} : Steady(s)
      PROVE  /\ Issued \subseteq Issued'
             /\ \A s \in Issued : session[s].expired => session'[s].expired
             /\ \A s \in Session : Dead(s) => Dead(s)'
  <2>1. \A s \in Issued : s # n /\ s \in Issued' /\ session'[s].expired = session[s].expired
    BY <1>3 DEF Issued, Steady
  <2>2. ASSUME NEW s \in Session, Dead(s)  PROVE Dead(s)'
    <3>1. s \in Issued /\ s # n /\ session'[s].root = session[s].root
      BY <1>3, <2>1, <2>2 DEF Dead, Steady, Issued
    <3>2. session[s].root \in Issued
      BY <3>1 DEF ServerInv, RootsAreIssued
    <3>3. ASSUME NEW t \in Live'  PROVE session'[t].root # session[s].root
      <4>1. CASE t = n
        BY <1>3, <2>1, <2>2, <3>2, <4>1 DEF Dead
      <4>2. CASE t # n
        BY <1>3, <2>2, <4>2 DEF Dead, Live, Steady
      <4> QED  BY <4>1, <4>2
    <3> QED  BY <2>1, <3>1, <3>3 DEF Dead
  <2> QED  BY <2>1, <2>2
<1>4. ASSUME NEW n \in Session, Register(n) \/ FinishLogin(n)
      PROVE  /\ session[n].state = "none" /\ session'[n].state = "live" /\ session'[n].root = n
             /\ \A s \in Session \ {n} : session'[s] = session[s]
  BY <1>0, <1>4 DEF Register, FinishLogin, NewRow
<1>5. ASSUME NEW n \in Session, FinishRefresh(n)
      PROVE  /\ session[n].state = "none" /\ session'[n].state = "live"
             /\ tx.old \in Live /\ session'[n].root = session[tx.old].root
             /\ \A s \in Session \ {n} : Steady(s)
  <2>1. PICK old \in Live : old = tx.old
    BY <1>5 DEF FinishRefresh, ServerInv, TxInv
  <2>2. old \in Session /\ session[old].state = "live"
    BY DEF Live
  <2>3. session' = [session EXCEPT ![n] = NewRow(session[old].root, tx.ended),
                                   ![old].state = "revoked"]
    BY <1>5, <2>1 DEF FinishRefresh
  <2>4. session[n].state = "none" /\ n # old
    BY <1>5, <2>2 DEF FinishRefresh
  <2>5. session'[n] = NewRow(session[old].root, tx.ended)
    BY <1>0, <2>2, <2>3, <2>4
  <2>6. session'[old] = [session[old] EXCEPT !.state = "revoked"]
    BY <1>0, <2>2, <2>3, <2>4
  <2>7. \A s \in Session \ {n, old} : session'[s] = session[s]
    BY <1>0, <2>2, <2>3, <2>4
  <2>8. session[old] \in Row
    BY <1>0, <2>2
  <2>9. session'[n].state = "live" /\ session'[n].root = session[old].root
    BY <2>5 DEF NewRow
  <2>10. /\ session'[old].root = session[old].root
         /\ session'[old].expired = session[old].expired
         /\ session'[old].state = "revoked"
    BY <2>6, <2>8 DEF Row
  <2>11. ASSUME NEW s \in Session \ {n}
         PROVE  Steady(s)
    <3>1. CASE s = old
      BY <2>2, <2>10, <3>1 DEF Steady
    <3>2. CASE s # old
      BY <2>7, <3>2 DEF Steady
    <3> QED  BY <3>1, <3>2
  <2>12. tx.old \in Live /\ session'[n].root = session[tx.old].root
    BY <2>1, <2>9
  <2> QED  BY <2>4, <2>9, <2>11, <2>12
<1>6. ASSUME NEW s \in Session,
             ReuseAlarm(s) \/ RefuseExpired(s) \/ ChangePassword(s) \/ DeleteAccount
             \/ Logout(s) \/ FinishLogoutAll \/ Expire(s)
      PROVE  Quiet
  <2>1. CASE \E keep \in SUBSET Session : EndAllBut(keep)
    BY <1>0, <2>1 DEF Quiet, EndAllBut, Kept, Ended, Issued
  <2>2. CASE (\E S : session' = Revoked(S)) \/ Expire(s)
    BY <1>0, <2>2 DEF Quiet, Revoked, Expire, Kept, Gone, Aged
  <2> QED  BY <1>6, <2>1, <2>2 DEF ReuseAlarm, RefuseExpired, ChangePassword, DeleteAccount,
                                  Logout, FinishLogoutAll
<1>7. ASSUME DeleteAccount \/ FinishLogoutAll  PROVE Quiet
  <2>1. CASE EndAllBut({})
    BY <1>0, <2>1 DEF Quiet, EndAllBut, Kept, Ended, Issued
  <2>2. CASE session' = Revoked(sweep)
    BY <1>0, <2>2 DEF Quiet, Revoked, Kept, Gone
  <2> QED  BY <1>7, <2>1, <2>2 DEF DeleteAccount, FinishLogoutAll
<1>8. ASSUME NEW s \in Session, BeginLogin \/ BeginRefresh(s)  PROVE UNCHANGED session
  BY <1>8 DEF BeginLogin, BeginRefresh
<1>9. BeginLogin \/ Abort \/ BeginLogoutAll => UNCHANGED session
  BY DEF BeginLogin, Abort, BeginLogoutAll
<1>10. CASE UNCHANGED serverVars
  BY <1>1, <1>10 DEF serverVars
<1>11. CASE \E n \in Session : Register(n) \/ FinishLogin(n)
  BY <1>3, <1>4, <1>11 DEF Steady
<1>12. CASE \E n \in Session : FinishRefresh(n)
  <2>1. PICK n \in Session : FinishRefresh(n)
    BY <1>12
  <2>2. \E old \in Live : session'[n].root = session[old].root
    BY <1>5, <2>1
  <2> QED  BY <1>3, <1>5, <2>1, <2>2
<1>13. CASE \E s \in Session : BeginRefresh(s)
  BY <1>1, <1>8, <1>13
<1>14. CASE \E s \in Session : \/ ReuseAlarm(s) \/ RefuseExpired(s) \/ ChangePassword(s)
                              \/ Logout(s) \/ Expire(s)
  BY <1>2, <1>6, <1>14
<1>15. CASE BeginLogin \/ Abort \/ BeginLogoutAll \/ DeleteAccount \/ FinishLogoutAll
  BY <1>1, <1>2, <1>7, <1>9, <1>15
<1> QED  BY <1>10, <1>11, <1>12, <1>13, <1>14, <1>15 DEF ServerNext

Same(d) ==
  /\ held'[d] = held[d]
  /\ flight'[d] = flight[d]
  /\ login'[d] = login[d]
  /\ request'[d] = request[d]
  /\ leaving'[d] = leaving[d]
  /\ wanted'[d] = wanted[d]

LEMMA TabKeeps ==
  ASSUME Inv, [ServerNext]_serverVars, NEW d \in Tab, Same(d)
  PROVE  TabInv(d)'
<1>1. TabType(d)' /\ WantedInv(d)'
  <2> USE DEF Inv, TabInv, Same
  <2>1. TabType(d)'
    BY DEF TabType
  <2>2. WantedInv(d)'
    BY DEF WantedInv, SignedIn
  <2> QED  BY <2>1, <2>2
<1>2. TabKnows(d)'
  BY ServerKeeps DEF Inv, TabInv, Same, TabKnows, Known
<1>3. FlightInv(d)'
  <2>1. CASE flight[d] = NoFlight
    BY <2>1 DEF Same, FlightInv
  <2>2. CASE flight[d] # NoFlight
    <3>1. /\ flight[d].phase # "none" /\ flight[d].sid \in Issued
          /\ ~ flight[d].changed => held[d].sid = flight[d].sid
          /\ flight[d].phase \in {"refused", "anonymous"} =>
               session[flight[d].sid].expired \/ Dead(flight[d].sid)
      BY <2>2 DEF Inv, TabInv, FlightInv
    <3>2. PICK s \in Session : s = flight[d].sid
      BY <3>1 DEF Issued
    <3>3. s \in Issued /\ flight'[d].sid = s
      BY <3>1, <3>2 DEF Same
    <3>4. /\ s \in Issued'
          /\ session[s].expired => session'[s].expired
          /\ Dead(s) => Dead(s)'
      BY <3>3, ServerKeeps DEF Inv
    <3>5. flight'[d] = flight[d] /\ held'[d] = held[d]
      BY DEF Same
    <3>6. flight[d].phase \in {"refused", "anonymous"} => session'[s].expired \/ Dead(s)'
      BY <3>1, <3>2, <3>4
    <3> QED  BY <3>1, <3>2, <3>3, <3>4, <3>5, <3>6 DEF FlightInv, Dead
  <2> QED  BY <2>1, <2>2
<1> QED  BY <1>1, <1>2, <1>3 DEF TabInv

Only(c) ==
  /\ held' = [held EXCEPT ![c] = held'[c]]
  /\ flight' = [flight EXCEPT ![c] = flight'[c]]
  /\ login' = [login EXCEPT ![c] = login'[c]]
  /\ request' = [request EXCEPT ![c] = request'[c]]
  /\ leaving' = [leaving EXCEPT ![c] = leaving'[c]]
  /\ wanted' = [wanted EXCEPT ![c] = wanted'[c]]

LEMMA OneTabMoves ==
  ASSUME Inv, [ServerNext]_serverVars, NEW c \in Tab, Only(c), TabInv(c)',
         stored' \in Known', alarmed' \in BOOLEAN
  PROVE  Inv'
<1>1. ServerInv'
  BY ServerStepInv DEF Inv
<1>2. \A d \in Tab : TabInv(d)'
  <2>1. ASSUME NEW d \in Tab, d # c  PROVE Same(d)
    BY <2>1 DEF Only, Same, Inv, TypeOK
  <2> QED  BY <2>1, TabKeeps
<1>3. TypeOK'
  <2>1. /\ held' = [d \in Tab |-> held'[d]] /\ flight' = [d \in Tab |-> flight'[d]]
        /\ login' = [d \in Tab |-> login'[d]] /\ request' = [d \in Tab |-> request'[d]]
        /\ leaving' = [d \in Tab |-> leaving'[d]] /\ wanted' = [d \in Tab |-> wanted'[d]]
    BY DEF Only, Inv, TypeOK
  <2>2. \A d \in Tab : TabType(d)'
    BY <1>2 DEF TabInv
  <2>3. held' \in [Tab -> [sid : SomeSession, fresh : BOOLEAN]]
    BY <2>1, <2>2 DEF TabType
  <2>4. flight' \in [Tab -> Flight]
    BY <2>1, <2>2 DEF TabType
  <2>5. login' \in [Tab -> [phase : {"none", "serving", "answered"}, got : SomeSession]]
    BY <2>1, <2>2 DEF TabType
  <2>6. request' \in [Tab -> Request]
    BY <2>1, <2>2 DEF TabType
  <2>7. leaving' \in [Tab -> [phase : {"none", "sent", "admitted", "sweeping"},
                             op : {"logout", "logout_all"}, tok : SomeSession]]
    BY <2>1, <2>2 DEF TabType
  <2>8. wanted' \in [Tab -> BOOLEAN]
    BY <2>1, <2>2 DEF TabType
  <2>9. stored' \in SomeSession
    BY DEF Known, Issued, SomeSession
  <2> QED  BY <1>1, <2>3, <2>4, <2>5, <2>6, <2>7, <2>8, <2>9 DEF TypeOK, ServerInv, Flight
<1> QED  BY <1>1, <1>2, <1>3 DEF Inv

-----------------------------------------------------------------------------
(* Each step of a tab changes that tab only, and the server by at most one *)
(* of its operations.                                                      *)

Local(c) ==
  \/ Stale(c) \/ StartRefresh(c) \/ TakeRefresh(c) \/ TakeRefusal(c) \/ TakeAnonymous(c)
  \/ TakeLogin(c) \/ Admit(c) \/ Refuse(c) \/ TakeDeleted(c) \/ TakeUnauthorised(c)
  \/ AdmitSignOut(c) \/ Reload(c)
  \/ \E op \in Does[c] : Send(c, op) \/ SignOut(c, op)

Remote(c) ==
  \/ ServeRefresh(c) \/ RefuseRefresh(c) \/ FailRefresh(c) \/ StartLogin(c) \/ FailLogin(c)
  \/ ExecutePassword(c) \/ ExecuteDelete(c) \/ ExecuteSignOut(c)
  \/ \E n \in Session : SignUp(c, n) \/ CommitLogin(c, n) \/ CommitRefresh(c, n)

LEMMA LocalLeavesServer ==
  ASSUME NEW c \in Tab, Local(c)
  PROVE  UNCHANGED <<serverVars, alarmed>>
BY DEF Local, Stale, StartRefresh, TakeRefresh, TakeRefusal, TakeAnonymous, TakeLogin, Admit, Refuse,
       TakeDeleted, TakeUnauthorised, AdmitSignOut, Reload, Send, SignOut

LEMMA LocalMovesOne ==
  ASSUME Inv, NEW c \in Tab, Local(c)
  PROVE  Only(c)
<1>1. TypeOK
  BY DEF Inv
<1> USE <1>1 DEF Only, TypeOK
<1>2. CASE Stale(c) \/ StartRefresh(c) \/ TakeRefusal(c)
  BY <1>2 DEF Stale, StartRefresh, TakeRefusal, EndFlight
<1>3. CASE TakeRefresh(c) \/ TakeAnonymous(c)
  BY <1>3 DEF TakeRefresh, TakeAnonymous, EndFlight, Save
<1>4. CASE TakeLogin(c) \/ Admit(c) \/ Refuse(c) \/ TakeDeleted(c)
  BY <1>4 DEF TakeLogin, Admit, Refuse, TakeDeleted, Save
<1>5. CASE TakeUnauthorised(c)
  BY <1>5 DEF TakeUnauthorised
<1>6. CASE AdmitSignOut(c) \/ Reload(c)
  BY <1>6 DEF AdmitSignOut, Reload
<1>7. CASE \E op \in Does[c] : Send(c, op) \/ SignOut(c, op)
  BY <1>7 DEF Send, SignOut, Save
<1> QED  BY <1>2, <1>3, <1>4, <1>5, <1>6, <1>7 DEF Local

LEMMA RemoteMovesOne ==
  ASSUME Inv, NEW c \in Tab, Remote(c)
  PROVE  Only(c)
<1>1. TypeOK
  BY DEF Inv
<1> USE <1>1 DEF Only, TypeOK
<1>2. CASE ServeRefresh(c) \/ RefuseRefresh(c) \/ FailRefresh(c)
  BY <1>2 DEF ServeRefresh, RefuseRefresh, FailRefresh, EndFlight
<1>3. CASE StartLogin(c) \/ FailLogin(c)
  BY <1>3 DEF StartLogin, FailLogin
<1>4. CASE ExecutePassword(c) \/ ExecuteDelete(c) \/ ExecuteSignOut(c)
  BY <1>4 DEF ExecutePassword, ExecuteDelete, ExecuteSignOut
<1>5. CASE \E n \in Session : SignUp(c, n) \/ CommitLogin(c, n) \/ CommitRefresh(c, n)
  BY <1>5 DEF SignUp, CommitLogin, CommitRefresh
<1> QED  BY <1>2, <1>3, <1>4, <1>5 DEF Remote

LEMMA RemoteIsServed ==
  ASSUME Inv, NEW c \in Tab, Remote(c)
  PROVE  [ServerNext]_serverVars
<1>1. TabInv(c)
  BY DEF Inv
<1>2. ASSUME NEW s \in Session,
             BeginRefresh(s) \/ ReuseAlarm(s) \/ RefuseExpired(s) \/ ChangePassword(s) \/ Logout(s)
               \/ Register(s) \/ FinishLogin(s) \/ FinishRefresh(s)
      PROVE  ServerNext
  BY <1>2 DEF ServerNext
<1>3. flight[c].phase = "sent" => flight[c].sid \in Session
  BY <1>1 DEF TabInv, FlightInv, NoFlight, Issued
<1>4. leaving[c].phase = "admitted" => leaving[c].tok \in Session
  BY <1>1 DEF TabInv, TabType
<1>5. request[c].phase = "admitted" => request[c].tok \in Session
  BY <1>1 DEF TabInv, TabType, Request, NoRequest
<1>6. CASE ServeRefresh(c) \/ RefuseRefresh(c) \/ FailRefresh(c)
  BY <1>2, <1>3, <1>6 DEF ServeRefresh, RefuseRefresh, FailRefresh, ServerNext
<1>7. CASE StartLogin(c) \/ FailLogin(c)
  BY <1>7 DEF StartLogin, FailLogin, ServerNext
<1>8. CASE ExecutePassword(c)
  BY <1>2, <1>5, <1>8 DEF ExecutePassword
<1>9. CASE ExecuteDelete(c) \/ ExecuteSignOut(c)
  BY <1>2, <1>4, <1>9 DEF ExecuteDelete, ExecuteSignOut, ServerNext
<1>10. CASE \E n \in Session : SignUp(c, n) \/ CommitLogin(c, n) \/ CommitRefresh(c, n)
  BY <1>2, <1>10 DEF SignUp, CommitLogin, CommitRefresh
<1> QED  BY <1>6, <1>7, <1>8, <1>9, <1>10 DEF Remote

\* TabInv(c) taken apart.
LEMMA TabFacts ==
  ASSUME Inv, NEW c \in Tab
  PROVE  /\ TabType(c) /\ TabKnows(c) /\ FlightInv(c) /\ WantedInv(c)
         /\ held \in [Tab -> [sid : SomeSession, fresh : BOOLEAN]]
         /\ flight \in [Tab -> Flight]
         /\ login \in [Tab -> [phase : {"none", "serving", "answered"}, got : SomeSession]]
         /\ request \in [Tab -> Request]
         /\ leaving \in [Tab -> [phase : {"none", "sent", "admitted", "sweeping"},
                                op : {"logout", "logout_all"}, tok : SomeSession]]
         /\ wanted \in [Tab -> BOOLEAN]
         /\ stored \in Known /\ NoSession \in Known /\ Known \subseteq SomeSession
BY DEF Inv, TabInv, TypeOK, Flight, Known, Issued, SomeSession

LEMMA ResumedType ==
  ASSUME NEW r \in Request, NEW sid \in SomeSession
  PROVE  Resumed(r, sid) \in Request
<1>1. CASE r = NoRequest \/ sid = NoSession
  BY <1>1 DEF Resumed, Request, NoRequest
<1>2. CASE r # NoRequest /\ sid \in Session
  <2>1. r \in [phase : {"sent", "admitted", "refused", "waiting", "deleted"},
               op : {"read", "password", "delete"}, tok : Session, retried : BOOLEAN]
    BY <1>2 DEF Request
  <2>2. [r EXCEPT !.phase = "sent", !.tok = sid, !.retried = TRUE] \in Request
    BY <1>2, <2>1 DEF Request
  <2> QED  BY <1>2, <2>2, SessionAssumption DEF Resumed
<1> QED  BY <1>1, <1>2 DEF SomeSession

\* What a step makes of the tab's variables, by their new values.
LEMMA TabTypeOf ==
  ASSUME NEW c \in Tab,
         held'[c] \in [sid : SomeSession, fresh : BOOLEAN],
         flight'[c] \in Flight,
         login'[c] \in [phase : {"none", "serving", "answered"}, got : SomeSession],
         request'[c] \in Request,
         leaving'[c] \in [phase : {"none", "sent", "admitted", "sweeping"},
                          op : {"logout", "logout_all"}, tok : SomeSession],
         leaving'[c].phase # "none" => leaving'[c].tok \in Session,
         wanted'[c] \in BOOLEAN
  PROVE  TabType(c)'
BY DEF TabType

LEMMA LocalInv ==
  ASSUME Inv, NEW c \in Tab, Local(c)
  PROVE  TabInv(c)' /\ stored' \in Known'
<1>1. UNCHANGED serverVars
  BY LocalLeavesServer
<1>2. session' = session /\ Known' = Known /\ Issued' = Issued /\ Live' = Live
  BY <1>1 DEF serverVars, Known, Issued, Live
<1>3. /\ TabType(c) /\ TabKnows(c) /\ FlightInv(c) /\ WantedInv(c)
      /\ held \in [Tab -> [sid : SomeSession, fresh : BOOLEAN]]
      /\ flight \in [Tab -> Flight]
      /\ login \in [Tab -> [phase : {"none", "serving", "answered"}, got : SomeSession]]
      /\ request \in [Tab -> Request]
      /\ leaving \in [Tab -> [phase : {"none", "sent", "admitted", "sweeping"},
                             op : {"logout", "logout_all"}, tok : SomeSession]]
      /\ wanted \in [Tab -> BOOLEAN]
      /\ stored \in Known /\ NoSession \in Known /\ Known \subseteq SomeSession
  BY TabFacts
<1>t. /\ held[c] \in [sid : SomeSession, fresh : BOOLEAN]
      /\ flight[c] \in Flight
      /\ login[c] \in [phase : {"none", "serving", "answered"}, got : SomeSession]
      /\ request[c] \in Request
      /\ leaving[c] \in [phase : {"none", "sent", "admitted", "sweeping"},
                         op : {"logout", "logout_all"}, tok : SomeSession]
      /\ leaving[c].phase # "none" => leaving[c].tok \in Session
  BY <1>3 DEF TabType
<1>w. wanted[c] \in BOOLEAN
  BY <1>3 DEF TabType
<1>n. /\ NoFlight \in Flight /\ NoLogin \in [phase : {"none", "serving", "answered"}, got : SomeSession]
      /\ NoRequest \in Request
  BY DEF NoFlight, NoLogin, NoRequest, Flight, Request, SomeSession
<1>k. held[c].sid \in Known /\ flight[c].got \in Known /\ login[c].got \in Known
  BY <1>3 DEF TabKnows
<1>b. Bumped(flight[c]) \in Flight /\ Bumped(flight[c]).got = flight[c].got
      /\ (Bumped(flight[c]) = NoFlight <=> flight[c] = NoFlight)
      /\ (flight[c] # NoFlight => /\ Bumped(flight[c]).changed
                                  /\ Bumped(flight[c]).phase = flight[c].phase
                                  /\ Bumped(flight[c]).sid = flight[c].sid)
  <2>1. CASE flight[c] = NoFlight
    <3>1. Bumped(flight[c]) = [NoFlight EXCEPT !.changed = FALSE]
      BY <2>1 DEF Bumped
    <3>2. Bumped(flight[c]) = NoFlight
      BY <3>1 DEF NoFlight
    <3> QED  BY <1>n, <2>1, <3>2
  <2>2. CASE flight[c] # NoFlight
    <3>1. Bumped(flight[c]) = [flight[c] EXCEPT !.changed = TRUE]
      BY <2>2 DEF Bumped
    <3>2. /\ Bumped(flight[c]).changed
          /\ Bumped(flight[c]).phase = flight[c].phase
          /\ Bumped(flight[c]).sid = flight[c].sid
          /\ Bumped(flight[c]).got = flight[c].got
      BY <1>t, <3>1 DEF Flight
    <3>3. Bumped(flight[c]) \in Flight
      BY <1>t, <3>1 DEF Flight
    <3>4. Bumped(flight[c]) # NoFlight
      <4>1. NoFlight.changed = FALSE
        BY DEF NoFlight
      <4> QED  BY <3>2, <4>1
    <3> QED  BY <2>2, <3>2, <3>3, <3>4
  <2> QED  BY <2>1, <2>2
<1>f. flight[c] # NoFlight => SignedIn(c) \/ flight[c].changed
  BY <1>3, SessionAssumption DEF FlightInv, SignedIn, Issued
<1>s. held[c].sid \in SomeSession /\ flight[c].got \in SomeSession
  BY <1>t DEF Flight
<1>r. \A sid \in SomeSession : Resumed(request[c], sid) \in Request
  BY <1>t, ResumedType
<1>4. CASE Stale(c)
  <2>0. /\ held'[c] = [held[c] EXCEPT !.fresh = FALSE]
        /\ stored' = stored
        /\ flight'[c] = flight[c]
        /\ login'[c] = login[c]
        /\ request'[c] = request[c]
        /\ leaving'[c] = leaving[c]
        /\ wanted'[c] = wanted[c]
    BY <1>3, <1>4 DEF Stale
  <2>a. held'[c] \in [sid : SomeSession, fresh : BOOLEAN] /\ held'[c].sid = held[c].sid
    BY <2>0, <1>t
  <2>1. TabType(c)'
    BY <2>0, <2>a, <1>t, <1>w, TabTypeOf
  <2>2. TabKnows(c)' /\ stored' \in Known'
    BY <2>0, <2>a, <1>2, <1>3, <1>k DEF TabKnows
  <2>3. FlightInv(c)'
    BY <2>0, <2>a, <1>2, <1>3 DEF FlightInv, Dead
  <2>4. WantedInv(c)'
    BY <2>0, <2>a, <1>3 DEF WantedInv, SignedIn
  <2> QED  BY <2>1, <2>2, <2>3, <2>4 DEF TabInv
<1>5. CASE StartRefresh(c)
  <2>0. /\ flight'[c] = NewFlight(held[c].sid) /\ held[c].sid \in Issued
        /\ stored' = stored
        /\ held'[c] = held[c]
        /\ login'[c] = login[c]
        /\ request'[c] = request[c]
        /\ leaving'[c] = leaving[c]
        /\ wanted'[c] = wanted[c]
    BY <1>3, <1>k, <1>5 DEF StartRefresh, SignedIn, Known
  <2>a. /\ flight'[c] \in Flight /\ flight'[c].got = NoSession /\ flight'[c].sid = held[c].sid
        /\ flight'[c].phase \in {"sent", "anonymous"}
        /\ flight'[c].phase = "anonymous" => session[held[c].sid].expired
    BY <2>0, <1>t DEF NewFlight, Flight, SomeSession
  <2>b. wanted[c]
    BY <1>3, <1>5 DEF WantedInv, StartRefresh
  <2>1. TabType(c)'
    BY <2>0, <2>a, <1>t, <1>w, TabTypeOf
  <2>2. TabKnows(c)' /\ stored' \in Known'
    BY <2>0, <2>a, <1>2, <1>3, <1>k DEF TabKnows
  <2>3. FlightInv(c)'
    BY <2>0, <2>a, <1>2, <1>3 DEF FlightInv, Dead
  <2>4. WantedInv(c)'
    BY <2>0, <2>b, <1>3 DEF WantedInv, SignedIn
  <2> QED  BY <2>1, <2>2, <2>3, <2>4 DEF TabInv
<1>6. CASE TakeRefresh(c)
  <2>1. /\ flight[c] # NoFlight /\ flight'[c] = NoFlight
        /\ login'[c] = login[c] /\ leaving'[c] = leaving[c] /\ wanted'[c] = wanted[c]
    <3>1. flight[c] # NoFlight
      BY <1>6 DEF TakeRefresh, NoFlight
    <3>2. EndFlight(c, held[c].sid) \/ EndFlight(c, flight[c].got)
      BY <1>6 DEF TakeRefresh
    <3>3. UNCHANGED <<login, leaving, wanted>>
      BY <1>6 DEF TakeRefresh
    <3> QED  BY <1>3, <3>1, <3>2, <3>3 DEF EndFlight
  <2>2. CASE flight[c].changed
    <3>1. held'[c] = held[c] /\ stored' = stored /\ request'[c] = Resumed(request[c], held[c].sid)
      BY <1>3, <1>6, <2>2 DEF TakeRefresh, EndFlight
    <3>2. TabType(c)'
      BY <1>s, <1>n, <1>r, <1>t, <1>w, <2>1, <3>1, TabTypeOf
    <3>3. TabKnows(c)' /\ FlightInv(c)' /\ stored' \in Known'
      BY <1>2, <1>3, <1>k, <2>1, <3>1 DEF TabKnows, NoFlight, FlightInv
    <3>4. WantedInv(c)'
      BY <1>3, <2>1, <3>1 DEF WantedInv, SignedIn
    <3> QED  BY <3>2, <3>3, <3>4 DEF TabInv
  <2>3. CASE ~ flight[c].changed
    <3>1. /\ held'[c] = [sid |-> flight[c].got, fresh |-> flight[c].got # NoSession]
          /\ stored' = flight[c].got /\ request'[c] = Resumed(request[c], flight[c].got)
      BY <1>3, <1>6, <2>3 DEF TakeRefresh, EndFlight, Save
    <3>2. held'[c] \in [sid : SomeSession, fresh : BOOLEAN] /\ held'[c].sid \in Known
      BY <1>3, <1>k, <3>1
    <3>3. wanted'[c] /\ login'[c] = NoLogin
      BY <1>3, <1>f, <2>1, <2>3 DEF WantedInv
    <3>4. TabType(c)'
      BY <1>s, <1>n, <1>r, <1>t, <1>w, <2>1, <3>1, <3>2, TabTypeOf
    <3>5. TabKnows(c)' /\ FlightInv(c)' /\ stored' \in Known'
      BY <1>2, <1>3, <1>k, <2>1, <3>1, <3>2 DEF TabKnows, NoFlight, FlightInv
    <3>6. WantedInv(c)'
      BY <3>3 DEF WantedInv
    <3> QED  BY <3>4, <3>5, <3>6 DEF TabInv
  <2> QED  BY <2>2, <2>3
<1>7. CASE TakeRefusal(c)
  <2>1. /\ flight[c] # NoFlight /\ flight[c].phase = "refused" /\ stored' = stored
        /\ held'[c] = held[c] /\ login'[c] = login[c] /\ leaving'[c] = leaving[c] /\ wanted'[c] = wanted[c]
    BY <1>3, <1>7 DEF TakeRefusal, NoFlight
  <2>2. CASE flight[c].changed
    <3>1. flight'[c] = NoFlight /\ request'[c] = Resumed(request[c], held[c].sid)
      BY <1>3, <1>7, <2>2 DEF TakeRefusal, EndFlight
    <3>2. TabType(c)'
      BY <1>s, <1>n, <1>r, <1>t, <1>w, <2>1, <3>1, TabTypeOf
    <3>3. TabKnows(c)' /\ FlightInv(c)' /\ stored' \in Known'
      BY <1>2, <1>3, <1>k, <2>1, <3>1 DEF TabKnows, NoFlight, FlightInv
    <3>4. WantedInv(c)'
      BY <1>3, <2>1, <3>1 DEF WantedInv, SignedIn
    <3> QED  BY <3>2, <3>3, <3>4 DEF TabInv
  <2>3. CASE ~ flight[c].changed
    <3>1. flight'[c] = [flight[c] EXCEPT !.phase = "anonymous"] /\ request'[c] = request[c]
      BY <1>3, <1>7, <2>3 DEF TakeRefusal
    <3>2. /\ flight'[c] \in Flight /\ flight'[c].got = flight[c].got
          /\ flight'[c].sid = flight[c].sid /\ flight'[c].changed = flight[c].changed
          /\ flight'[c].phase = "anonymous"
      BY <1>t, <3>1 DEF Flight
    <3>3. TabType(c)'
      BY <1>t, <1>w, <2>1, <3>1, <3>2, TabTypeOf
    <3>4. TabKnows(c)' /\ stored' \in Known'
      BY <1>2, <1>3, <1>k, <2>1, <3>2 DEF TabKnows
    <3>5. FlightInv(c)'
      BY <1>2, <1>3, <2>1, <3>2 DEF FlightInv, Dead
    <3>6. wanted'[c] /\ login'[c] = NoLogin
      BY <1>3, <1>f, <2>1, <2>3 DEF WantedInv
    <3>7. WantedInv(c)'
      BY <3>6 DEF WantedInv
    <3> QED  BY <3>3, <3>4, <3>5, <3>7 DEF TabInv
  <2> QED  BY <2>2, <2>3
<1>8. CASE TakeAnonymous(c)
  <2>1. /\ flight[c] # NoFlight /\ flight'[c] = NoFlight
        /\ login'[c] = login[c] /\ leaving'[c] = leaving[c] /\ wanted'[c] = wanted[c]
    <3>1. flight[c] # NoFlight
      BY <1>8 DEF TakeAnonymous, NoFlight
    <3>2. EndFlight(c, held[c].sid) \/ EndFlight(c, NoSession)
      BY <1>8 DEF TakeAnonymous
    <3>3. UNCHANGED <<login, leaving, wanted>>
      BY <1>8 DEF TakeAnonymous
    <3> QED  BY <1>3, <3>1, <3>2, <3>3 DEF EndFlight
  <2>2. CASE flight[c].changed
    <3>1. held'[c] = held[c] /\ stored' = stored /\ request'[c] = Resumed(request[c], held[c].sid)
      BY <1>3, <1>8, <2>2 DEF TakeAnonymous, EndFlight
    <3>2. TabType(c)'
      BY <1>s, <1>n, <1>r, <1>t, <1>w, <2>1, <3>1, TabTypeOf
    <3>3. TabKnows(c)' /\ FlightInv(c)' /\ stored' \in Known'
      BY <1>2, <1>3, <1>k, <2>1, <3>1 DEF TabKnows, NoFlight, FlightInv
    <3>4. WantedInv(c)'
      BY <1>3, <2>1, <3>1 DEF WantedInv, SignedIn
    <3> QED  BY <3>2, <3>3, <3>4 DEF TabInv
  <2>3. CASE ~ flight[c].changed
    <3>1. held'[c] = None /\ stored' = NoSession /\ request'[c] = Resumed(request[c], NoSession)
      BY <1>3, <1>8, <2>3 DEF TakeAnonymous, EndFlight, Save, None
    <3>2. held'[c] \in [sid : SomeSession, fresh : BOOLEAN] /\ held'[c].sid = NoSession
      BY <3>1 DEF None, SomeSession
    <3>3. wanted'[c]
      BY <1>3, <1>f, <2>1, <2>3 DEF WantedInv
    <3>4. TabType(c)'
      BY <1>s, <1>n, <1>r, <1>t, <1>w, <2>1, <3>1, <3>2, TabTypeOf
    <3>5. TabKnows(c)' /\ FlightInv(c)' /\ stored' \in Known'
      BY <1>2, <1>3, <1>k, <2>1, <3>1, <3>2 DEF TabKnows, NoFlight, FlightInv
    <3>6. WantedInv(c)'
      BY <3>2, <3>3 DEF WantedInv, SignedIn
    <3> QED  BY <3>4, <3>5, <3>6 DEF TabInv
  <2> QED  BY <2>2, <2>3
<1>9. CASE TakeLogin(c)
  <2>0. /\ flight'[c] = Bumped(flight[c])
        /\ stored' \in Known
        /\ held'[c] \in [sid : SomeSession, fresh : BOOLEAN] /\ held'[c].sid \in Known
        /\ login'[c] = NoLogin
        /\ login[c] # NoLogin
        /\ request'[c] = request[c]
        /\ leaving'[c] = leaving[c]
        /\ wanted'[c] = wanted[c]
    BY <1>3, <1>k, <1>t, <1>9 DEF TakeLogin, Save, NoLogin, SomeSession, Known, Issued
  <2>a. wanted[c]
    BY <2>0, <1>3 DEF WantedInv
  <2>1. TabType(c)'
    BY <2>0, <1>b, <1>t, <1>w, <1>n, TabTypeOf
  <2>2. TabKnows(c)' /\ stored' \in Known'
    BY <2>0, <1>b, <1>2, <1>3, <1>k DEF TabKnows, NoLogin
  <2>3. FlightInv(c)'
    BY <2>0, <1>b, <1>2, <1>3 DEF FlightInv, Dead
  <2>4. WantedInv(c)'
    BY <2>0, <2>a DEF WantedInv, SignedIn
  <2> QED  BY <2>1, <2>2, <2>3, <2>4 DEF TabInv
<1>10. CASE Admit(c)
  <2>0. /\ stored' = stored
        /\ held'[c] = held[c]
        /\ flight'[c] = flight[c]
        /\ login'[c] = login[c]
        /\ leaving'[c] = leaving[c]
        /\ wanted'[c] = wanted[c]
        /\ request[c] # NoRequest
        /\ request'[c] = NoRequest \/ request'[c] = [request[c] EXCEPT !.phase = "admitted"]
    BY <1>3, <1>10 DEF Admit, NoRequest
  <2>a. request'[c] \in Request
    BY <2>0, <1>t, <1>n DEF Request
  <2>1. TabType(c)'
    BY <2>0, <2>a, <1>t, <1>w, TabTypeOf
  <2>2. TabKnows(c)' /\ stored' \in Known'
    BY <2>0, <1>2, <1>3, <1>k DEF TabKnows
  <2>3. FlightInv(c)'
    BY <2>0, <1>2, <1>3 DEF FlightInv, Dead
  <2>4. WantedInv(c)'
    BY <2>0, <1>3 DEF WantedInv, SignedIn
  <2> QED  BY <2>1, <2>2, <2>3, <2>4 DEF TabInv
<1>11. CASE Refuse(c)
  <2>0. /\ stored' = stored
        /\ held'[c] = held[c]
        /\ flight'[c] = flight[c]
        /\ login'[c] = login[c]
        /\ leaving'[c] = leaving[c]
        /\ wanted'[c] = wanted[c]
        /\ request[c] # NoRequest
        /\ request'[c] = NoRequest \/ request'[c] = [request[c] EXCEPT !.phase = "refused"]
    BY <1>3, <1>11 DEF Refuse, Unauthorised, NoRequest
  <2>a. request'[c] \in Request
    BY <2>0, <1>t, <1>n DEF Request
  <2>1. TabType(c)'
    BY <2>0, <2>a, <1>t, <1>w, TabTypeOf
  <2>2. TabKnows(c)' /\ stored' \in Known'
    BY <2>0, <1>2, <1>3, <1>k DEF TabKnows
  <2>3. FlightInv(c)'
    BY <2>0, <1>2, <1>3 DEF FlightInv, Dead
  <2>4. WantedInv(c)'
    BY <2>0, <1>3 DEF WantedInv, SignedIn
  <2> QED  BY <2>1, <2>2, <2>3, <2>4 DEF TabInv
<1>12. CASE TakeDeleted(c)
  <2>0. /\ flight'[c] = Bumped(flight[c])
        /\ stored' = NoSession
        /\ held'[c] = None
        /\ request'[c] = NoRequest
        /\ login'[c] = login[c]
        /\ leaving'[c] = leaving[c]
    BY <1>3, <1>12 DEF TakeDeleted, Save, None
  <2>a. held'[c] \in [sid : SomeSession, fresh : BOOLEAN] /\ held'[c].sid = NoSession
    BY <2>0 DEF None, SomeSession
  <2>b. wanted'[c] = (login[c] # NoLogin)
    BY <1>3, <1>12 DEF TakeDeleted
  <2>c. wanted'[c] \in BOOLEAN
    BY <2>b
  <2>1. TabType(c)'
    BY <2>0, <2>a, <2>c, <1>b, <1>t, <1>n, TabTypeOf
  <2>2. TabKnows(c)' /\ stored' \in Known'
    BY <2>0, <2>a, <1>b, <1>2, <1>3, <1>k DEF TabKnows
  <2>3. FlightInv(c)'
    BY <2>0, <1>b, <1>2, <1>3 DEF FlightInv, Dead
  <2>4. WantedInv(c)'
    BY <2>0, <2>a, <2>b, <1>b DEF WantedInv, SignedIn
  <2> QED  BY <2>1, <2>2, <2>3, <2>4 DEF TabInv
<1>13. CASE TakeUnauthorised(c)
  <2>0. /\ stored' \in Known
        /\ request'[c] \in Request
        /\ held'[c] = held[c] \/ held'[c] = [held[c] EXCEPT !.fresh = FALSE]
        /\ \/ flight'[c] = flight[c] \/ (flight[c] # NoFlight /\ flight'[c] = Bumped(flight[c]))
           \/ (SignedIn(c) /\ flight[c] = NoFlight /\ flight'[c] = NewFlight(held[c].sid))
        /\ login'[c] = login[c]
        /\ leaving'[c] = leaving[c]
        /\ wanted'[c] = wanted[c]
    <3>1. [request[c] EXCEPT !.phase = "waiting"] \in Request
      BY <1>t, <1>13 DEF TakeUnauthorised, Request, NoRequest
    <3>2. stored' \in Known
      BY <1>3, <1>k, <1>13 DEF TakeUnauthorised
    <3>3. login'[c] = login[c] /\ leaving'[c] = leaving[c] /\ wanted'[c] = wanted[c]
      BY <1>13 DEF TakeUnauthorised
    <3>4. CASE ~ SignedIn(c)
      BY <1>3, <1>13, <1>n, <3>2, <3>3, <3>4 DEF TakeUnauthorised
    <3>5. CASE SignedIn(c) /\ held[c].sid # request[c].tok /\ held[c].fresh
      <4>1. /\ request' = [request EXCEPT ![c] = Resumed([@ EXCEPT !.phase = "waiting"], held[c].sid)]
            /\ UNCHANGED <<held, flight>>
        BY <1>13, <3>5 DEF TakeUnauthorised
      <4>2. request'[c] = Resumed([request[c] EXCEPT !.phase = "waiting"], held[c].sid)
        BY <1>3, <4>1
      <4>3. request'[c] \in Request
        BY <1>s, <3>1, <4>2, ResumedType
      <4> QED  BY <3>2, <3>3, <4>1, <4>3
    <3>6. CASE SignedIn(c) /\ ~ (held[c].sid # request[c].tok /\ held[c].fresh)
      <4>1. /\ request' = [request EXCEPT ![c].phase = "waiting"]
            /\ held' = [held EXCEPT ![c].fresh = FALSE]
            /\ flight' = [flight EXCEPT ![c] =
                 IF @ = NoFlight THEN NewFlight(held[c].sid)
                 ELSE IF held[c].sid = request[c].tok THEN Bumped(@) ELSE @]
        BY <1>13, <3>6 DEF TakeUnauthorised
      <4>2. /\ request'[c] = [request[c] EXCEPT !.phase = "waiting"]
            /\ held'[c] = [held[c] EXCEPT !.fresh = FALSE]
            /\ flight'[c] = IF flight[c] = NoFlight THEN NewFlight(held[c].sid)
                            ELSE IF held[c].sid = request[c].tok THEN Bumped(flight[c]) ELSE flight[c]
        BY <1>3, <4>1
      <4> QED  BY <3>1, <3>2, <3>3, <3>6, <4>2
    <3> QED  BY <3>4, <3>5, <3>6
  <2>a. held'[c] \in [sid : SomeSession, fresh : BOOLEAN] /\ held'[c].sid = held[c].sid
    BY <2>0, <1>t
  <2>b. SignedIn(c) =>
          LET f == NewFlight(held[c].sid)
          IN  /\ f \in Flight /\ f.got = NoSession /\ f.sid = held[c].sid /\ ~ f.changed
              /\ f.phase \in {"sent", "anonymous"} /\ held[c].sid \in Issued
              /\ f.phase = "anonymous" => session[held[c].sid].expired
    BY <1>t, <1>k DEF NewFlight, Flight, SomeSession, SignedIn, Known
  <2>1. TabType(c)'
    BY <2>0, <2>a, <2>b, <1>b, <1>t, <1>w, TabTypeOf
  <2>2. TabKnows(c)' /\ stored' \in Known'
    BY <2>0, <2>a, <2>b, <1>b, <1>2, <1>3, <1>k DEF TabKnows
  <2>3. FlightInv(c)'
    BY <2>0, <2>a, <2>b, <1>b, <1>2, <1>3 DEF FlightInv, Dead
  <2>4. WantedInv(c)'
    BY <2>0, <2>a, <1>b, <1>3, <1>w DEF WantedInv, SignedIn
  <2> QED  BY <2>1, <2>2, <2>3, <2>4 DEF TabInv
<1>14. CASE AdmitSignOut(c)
  <2>0. /\ stored' = stored
        /\ held'[c] = held[c]
        /\ flight'[c] = flight[c]
        /\ login'[c] = login[c]
        /\ request'[c] = request[c]
        /\ wanted'[c] = wanted[c]
        /\ leaving'[c] = NotLeaving \/ leaving'[c] = [leaving[c] EXCEPT !.phase = "admitted"]
        /\ leaving[c].phase = "sent"
    BY <1>3, <1>14 DEF AdmitSignOut
  <2>a. /\ leaving'[c] \in [phase : {"none", "sent", "admitted", "sweeping"},
                            op : {"logout", "logout_all"}, tok : SomeSession]
        /\ leaving'[c].phase # "none" => leaving'[c].tok \in Session
    BY <2>0, <1>t DEF NotLeaving, SomeSession
  <2>1. TabType(c)'
    BY <2>0, <2>a, <1>t, <1>w, TabTypeOf
  <2>2. TabKnows(c)' /\ stored' \in Known'
    BY <2>0, <1>2, <1>3, <1>k DEF TabKnows
  <2>3. FlightInv(c)'
    BY <2>0, <1>2, <1>3 DEF FlightInv, Dead
  <2>4. WantedInv(c)'
    BY <2>0, <1>3 DEF WantedInv, SignedIn
  <2> QED  BY <2>1, <2>2, <2>3, <2>4 DEF TabInv
<1>15. CASE Reload(c)
  <2>0. /\ stored' = stored
        /\ leaving'[c] = leaving[c]
        /\ held'[c] = [sid |-> stored, fresh |-> stored # NoSession]
        /\ flight'[c] = NoFlight
        /\ login'[c] = NoLogin
        /\ request'[c] = NoRequest
    BY <1>3, <1>15 DEF Reload
  <2>a. held'[c] \in [sid : SomeSession, fresh : BOOLEAN] /\ held'[c].sid = stored
    BY <2>0, <1>3
  <2>b. wanted'[c] = (stored # NoSession)
    BY <1>3, <1>15 DEF Reload
  <2>c. wanted'[c] \in BOOLEAN
    BY <2>b
  <2>1. TabType(c)'
    BY <2>0, <2>a, <2>c, <1>t, <1>n, TabTypeOf
  <2>2. TabKnows(c)' /\ stored' \in Known'
    BY <2>0, <2>a, <1>2, <1>3 DEF TabKnows, NoFlight, NoLogin
  <2>3. FlightInv(c)'
    BY <2>0 DEF FlightInv, Dead
  <2>4. WantedInv(c)'
    BY <2>0, <2>a, <2>b DEF WantedInv, SignedIn
  <2> QED  BY <2>1, <2>2, <2>3, <2>4 DEF TabInv
<1>16. CASE \E op \in Does[c] : Send(c, op)
  <2>o. PICK op \in Does[c] : Send(c, op)
    BY <1>16
  <2>r. held[c].sid \in Session
    BY <1>t, <2>o DEF Send, SignedIn, SomeSession
  <2>s. [phase |-> "sent", op |-> op, tok |-> held[c].sid, retried |-> FALSE] \in Request
    BY <2>o, <2>r DEF Request, Send
  <2>0. /\ stored' = stored
        /\ held'[c] = held[c]
        /\ flight'[c] = flight[c]
        /\ login'[c] = login[c]
        /\ leaving'[c] = leaving[c]
        /\ wanted'[c] = wanted[c]
        /\ request'[c] \in Request
    BY <2>r, <2>s, <1>3, <2>o DEF Send
  <2>1. TabType(c)'
    BY <2>0, <1>t, <1>w, TabTypeOf
  <2>2. TabKnows(c)' /\ stored' \in Known'
    BY <2>0, <1>2, <1>3, <1>k DEF TabKnows
  <2>3. FlightInv(c)'
    BY <2>0, <1>2, <1>3 DEF FlightInv, Dead
  <2>4. WantedInv(c)'
    BY <2>0, <1>3 DEF WantedInv, SignedIn
  <2> QED  BY <2>1, <2>2, <2>3, <2>4 DEF TabInv
<1>17. CASE \E op \in Does[c] : SignOut(c, op)
  <2>o. PICK op \in Does[c] : SignOut(c, op)
    BY <1>17
  <2>r. held[c].sid \in Session
    BY <1>t, <2>o DEF SignOut, SignedIn, SomeSession
  <2>0. /\ flight'[c] = Bumped(flight[c])
        /\ stored' = NoSession
        /\ held'[c] = None
        /\ login'[c] = login[c]
        /\ request'[c] = request[c]
        /\ leaving'[c] \in [phase : {"none", "sent", "admitted", "sweeping"},
                           op : {"logout", "logout_all"}, tok : SomeSession]
        /\ leaving'[c].tok \in Session
    <3>1. leaving'[c] = [phase |-> "sent", op |-> op, tok |-> held[c].sid]
      BY <1>3, <2>o DEF SignOut
    <3>2. op \in {"logout", "logout_all"}
      BY <2>o DEF SignOut
    <3>3. /\ flight'[c] = Bumped(flight[c]) /\ stored' = NoSession /\ held'[c] = None
          /\ login'[c] = login[c] /\ request'[c] = request[c]
      BY <1>3, <2>o DEF SignOut, Save, None
    <3> QED  BY <2>r, <3>1, <3>2, <3>3 DEF SomeSession
  <2>a. held'[c] \in [sid : SomeSession, fresh : BOOLEAN] /\ held'[c].sid = NoSession
    BY <2>0 DEF None, SomeSession
  <2>b. ~ wanted'[c] /\ login[c] = NoLogin
    BY <1>3, <2>o DEF SignOut, WantedInv
  <2>c. wanted'[c] \in BOOLEAN
    BY <1>3, <2>o DEF SignOut
  <2>1. TabType(c)'
    BY <2>0, <2>a, <2>c, <1>b, <1>t, TabTypeOf
  <2>2. TabKnows(c)' /\ stored' \in Known'
    BY <2>0, <2>a, <1>b, <1>2, <1>3, <1>k DEF TabKnows
  <2>3. FlightInv(c)'
    BY <2>0, <1>b, <1>2, <1>3 DEF FlightInv, Dead
  <2>4. WantedInv(c)'
    BY <2>0, <2>a, <2>b, <1>b DEF WantedInv, SignedIn
  <2> QED  BY <2>1, <2>2, <2>3, <2>4 DEF TabInv
<1> QED  BY <1>4, <1>5, <1>6, <1>7, <1>8, <1>9, <1>10, <1>11, <1>12, <1>13, <1>14, <1>15, <1>16, <1>17 DEF Local

\* A refresh that goes on, or is over.
LEMMA FlightGoesOn ==
  ASSUME Inv, [ServerNext]_serverVars, NEW c \in Tab, held'[c] = held[c],
         \/ flight'[c] = NoFlight
         \/ flight'[c] = flight[c]
         \/ /\ flight[c] # NoFlight
            /\ flight'[c].sid = flight[c].sid /\ flight'[c].changed = flight[c].changed
            /\ flight'[c].phase \in {"serving", "answered"}
  PROVE  FlightInv(c)'
<1>1. CASE flight'[c] = NoFlight
  BY <1>1 DEF FlightInv
<1>2. CASE flight[c] # NoFlight
  <2>1. /\ flight[c].phase # "none" /\ flight[c].sid \in Issued
        /\ ~ flight[c].changed => held[c].sid = flight[c].sid
        /\ flight[c].phase \in {"refused", "anonymous"} =>
             session[flight[c].sid].expired \/ Dead(flight[c].sid)
    BY <1>2 DEF Inv, TabInv, FlightInv
  <2>2. PICK s \in Session : s = flight[c].sid
    BY <2>1 DEF Issued
  <2>3. /\ s \in Issued'
        /\ session[s].expired => session'[s].expired
        /\ Dead(s) => Dead(s)'
    BY <2>1, <2>2, ServerKeeps DEF Inv
  <2>4. flight[c].phase \in {"refused", "anonymous"} => session'[s].expired \/ Dead(s)'
    BY <2>1, <2>2, <2>3
  <2>5. CASE flight'[c] = flight[c]
    BY <2>1, <2>2, <2>3, <2>4, <2>5 DEF FlightInv, Dead
  <2>6. CASE /\ flight'[c].sid = flight[c].sid /\ flight'[c].changed = flight[c].changed
             /\ flight'[c].phase \in {"serving", "answered"}
    BY <2>1, <2>2, <2>3, <2>6 DEF FlightInv
  <2> QED  BY <1>1, <1>2, <2>5, <2>6
<1> QED  BY <1>1, <1>2

LEMMA RemoteInv ==
  ASSUME Inv, NEW c \in Tab, Remote(c)
  PROVE  TabInv(c)' /\ stored' \in Known' /\ alarmed' \in BOOLEAN
<1>1. [ServerNext]_serverVars
  BY RemoteIsServed
<1>2. Known \subseteq Known' /\ Issued \subseteq Issued'
  BY <1>1, ServerKeeps DEF Inv, Known
<1>3. /\ TabType(c) /\ TabKnows(c) /\ FlightInv(c) /\ WantedInv(c)
      /\ held \in [Tab -> [sid : SomeSession, fresh : BOOLEAN]]
      /\ flight \in [Tab -> Flight]
      /\ login \in [Tab -> [phase : {"none", "serving", "answered"}, got : SomeSession]]
      /\ request \in [Tab -> Request]
      /\ leaving \in [Tab -> [phase : {"none", "sent", "admitted", "sweeping"},
                             op : {"logout", "logout_all"}, tok : SomeSession]]
      /\ wanted \in [Tab -> BOOLEAN]
      /\ stored \in Known /\ NoSession \in Known /\ Known \subseteq SomeSession
  BY TabFacts
<1>t. /\ held[c] \in [sid : SomeSession, fresh : BOOLEAN]
      /\ flight[c] \in Flight
      /\ login[c] \in [phase : {"none", "serving", "answered"}, got : SomeSession]
      /\ request[c] \in Request
      /\ leaving[c] \in [phase : {"none", "sent", "admitted", "sweeping"},
                         op : {"logout", "logout_all"}, tok : SomeSession]
      /\ leaving[c].phase # "none" => leaving[c].tok \in Session
  BY <1>3 DEF TabType
<1>w. wanted[c] \in BOOLEAN
  BY <1>3 DEF TabType
<1>n. /\ NoFlight \in Flight /\ NoLogin \in [phase : {"none", "serving", "answered"}, got : SomeSession]
      /\ NoRequest \in Request /\ NoLogin.got = NoSession /\ NoFlight.got = NoSession
  BY DEF NoFlight, NoLogin, NoRequest, Flight, Request, SomeSession
<1>k. /\ held[c].sid \in Known' /\ flight[c].got \in Known' /\ login[c].got \in Known'
      /\ stored \in Known' /\ NoSession \in Known'
  BY <1>2, <1>3 DEF TabKnows
<1>s. held[c].sid \in SomeSession
  BY <1>t
<1>h. stored' = stored /\ held'[c] = held[c]
  BY <1>3 DEF Remote, ServeRefresh, RefuseRefresh, FailRefresh, StartLogin, FailLogin,
     ExecutePassword, ExecuteDelete, ExecuteSignOut, SignUp, CommitLogin, CommitRefresh
<1>a. alarmed' \in BOOLEAN
  <2>1. alarmed \in BOOLEAN
    BY DEF Inv, TypeOK
  <2> QED  BY <2>1 DEF Remote, ServeRefresh, RefuseRefresh, FailRefresh, StartLogin, FailLogin,
     ExecutePassword, ExecuteDelete, ExecuteSignOut, SignUp, CommitLogin, CommitRefresh
<1> DEFINE Others == login'[c] = login[c] /\ request'[c] = request[c] /\ leaving'[c] = leaving[c]
                       /\ wanted'[c] = wanted[c]
<1>4. ASSUME flight'[c] \in Flight, flight'[c].got \in Known', Others, FlightInv(c)',
             flight[c] # NoFlight, flight'[c].changed = flight[c].changed
      PROVE  TabInv(c)'
  <2>1. TabType(c)'
    BY <1>4, <1>h, <1>t, <1>w, TabTypeOf
  <2>2. TabKnows(c)'
    BY <1>4, <1>h, <1>k DEF TabKnows
  <2>3. WantedInv(c)'
    BY <1>3, <1>4, <1>h DEF WantedInv, SignedIn
  <2> QED  BY <1>4, <2>1, <2>2, <2>3 DEF TabInv
<1>5. CASE ServeRefresh(c)
  <2>1. flight[c].phase = "sent" /\ flight'[c] = [flight[c] EXCEPT !.phase = "serving"] /\ Others
    BY <1>3, <1>5 DEF ServeRefresh
  <2>2. /\ flight'[c] \in Flight /\ flight'[c].got = flight[c].got
        /\ flight'[c].sid = flight[c].sid /\ flight'[c].changed = flight[c].changed
        /\ flight'[c].phase = "serving" /\ flight[c] # NoFlight
    BY <1>t, <2>1 DEF Flight, NoFlight
  <2>3. FlightInv(c)'
    BY <1>1, <1>h, <2>2, FlightGoesOn
  <2> QED  BY <1>4, <1>h, <1>k, <1>a, <2>1, <2>2, <2>3
<1>6. CASE \E n \in Session : CommitRefresh(c, n)
  <2>1. PICK n \in Session : CommitRefresh(c, n)
    BY <1>6
  <2>2. /\ flight[c].phase = "serving" /\ Others
        /\ flight'[c] = [flight[c] EXCEPT !.phase = "answered", !.got = n]
    BY <1>3, <2>1 DEF CommitRefresh
  <2>3. n \in Issued' /\ n \in SomeSession
    <3>1. session'[n].state = "live" \/ session'[n].state = "revoked"
      BY <2>1 DEF CommitRefresh, FinishRefresh, NewRow, Inv, ServerInv, ServerTypeOK
    <3> QED  BY <3>1 DEF Issued, SomeSession
  <2>4. /\ flight'[c] \in Flight /\ flight'[c].got = n
        /\ flight'[c].sid = flight[c].sid /\ flight'[c].changed = flight[c].changed
        /\ flight'[c].phase = "answered" /\ flight[c] # NoFlight
    <3>1. flight[c] # NoFlight
      BY <2>2 DEF NoFlight
    <3>2. flight'[c] \in Flight
      BY <1>t, <2>2, <2>3 DEF Flight
    <3>3. /\ flight'[c].got = n /\ flight'[c].phase = "answered"
          /\ flight'[c].sid = flight[c].sid /\ flight'[c].changed = flight[c].changed
      BY <1>t, <2>2 DEF Flight
    <3> QED  BY <3>1, <3>2, <3>3
  <2>5. FlightInv(c)'
    BY <1>1, <1>h, <2>4, FlightGoesOn
  <2>6. n \in Known'
    BY <2>3 DEF Known
  <2> QED  BY <1>4, <1>h, <1>k, <1>a, <2>2, <2>4, <2>5, <2>6
<1>7. CASE RefuseRefresh(c)
  <2>1. /\ flight[c].phase = "sent" /\ flight'[c] = [flight[c] EXCEPT !.phase = "refused"] /\ Others
        /\ ReuseAlarm(flight[c].sid) \/ RefuseExpired(flight[c].sid)
    BY <1>3, <1>7 DEF RefuseRefresh
  <2>2. /\ flight'[c] \in Flight /\ flight'[c].got = flight[c].got
        /\ flight'[c].sid = flight[c].sid /\ flight'[c].changed = flight[c].changed
        /\ flight'[c].phase = "refused" /\ flight[c] # NoFlight
    BY <1>t, <2>1 DEF Flight, NoFlight
  <2>3. flight[c].sid \in Issued /\ (~ flight[c].changed => held[c].sid = flight[c].sid)
    BY <1>3, <2>2 DEF FlightInv
  <2>4. PICK s \in Issued : s = flight[c].sid
    BY <2>3
  <2>5. s \in Issued'
    BY <1>2
  <2>6. session'[s].expired \/ Dead(s)'
    <3>1. CASE ReuseAlarm(s)
      <4>1. Live' = {}
        BY <3>1 DEF ReuseAlarm, EndAllBut, Live, Issued, Inv, ServerInv, ServerTypeOK, Row
      <4> QED  BY <2>5, <4>1 DEF Dead
    <3>2. CASE RefuseExpired(s)
      <4>1. s \in Live /\ s \in Session
        BY <3>2 DEF RefuseExpired, Live, Issued
      <4>2. status = "active"
        BY <4>1 DEF Inv, ServerInv, LiveSessionsAreCurrent
      <4>3. session[s].expired
        BY <3>2, <4>2 DEF RefuseExpired
      <4> QED  BY <1>1, <4>3, ServerKeeps DEF Inv
    <3> QED  BY <2>1, <2>4, <3>1, <3>2
  <2>7. FlightInv(c)'
    BY <1>h, <2>2, <2>3, <2>4, <2>5, <2>6 DEF FlightInv, Dead
  <2> QED  BY <1>4, <1>h, <1>k, <1>a, <2>1, <2>2, <2>7
<1>8. CASE FailRefresh(c)
  <2>1. /\ flight'[c] = NoFlight /\ request'[c] = Resumed(request[c], NoSession)
        /\ login'[c] = login[c] /\ leaving'[c] = leaving[c] /\ wanted'[c] = wanted[c]
    BY <1>3, <1>8 DEF FailRefresh, EndFlight
  <2>2. request'[c] \in Request
    BY <1>t, <2>1, ResumedType DEF SomeSession
  <2>3. TabType(c)'
    BY <1>h, <1>n, <1>t, <1>w, <2>1, <2>2, TabTypeOf
  <2>4. TabKnows(c)' /\ FlightInv(c)'
    BY <1>1, <1>h, <1>k, <1>n, <2>1, FlightGoesOn DEF TabKnows
  <2>5. WantedInv(c)'
    BY <1>3, <1>h, <2>1 DEF WantedInv, SignedIn
  <2> QED  BY <1>h, <1>k, <1>a, <2>3, <2>4, <2>5 DEF TabInv
<1>9. CASE StartLogin(c) \/ \E n \in Session : SignUp(c, n)
  <2>1. /\ flight'[c] = flight[c] /\ request'[c] = request[c] /\ leaving'[c] = leaving[c]
        /\ wanted'[c] = TRUE /\ ~ SignedIn(c)
    BY <1>3, <1>9 DEF StartLogin, SignUp
  <2>2. login'[c] \in [phase : {"none", "serving", "answered"}, got : SomeSession]
        /\ login'[c].got \in Known'
    <3>1. CASE StartLogin(c)
      <4>1. login'[c] = [login[c] EXCEPT !.phase = "serving"]
        BY <1>3, <3>1 DEF StartLogin
      <4> QED  BY <1>k, <1>t, <4>1
    <3>2. CASE \E n \in Session : SignUp(c, n)
      <4>1. PICK n \in Session : SignUp(c, n)
        BY <3>2
      <4>2. login'[c] = [phase |-> "answered", got |-> n]
        BY <1>3, <4>1 DEF SignUp
      <4>3. session'[n].state = "live"
        BY <4>1 DEF SignUp, Register, NewRow, Inv, ServerInv, ServerTypeOK
      <4> QED  BY <4>2, <4>3 DEF Known, Issued, SomeSession
    <3> QED  BY <1>9, <3>1, <3>2
  <2>3. wanted'[c] \in BOOLEAN
    BY <2>1
  <2>4. TabType(c)'
    BY <1>h, <1>t, <2>1, <2>2, <2>3, TabTypeOf
  <2>5. TabKnows(c)' /\ FlightInv(c)'
    BY <1>1, <1>h, <1>k, <2>1, <2>2, FlightGoesOn DEF TabKnows
  <2>6. WantedInv(c)'
    BY <1>h, <2>1 DEF WantedInv, SignedIn
  <2> QED  BY <1>h, <1>k, <1>a, <2>4, <2>5, <2>6 DEF TabInv
<1>10. CASE FailLogin(c) \/ \E n \in Session : CommitLogin(c, n)
  <2>1. /\ flight'[c] = flight[c] /\ request'[c] = request[c] /\ leaving'[c] = leaving[c]
        /\ wanted'[c] = wanted[c] /\ login[c].phase = "serving"
    BY <1>3, <1>10 DEF FailLogin, CommitLogin
  <2>2. login'[c] \in [phase : {"none", "serving", "answered"}, got : SomeSession]
        /\ login'[c].got \in Known'
    <3>1. CASE FailLogin(c)
      <4>1. login'[c] = NoLogin
        BY <1>3, <3>1 DEF FailLogin
      <4> QED  BY <1>k, <1>n, <4>1
    <3>2. CASE \E n \in Session : CommitLogin(c, n)
      <4>1. PICK n \in Session : CommitLogin(c, n)
        BY <3>2
      <4>2. login'[c] = [phase |-> "answered", got |-> n]
        BY <1>3, <4>1 DEF CommitLogin
      <4>3. session'[n].state = "live"
        BY <4>1 DEF CommitLogin, FinishLogin, NewRow, Inv, ServerInv, ServerTypeOK
      <4> QED  BY <4>2, <4>3 DEF Known, Issued, SomeSession
    <3> QED  BY <1>10, <3>1, <3>2
  <2>3. login[c] # NoLogin
    BY <2>1 DEF NoLogin
  <2>4. TabType(c)'
    BY <1>h, <1>t, <1>w, <2>1, <2>2, TabTypeOf
  <2>5. TabKnows(c)' /\ FlightInv(c)'
    BY <1>1, <1>h, <1>k, <2>1, <2>2, FlightGoesOn DEF TabKnows
  <2>6. wanted[c] /\ ~ SignedIn(c)
    BY <1>3, <2>3 DEF WantedInv
  <2>7. WantedInv(c)'
    BY <1>h, <2>1, <2>6 DEF WantedInv, SignedIn
  <2> QED  BY <1>h, <1>k, <1>a, <2>4, <2>5, <2>7 DEF TabInv
<1>11. ASSUME request'[c] \in Request,
              leaving'[c] \in [phase : {"none", "sent", "admitted", "sweeping"},
                               op : {"logout", "logout_all"}, tok : SomeSession],
              leaving'[c].phase # "none" => leaving'[c].tok \in Session,
              flight'[c] = flight[c], login'[c] = login[c], wanted'[c] = wanted[c]
       PROVE  TabInv(c)'
  <2>1. TabType(c)'
    BY <1>11, <1>h, <1>t, <1>w, TabTypeOf
  <2>2. TabKnows(c)' /\ FlightInv(c)'
    BY <1>1, <1>11, <1>h, <1>k, FlightGoesOn DEF TabKnows
  <2>3. WantedInv(c)'
    BY <1>3, <1>11, <1>h DEF WantedInv, SignedIn
  <2> QED  BY <2>1, <2>2, <2>3 DEF TabInv
<1>12. CASE ExecutePassword(c) \/ ExecuteDelete(c)
  <2>1. /\ flight'[c] = flight[c] /\ login'[c] = login[c] /\ wanted'[c] = wanted[c]
        /\ leaving'[c] = leaving[c] /\ request[c].phase = "admitted"
        /\ \/ request'[c] = NoRequest
           \/ \E p \in {"deleted", "refused"} : request'[c] = [request[c] EXCEPT !.phase = p]
    BY <1>3, <1>12 DEF ExecutePassword, ExecuteDelete, Unauthorised
  <2>2. request'[c] \in Request
    <3>1. request[c] # NoRequest
      BY <2>1 DEF NoRequest
    <3>2. \A p \in {"deleted", "refused"} : [request[c] EXCEPT !.phase = p] \in Request
      BY <1>t, <3>1 DEF Request
    <3> QED  BY <1>n, <2>1, <3>2
  <2> QED  BY <1>11, <1>h, <1>k, <1>a, <1>t, <2>1, <2>2
<1>13. CASE ExecuteSignOut(c)
  <2>1. /\ flight'[c] = flight[c] /\ login'[c] = login[c] /\ wanted'[c] = wanted[c]
        /\ request'[c] = request[c] /\ leaving[c].phase # "none"
        /\ leaving'[c] = NotLeaving \/ leaving'[c] = [leaving[c] EXCEPT !.phase = "sweeping"]
    BY <1>3, <1>13 DEF ExecuteSignOut
  <2>2. /\ leaving'[c] \in [phase : {"none", "sent", "admitted", "sweeping"},
                            op : {"logout", "logout_all"}, tok : SomeSession]
        /\ leaving'[c].phase # "none" => leaving'[c].tok \in Session
    BY <1>t, <2>1 DEF NotLeaving, SomeSession
  <2> QED  BY <1>11, <1>h, <1>k, <1>a, <1>t, <2>1, <2>2
<1> QED  BY <1>5, <1>6, <1>7, <1>8, <1>9, <1>10, <1>12, <1>13 DEF Remote

LEMMA NextInv == Inv /\ [Next]_vars => Inv'
<1> SUFFICES ASSUME Inv, [Next]_vars  PROVE Inv'
  OBVIOUS
<1>1. ASSUME NEW c \in Tab, Local(c)  PROVE Inv'
  <2>1. UNCHANGED serverVars /\ alarmed' \in BOOLEAN
    BY <1>1, LocalLeavesServer DEF Inv, TypeOK
  <2>2. [ServerNext]_serverVars
    BY <2>1
  <2> QED  BY <1>1, <2>1, <2>2, LocalMovesOne, LocalInv, OneTabMoves
<1>2. ASSUME NEW c \in Tab, Remote(c)  PROVE Inv'
  BY <1>2, RemoteIsServed, RemoteMovesOne, RemoteInv, OneTabMoves
<1>3. ASSUME [ServerNext]_serverVars, UNCHANGED clientVars  PROVE Inv'
  <2>1. ServerInv'
    BY <1>3, ServerStepInv DEF Inv
  <2>2. \A d \in Tab : TabInv(d)'
    BY <1>3, TabKeeps DEF Same, clientVars
  <2>3. stored' \in Known'
    BY <1>3, ServerKeeps DEF Inv, clientVars, Known
  <2>4. TypeOK'
    BY <1>3, <2>1 DEF Inv, TypeOK, clientVars, ServerInv
  <2> QED  BY <2>1, <2>2, <2>3, <2>4 DEF Inv
<1>4. CASE UNCHANGED vars
  BY <1>3, <1>4 DEF vars
<1>5. CASE \E s \in Session : TimePasses(s)
  BY <1>3, <1>5 DEF TimePasses, ServerNext
<1>6. CASE \E c \in Tab : Local(c) \/ Remote(c)
  BY <1>1, <1>2, <1>6
<1> QED  BY <1>4, <1>5, <1>6 DEF Next, Local, Remote

LEMMA SpecInv == Spec => []Inv
BY InitInv, NextInv, PTL DEF Spec

(***************************************************************************)
(* Type correctness of the client and the server together.                 *)
(***************************************************************************)
THEOREM SpecTypeOK == Spec => []TypeOK
<1>1. Inv => TypeOK
  BY DEF Inv
<1> QED  BY <1>1, SpecInv, PTL

(***************************************************************************)
(* However the tabs of any number of clients use the server, no session    *)
(* outlives what ended it, and no sign-in ever has two live sessions.      *)
(***************************************************************************)
THEOREM SpecSafe == Spec => [](LiveSessionsAreCurrent /\ OneLivePerSignIn)
<1>1. Inv => LiveSessionsAreCurrent /\ OneLivePerSignIn
  BY DEF Inv, ServerInv
<1> QED  BY <1>1, SpecInv, PTL

LEMMA NextIsServed == Inv /\ [Next]_vars => [ServerNext]_serverVars
<1> SUFFICES ASSUME Inv, [Next]_vars  PROVE [ServerNext]_serverVars
  OBVIOUS
<1>1. ASSUME NEW c \in Tab, Local(c)  PROVE UNCHANGED serverVars
  BY <1>1, LocalLeavesServer
<1>2. ASSUME NEW c \in Tab, Remote(c)  PROVE [ServerNext]_serverVars
  BY <1>2, RemoteIsServed
<1>3. CASE UNCHANGED vars
  BY <1>3 DEF vars
<1>4. CASE \E s \in Session : TimePasses(s)
  BY <1>4 DEF TimePasses, ServerNext
<1>5. CASE \E c \in Tab : Local(c) \/ Remote(c)
  BY <1>1, <1>2, <1>5
<1> QED  BY <1>3, <1>4, <1>5 DEF Next, Local, Remote

(***************************************************************************)
(* The same with the clients: however the tabs of any number of clients    *)
(* refresh, replay and sign out at once, a sign-in is one line of sessions *)
(* that never has a good session again once it has none.                   *)
(***************************************************************************)
THEOREM SpecKeepsLines == Spec => ImplementsSignIns
<1>1. Inv => ServerInv
  BY DEF Inv
<1>2. Init => ServerInit
  BY DEF Init
<1> QED
  BY <1>1, <1>2, SpecInv, NextIsServed, SignInsInit, SignInsStep, PTL
     DEF Spec, ImplementsSignIns, SignIns!Spec

(***************************************************************************)
(* A tab that the user has signed out never holds a session again before   *)
(* the user signs in: sessionRevision keeps out whatever was in flight.    *)
(***************************************************************************)
THEOREM SpecSignedOut == Spec => []SignedOutStaysOut
<1>1. Inv => SignedOutStaysOut
  BY DEF Inv, TabInv, WantedInv, SignedOutStaysOut
<1> QED  BY <1>1, SpecInv, PTL

(***************************************************************************)
(* A tab gives up an account of its own accord only when no session of     *)
(* that sign-in is live, or its own has expired.                           *)
(***************************************************************************)
THEOREM SpecGivesUp == Spec => GivesUpOnlyTheLost
<1>1. ASSUME Inv, Next, NEW c \in Tab, GivesUp(c), NEW s \in Live
      PROVE  session[s].root # session[held[c].sid].root
  <2>1. /\ flight[c].phase = "anonymous" /\ SignedIn(c) /\ held'[c].sid = NoSession
        /\ wanted'[c] /\ ~ session[held[c].sid].expired
    BY <1>1 DEF GivesUp
  <2>2. TabInv(c)
    BY <1>1 DEF Inv
  <2>3. flight[c] # NoFlight
    BY <2>1 DEF NoFlight
  <2>4. ~ flight[c].changed => Dead(held[c].sid)
    BY <2>1, <2>2, <2>3 DEF TabInv, FlightInv
  <2>5. ~ flight[c].changed
    <3>1. held[c].sid # NoSession /\ wanted'[c] /\ held'[c] # held[c]
      BY <2>1 DEF SignedIn
    <3>2. held \in [Tab -> [sid : SomeSession, fresh : BOOLEAN]] /\ wanted \in [Tab -> BOOLEAN]
      BY <1>1, TabFacts
    <3>3. ASSUME NEW d \in Tab, Local(d) \/ Remote(d)  PROVE d = c
      BY <1>1, <3>1, <3>2, <3>3, LocalMovesOne, RemoteMovesOne DEF Only
    <3>4. ~ Remote(c)
      BY <3>1, <3>2 DEF Remote, ServeRefresh, RefuseRefresh, FailRefresh, StartLogin, FailLogin,
         ExecutePassword, ExecuteDelete, ExecuteSignOut, SignUp, CommitLogin, CommitRefresh
    <3>5. Local(c)
      BY <1>1, <3>1, <3>3, <3>4 DEF Next, Local, Remote, TimePasses, clientVars
    <3>6. ~ (Stale(c) \/ StartRefresh(c) \/ TakeRefusal(c) \/ Admit(c) \/ Refuse(c) \/ AdmitSignOut(c)
             \/ TakeUnauthorised(c) \/ \E op \in Does[c] : Send(c, op))
      <4>1. held'[c].sid # held[c].sid
        BY <2>1, <3>1
      <4> QED  BY <3>2, <4>1 DEF Stale, StartRefresh, TakeRefusal, Admit, Refuse, AdmitSignOut,
                                 TakeUnauthorised, Send
    <3>7. ~ TakeRefresh(c)
      BY <2>1 DEF TakeRefresh
    <3>8. ~ (TakeLogin(c) \/ TakeDeleted(c))
      <4>1. login[c] = NoLogin
        BY <2>1, <2>2 DEF TabInv, WantedInv
      <4>2. ~ TakeLogin(c)
        BY <4>1 DEF TakeLogin, NoLogin
      <4>3. ~ TakeDeleted(c)
        BY <3>1, <3>2, <4>1 DEF TakeDeleted
      <4> QED  BY <4>2, <4>3
    <3>9. ~ \E op \in Does[c] : SignOut(c, op)
      BY <3>1, <3>2 DEF SignOut
    <3>10. ~ Reload(c)
      <4> SUFFICES ASSUME Reload(c)  PROVE FALSE
        OBVIOUS
      <4>1. stored = NoSession
        BY <2>1, <3>2 DEF Reload
      <4>2. wanted'[c] = (stored # NoSession)
        BY <3>2 DEF Reload
      <4> QED  BY <3>1, <4>1, <4>2
    <3>11. TakeAnonymous(c)
      BY <3>5, <3>6, <3>7, <3>8, <3>9, <3>10 DEF Local
    <3> QED  BY <3>1, <3>11 DEF TakeAnonymous
  <2> QED  BY <2>4, <2>5 DEF Dead
<1>2. ASSUME Inv, [Next]_vars
      PROVE  [\A c \in Tab : GivesUp(c) => \A s \in Live : session[s].root # session[held[c].sid].root]_vars
  BY <1>1, <1>2
<1> QED  BY <1>2, SpecInv, PTL DEF Spec, GivesUpOnlyTheLost
=============================================================================
