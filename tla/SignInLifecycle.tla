---------------------------- MODULE SignInLifecycle ----------------------------
(***************************************************************************)
(* What the sessions of an account promise, with no transaction, token or  *)
(* expiry: each sign-in opens a line of sessions, one good at a time, each *)
(* each handed on once to one that was never issued before; a line with    *)
(* no good session left has none again.  Nothing here says when a line     *)
(* must end.                                                               *)
(*                                                                         *)
(* AccountSessions implements this specification (ImplementsSignIns).      *)
(***************************************************************************)

CONSTANT Session

VARIABLES
  issued,   \* the sessions there have been
  good      \* by the session its line began with: the line's good session, if any

lines == <<issued, good>>

Init ==
  /\ issued = {}
  /\ good = [r \in Session |-> {}]

SignIn(n) ==
  /\ n \notin issued
  /\ issued' = issued \cup {n}
  /\ good' = [good EXCEPT ![n] = {n}]

HandOn(r, n) ==
  /\ good[r] # {}
  /\ n \notin issued
  /\ issued' = issued \cup {n}
  /\ good' = [good EXCEPT ![r] = {n}]

\* One line ends, or several at once.
End(S) ==
  /\ good' = [r \in Session |-> IF r \in S THEN {} ELSE good[r]]
  /\ UNCHANGED issued

Next ==
  \/ \E n \in Session : SignIn(n) \/ \E r \in Session : HandOn(r, n)
  \/ \E S \in SUBSET Session : End(S)

Spec == Init /\ [][Next]_lines
=============================================================================
