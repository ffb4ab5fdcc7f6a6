----------------------------- MODULE MCWebSession -----------------------------
(***************************************************************************)
(* Small instances of WebSession: two tabs, of which the second, or other  *)
(* device, only signs in, refreshes and reloads; and one tab that reads,   *)
(* or that signs out everywhere.                                           *)
(***************************************************************************)
EXTENDS WebSession, TLC

CONSTANTS c1, c2, s1, s2, s3

MCTab == {c1, c2}
TwoSessions == {s1, s2}
ThreeSessions == {s1, s2, s3}

OneBusyTab == (c1 :> Op) @@ (c2 :> {})
OneTab == {c1}
OneReader == c1 :> {"read"}
OneLeaver == c1 :> {"logout_all"}

Symmetry == Permutations(TwoSessions)
=============================================================================
