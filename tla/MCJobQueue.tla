------------------------------ MODULE MCJobQueue ------------------------------
(***************************************************************************)
(* A small instance of JobQueue: a scheduled lane and a free one, of two   *)
(* sources; jobs that die with their first failed attempt and jobs that    *)
(* get a second.                                                           *)
(***************************************************************************)
EXTENDS JobQueue, TLC

CONSTANTS k1, k2, o1, o2, scheduled, cleanup, steam, avatar

MCKey == {k1, k2}
MCOwner == {o1, o2}
MCLane == {scheduled, cleanup}
MCSource == {steam, avatar}
MCSourceOf == scheduled :> steam @@ cleanup :> avatar
MCScheduledLane == {scheduled}
MCRequest == {[lane |-> scheduled, priority |-> 1, max_attempts |-> 1],
              [lane |-> scheduled, priority |-> 1, max_attempts |-> 2],
              [lane |-> cleanup, priority |-> 2, max_attempts |-> 2]}
MCCompletion == {"first", "second"}
MCCategory == {"network", "not_found"}
=============================================================================
