----------------------------- MODULE MCWorkerBatch -----------------------------
(***************************************************************************)
(* A small instance of WorkerBatch: two invocations, a Steam lane, and     *)
(* retrieval_sync, which times itself.  Steam asks for a rest longer than  *)
(* the lease of a job, so that the job of an invocation that dies can be   *)
(* claimed again while the cooldown lasts.                                 *)
(***************************************************************************)
EXTENDS WorkerBatch, TLC

CONSTANTS b1, b2, enrich, retrieval

MCInvocation == {b1, b2}
MCLane == {enrich, retrieval}
MCSourceOf == enrich :> "steam" @@ retrieval :> "maintenance"
MCSelfTimed == {retrieval}
MCInterval == enrich :> 2 @@ retrieval :> 1
=============================================================================
