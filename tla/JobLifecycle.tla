----------------------------- MODULE JobLifecycle -----------------------------
(***************************************************************************)
(* What the durable job queue promises its clients, with no clock, no      *)
(* priorities and no table: each job is run by at most one runner at a     *)
(* time, a run that fails or is abandoned is charged against the job's     *)
(* budget, a run that yields is not, and a job leaves the queue exactly    *)
(* once, done or dead, never dead without a cause.                         *)
(*                                                                         *)
(* JobQueue implements this specification (JobQueue!Lifecycle).            *)
(***************************************************************************)
EXTENDS Integers

CONSTANTS
  Key,      \* the jobs, by idempotency key
  Owner,    \* who can run them
  NoOwner

VARIABLES
  phase,    \* phase[k]: where job k is
  runner,   \* runner[k]: who runs job k
  charged,  \* charged[k]: runs of k that ended in success, failure or a crash
  budget,   \* budget[k]: how many such runs k may have
  doomed    \* doomed[k]: a run reported an error no retry can cure

vars == <<phase, runner, charged, budget, doomed>>

Phase == {"absent", "waiting", "running", "done", "dead"}

TypeOK ==
  /\ phase \in [Key -> Phase]
  /\ runner \in [Key -> Owner \cup {NoOwner}]
  /\ charged \in [Key -> Nat]
  /\ budget \in [Key -> Nat]
  /\ doomed \in [Key -> BOOLEAN]

Init ==
  /\ phase = [k \in Key |-> "absent"]
  /\ runner = [k \in Key |-> NoOwner]
  /\ charged = [k \in Key |-> 0]
  /\ budget = [k \in Key |-> 0]
  /\ doomed = [k \in Key |-> FALSE]

-----------------------------------------------------------------------------
(* What one step may do to one job.                                        *)

Same(k) ==
  /\ phase'[k] = phase[k]
  /\ runner'[k] = runner[k]
  /\ charged'[k] = charged[k]
  /\ budget'[k] = budget[k]
  /\ doomed'[k] = doomed[k]

Submit(k) ==
  /\ phase[k] = "absent"
  /\ phase'[k] = "waiting"
  /\ budget'[k] > 0
  /\ charged'[k] = 0
  /\ runner'[k] = NoOwner
  /\ doomed'[k] = FALSE

Grant(k) ==
  /\ phase[k] = "waiting"
  /\ charged[k] < budget[k]
  /\ phase'[k] = "running"
  /\ runner'[k] \in Owner
  /\ UNCHANGED <<charged[k], budget[k], doomed[k]>>

\* The run ends without counting: the runner yielded, or an operator
\* recovered the job after the runner's lease ran out.
Refund(k) ==
  /\ phase[k] = "running"
  /\ phase'[k] = "waiting"
  /\ runner'[k] = NoOwner
  /\ UNCHANGED <<charged[k], budget[k], doomed[k]>>

\* The run counts, and another is allowed: it failed, or its runner crashed.
Retry(k) ==
  /\ phase[k] = "running"
  /\ charged[k] + 1 < budget[k]
  /\ phase'[k] = "waiting"
  /\ runner'[k] = NoOwner
  /\ charged'[k] = charged[k] + 1
  /\ UNCHANGED <<budget[k], doomed[k]>>

\* The same, and the job is handed to its next runner in the same step.
TakeOver(k) ==
  /\ phase[k] = "running"
  /\ charged[k] + 1 < budget[k]
  /\ phase'[k] = "running"
  /\ runner'[k] \in Owner
  /\ charged'[k] = charged[k] + 1
  /\ UNCHANGED <<budget[k], doomed[k]>>

\* The run counts and it was the last: the budget is spent or the error is
\* permanent.
Bury(k) ==
  /\ phase[k] = "running"
  /\ phase'[k] = "dead"
  /\ runner'[k] = NoOwner
  /\ charged'[k] = charged[k] + 1
  /\ doomed'[k] \/ charged'[k] = budget[k]
  /\ budget'[k] = budget[k]

Succeed(k) ==
  /\ phase[k] = "running"
  /\ phase'[k] = "done"
  /\ runner'[k] = NoOwner
  /\ charged'[k] = charged[k] + 1
  /\ UNCHANGED <<budget[k], doomed[k]>>

JobStep(k) ==
  \/ Same(k)
  \/ Submit(k)
  \/ Grant(k)
  \/ Refund(k)
  \/ Retry(k)
  \/ TakeOver(k)
  \/ Bury(k)
  \/ Succeed(k)

\* A step may touch several jobs, as one poll of the queue does.
Next ==
  /\ \A k \in Key : JobStep(k)
  /\ phase' \in [Key -> Phase]
  /\ runner' \in [Key -> Owner \cup {NoOwner}]
  /\ charged' \in [Key -> Nat]
  /\ budget' \in [Key -> Nat]
  /\ doomed' \in [Key -> BOOLEAN]

Spec == Init /\ [][Next]_vars
=============================================================================
