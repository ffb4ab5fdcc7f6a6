----------------------------- MODULE GameIngestion -----------------------------
(***************************************************************************)
(* The staged ingestion queue of crates/storage/src/game_ingestion.rs: a   *)
(* row per discovered app, claimed by workers under a lease, moved from    *)
(* stage to stage, retried, buried and revived; and the lane that a bad    *)
(* key or configuration pauses as a whole.                                 *)
(*                                                                         *)
(* Every call but recover_leases holds the schema's write lock for its     *)
(* transaction, so calls are atomic; each works with a clock reading it    *)
(* took before it waited for that lock.  Instants are offsets from the     *)
(* present, as in JobQueue, and no reading lags more than MaxLag.          *)
(* Statistics (lease_count, total_failure_attempts, the audit rows) and    *)
(* the profile full_override, which nothing in the code assigns, are left  *)
(* out; priority is left out because every row has priority 0.             *)
(***************************************************************************)
EXTENDS Integers, FiniteSets

CONSTANTS
  App,                 \* apps of the catalogue
  Demo,                \* those whose app_type is demo or playtest
  Owner,               \* worker invocations
  DeterministicLimit,  \* failures a stage survives: of a kind that will repeat
  TransientLimit,      \* and of any other kind
  LeaseMs, DelayMs, Limit, MaxLag,   \* as in JobQueue
  NoOwner, NoError

Deterministic == {"invalid_payload", "parse_changed", "response_too_large", "not_found"}
Transient == {"network", "storage", "rate_limited"}
Global == {"auth", "config"}

CONSTANT Category      \* the categories failures are reported with

ASSUME IngestionAssumption ==
  /\ Demo \subseteq App
  /\ Category \subseteq Deterministic \cup Transient \cup Global
  /\ DeterministicLimit \in Nat \ {0}
  /\ TransientLimit \in Nat \ {0}
  /\ LeaseMs \subseteq Nat \ {0}
  /\ DelayMs \subseteq Nat
  /\ Limit \subseteq Nat \ {0}
  /\ MaxLag \in Nat
  /\ NoOwner \notin Owner
  /\ NoError \notin Deterministic \cup Transient \cup Global

VARIABLES
  tasks,        \* game_ingestion_queue, a row per app
  pausedUntil,  \* pause_until_ms of the lane
  released      \* the apps whose release_state is 'released' (table apps)

vars == <<tasks, pausedUntil, released>>

Past == -MaxLag
Reading == Past..0

Stage == {"store_details", "review_summary", "popular_reviews", "ccu", "complete"}
Open == {"pending", "retry"}
Status == Open \cup {"absent", "complete", "dead"}
Basic == {"basic_demo", "basic_upcoming"}
Profile == Basic \cup {"full_released"}

Row ==
  [status : Status, stage : Stage, profile : Profile, fails : Nat, due : Int,
   owner : Owner \cup {NoOwner}, expires : Int, error : Category \cup {NoError}]

\* An app that is not released is announced, or its release_state is unknown or
\* retired: then it gets the full profile too.
ProfilesOf(a) ==
  CASE a \in Demo -> {"basic_demo"}
    [] a \notin Demo /\ a \notin released -> {"basic_upcoming", "full_released"}
    [] OTHER -> {"full_released"}

Absent ==
  [status |-> "absent", stage |-> "store_details", profile |-> "full_released",
   fails |-> 0, due |-> Past, owner |-> NoOwner, expires |-> Past, error |-> NoError]

Init ==
  /\ tasks = [a \in App |-> Absent]
  /\ pausedUntil = Past
  /\ released \in SUBSET App

-----------------------------------------------------------------------------
(* Tests on a row.                                                         *)

LimitOf(category) ==
  IF category \in Deterministic THEN DeterministicLimit ELSE TransientLimit

\* A stored lease is live for a caller whose clock reads now.  A NULL
\* expiry is tested like an expired one.
LiveLease(row, o, now) == row.owner = o /\ row.expires > now

Unlease(row) == [row EXCEPT !.owner = NoOwner, !.expires = Past]

\* release_state is read again here: an upcoming game that has been released
\* meanwhile goes on with the full profile.
CurrentProfile(a) ==
  IF tasks[a].profile = "basic_upcoming" /\ a \in released
  THEN "full_released" ELSE tasks[a].profile

NextStageDone(stage, profile) ==
  IF stage = "ccu" THEN "done" ELSE "ccu"
NextStage(stage, profile) ==
  CASE profile \in Basic -> "complete"
    [] profile \notin Basic /\ stage = "store_details" -> "review_summary"
    [] profile \notin Basic /\ stage = "review_summary" -> "popular_reviews"
    [] profile \notin Basic /\ stage = "popular_reviews" -> "ccu"
    [] OTHER -> "complete"

-----------------------------------------------------------------------------
(* Operations.                                                             *)

\* INSERT ... ON CONFLICT(app_id) DO NOTHING.
QueueNewApp(a, now) ==
  /\ tasks[a].status = "absent"
  /\ \E profile \in ProfilesOf(a) :
       tasks' = [tasks EXCEPT ![a] =
         [Absent EXCEPT !.status = "pending", !.profile = profile, !.due = now]]
  /\ UNCHANGED <<pausedUntil, released>>

\* The operator's tool clears leases that have expired.
RecoverLeases(now) ==
  /\ tasks' = [a \in App |->
       IF tasks[a].expires <= now THEN Unlease(tasks[a]) ELSE tasks[a]]
  /\ UNCHANGED <<pausedUntil, released>>

ClaimableHeld(now) ==
  {a \in App : tasks[a].status \in Open /\ tasks[a].due <= now}
Claimable(now) ==
  {a \in App : /\ tasks[a].status \in Open
               /\ tasks[a].due <= now
               /\ tasks[a].expires <= now}

\* ORDER BY next_attempt_at_ms LIMIT n; equals in any order.
Batches(C, n) ==
  {S \in SUBSET C :
    /\ Cardinality(S) = IF Cardinality(C) < n THEN Cardinality(C) ELSE n
    /\ \A a \in S : \A b \in C \ S : tasks[a].due <= tasks[b].due}

LanePaused(now) == pausedUntil > now

\* recover_leases, outside the write lock, may hold rows: they are skipped.
ClaimTasks(o, n, lease, now, locked) ==
  /\ ~LanePaused(now)
  /\ \E S \in Batches(Claimable(now) \ locked, n) :
       tasks' = [a \in App |->
         IF a \in S THEN [tasks[a] EXCEPT !.owner = o, !.expires = now + lease]
         ELSE tasks[a]]
  /\ UNCHANGED <<pausedUntil, released>>

\* Give a task back without counting a failure.
DeferIngestionJob(a, o, delay, now) ==
  /\ tasks[a].status \in Open
  /\ LiveLease(tasks[a], o, now)
  /\ tasks' = [tasks EXCEPT ![a] = [Unlease(@) EXCEPT !.due = now + delay]]
  /\ UNCHANGED <<pausedUntil, released>>

Advanced(row, stage, profile, now) ==
  LET next == [row EXCEPT !.stage = stage, !.profile = profile, !.fails = 0,
                          !.due = now, !.error = NoError, !.status = "pending"]
  IN  IF stage = "complete" THEN [Unlease(next) EXCEPT !.status = "complete"] ELSE next

\* The lease is kept between the stages of a task.
AdvanceStage(a, o, now) ==
  /\ LiveLease(tasks[a], o, now)
  /\ tasks[a].stage # "complete"
  /\ tasks' = [tasks EXCEPT ![a] =
       Advanced(@, NextStage(@.stage, CurrentProfile(a)), CurrentProfile(a), now)]
  /\ UNCHANGED <<pausedUntil, released>>

\* A stage dies with the first failure that reaches the limit of its own
\* category, whatever the categories of the failures before it.
FailsOneLate(row, category) == row.fails > LimitOf(category)
Fatal(row, category) == row.fails + 1 >= LimitOf(category)

FailedHeld(row, category, due) ==
  [row EXCEPT !.status = IF Fatal(row, category) THEN "dead" ELSE "retry",
              !.fails = @ + 1, !.due = due, !.error = category]
Failed(row, category, due) ==
  [Unlease(row) EXCEPT
     !.status = IF Fatal(row, category) THEN "dead" ELSE "retry",
     !.fails = @ + 1, !.due = due, !.error = category]

RetryStage(a, o, category, delay, now) ==
  /\ category \notin Global
  /\ LiveLease(tasks[a], o, now)
  /\ tasks' = [tasks EXCEPT ![a] =
       Failed(@, category, IF Fatal(@, category) THEN now ELSE now + delay)]
  /\ UNCHANGED <<pausedUntil, released>>

\* GREATEST(pause_until_ms, excluded.pause_until_ms).
LastPause(until) == until
LongestPause(until) == IF pausedUntil > until THEN pausedUntil ELSE until

\* A bad key or configuration is nobody's failure: the lane waits, and every
\* task under the caller's name, its lease live or not, is given back.
PauseLane(o, category, delay, now) ==
  /\ category \in Global
  /\ pausedUntil' = LongestPause(now + delay)
  /\ tasks' = [a \in App |->
       IF tasks[a].owner = o
       THEN [Unlease(tasks[a]) EXCEPT
               !.status = "retry", !.due = pausedUntil', !.error = category]
       ELSE tasks[a]]
  /\ UNCHANGED released

RequeuedFromStart(row, now) ==
  [Unlease(row) EXCEPT !.status = "pending", !.stage = "store_details", !.fails = 0,
                       !.due = now, !.error = NoError]
Requeued(row, now) ==
  [Unlease(row) EXCEPT !.status = "pending", !.fails = 0, !.due = now, !.error = NoError]

\* On a row that is not dead the call changes nothing, so a command given
\* twice revives once.
RequeueDeadTask(a, now) ==
  /\ tasks[a].status = "dead"
  /\ tasks' = [tasks EXCEPT ![a] = Requeued(@, now)]
  /\ UNCHANGED <<pausedUntil, released>>

-----------------------------------------------------------------------------
(* The rest of the system, the clock, and the specification.               *)

\* Store details change an app's release state, whoever has asked for them.
ChangeRelease(a) ==
  /\ released' = IF a \in released THEN released \ {a} ELSE released \cup {a}
  /\ UNCHANGED <<tasks, pausedUntil>>

Older(t) == IF t > Past THEN t - 1 ELSE Past

Tick ==
  /\ tasks' = [a \in App |-> [tasks[a] EXCEPT !.due = Older(@), !.expires = Older(@)]]
  /\ pausedUntil' = Older(pausedUntil)
  /\ UNCHANGED released

Claim ==
  \E o \in Owner, n \in Limit, lease \in LeaseMs, now \in Reading :
    \E locked \in SUBSET {a \in App : tasks[a].owner # NoOwner} :
      ClaimTasks(o, n, lease, now, locked)

Work ==
  \E a \in App, o \in Owner, now \in Reading :
    \/ AdvanceStage(a, o, now)
    \/ \E delay \in DelayMs : DeferIngestionJob(a, o, delay, now)
    \/ \E category \in Category, delay \in DelayMs \ {0} :
         RetryStage(a, o, category, delay, now)

Pause ==
  \E o \in Owner, category \in Category, delay \in DelayMs \ {0}, now \in Reading :
    PauseLane(o, category, delay, now)

Operate ==
  \E now \in Reading :
    \/ RecoverLeases(now)
    \/ \E a \in App : QueueNewApp(a, now) \/ RequeueDeadTask(a, now)

Next == Claim \/ Work \/ Pause \/ Operate \/ (\E a \in App : ChangeRelease(a)) \/ Tick

Spec == Init /\ [][Next]_vars

-----------------------------------------------------------------------------
(* Correctness.                                                            *)

TypeOK ==
  /\ tasks \in [App -> Row]
  /\ pausedUntil \in Int
  /\ released \subseteq App

\* Only open tasks are held.  pause_lane rewrites the status of every row
\* under its owner's name, so a complete or dead row that kept an owner would
\* come back to life.
OnlyOpenTasksAreHeld ==
  \A a \in App : tasks[a].owner # NoOwner => tasks[a].status \in Open

\* Failures are charged to the stage they happened in and judged by their own
\* category: a task that may be claimed has failures left of the kind it saw
\* last, a dead one has none, and a pause kills nothing.
FailuresAccounted ==
  \A a \in App : LET row == tasks[a] IN
    /\ row.status \in Open /\ row.error \in Deterministic \cup Transient =>
         row.fails < LimitOf(row.error)
    /\ row.status = "dead" => row.error \notin Global /\ row.fails >= LimitOf(row.error)
    /\ row.status = "complete" => row.fails = 0

\* A paused lane hands nothing out, whatever the caller's clock: while the
\* pause lasts nobody takes a task or extends a lease, and no later, shorter
\* pause cuts it: only time wears it down.
PauseHolds ==
  [][pausedUntil > 0 =>
       /\ pausedUntil' >= pausedUntil \/ Tick
       /\ \A a \in App :
            /\ tasks'[a].owner \in {tasks[a].owner, NoOwner}
            /\ tasks'[a].expires <= tasks[a].expires]_vars

\* The queue implements the promise it makes for each app.
PassedOf(stage) ==
  CASE stage = "store_details" -> 0
    [] stage = "review_summary" -> 1
    [] stage = "popular_reviews" -> 2
    [] stage = "ccu" -> 3
    [] stage = "complete" -> 4

Pipeline ==
  INSTANCE IngestionPipeline WITH
    phase <- [a \in App |->
                IF tasks[a].status \in Open THEN "open" ELSE tasks[a].status],
    passed <- [a \in App |-> PassedOf(tasks[a].stage)],
    holder <- [a \in App |-> tasks[a].owner]

ImplementsPipeline == Pipeline!Spec

\* Until a lease runs out on the fastest clock, the task is moved only by a
\* call of its owner: nobody takes it over, advances, fails or revives it.
OwnerMoves(a) ==
  \E now \in Reading :
    LET o == tasks[a].owner IN
    \/ AdvanceStage(a, o, now)
    \/ \E delay \in DelayMs : DeferIngestionJob(a, o, delay, now)
    \/ \E category \in Category, delay \in DelayMs \ {0} :
         RetryStage(a, o, category, delay, now) \/ PauseLane(o, category, delay, now)

OnlyItsOwnerMovesALeasedTask ==
  [][\A a \in App :
       tasks[a].owner # NoOwner /\ tasks[a].expires > 0 =>
         \/ /\ tasks'[a].owner = tasks[a].owner
            /\ <<tasks'[a].stage, tasks'[a].status, tasks'[a].fails>> =
                 <<tasks[a].stage, tasks[a].status, tasks[a].fails>>
         \/ OwnerMoves(a)]_vars
=============================================================================
