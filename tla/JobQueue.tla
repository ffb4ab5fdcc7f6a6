------------------------------- MODULE JobQueue -------------------------------
(***************************************************************************)
(* The durable job queue of crates/storage/src/jobs.rs: the table jobs and *)
(* the operations every producer and worker goes through.                  *)
(*                                                                         *)
(* A row is named by its idempotency key, which is unique in the table; a  *)
(* key with no row has a row of status "absent".  The lane of a job is its *)
(* (source, task_type, entity_key).  Calls that return an error change     *)
(* nothing, so they are not actions.                                       *)
(*                                                                         *)
(* Time.  An instant is an offset from the present, which is always 0:     *)
(* Tick moves every stored instant one unit into the past.  A call works   *)
(* with a reading now_ms taken before it waited for a connection and for   *)
(* row locks, on the clock of its own instance, so its reading is some     *)
(* now \in -MaxLag..0.  No reading tells apart instants before -MaxLag,    *)
(* and a NULL lease_expires_at_ms is tested like an expired one, so Past   *)
(* stands for all of these and the state space needs no horizon.           *)
(***************************************************************************)
EXTENDS Integers, FiniteSets

CONSTANTS
  Key,            \* idempotency keys
  Lane,           \* (source, task_type, entity_key) triples
  Source,         \* the sources of the lanes
  SourceOf,       \* [Lane -> Source]
  ScheduledLane,  \* lanes fed only through enqueue_job_if_no_active
  Request,        \* what enqueue calls ask for
  Owner,          \* lease owners
  Completion,     \* completion idempotency keys
  Category,       \* error categories fail_job is called with
  LeaseMs,        \* lease_ms values
  DelayMs,        \* delays: of a yield, a retry, and until a new job is due
  Limit,          \* lease limits
  MaxLag,         \* how far a call's clock reading lags the present
  NoRequest, NoOwner, NoCompletion, NoError

TransientCategory == {"network", "storage", "rate_limited"}
PermanentCategory == {"auth", "not_found", "invalid_payload", "parse_changed"}

ASSUME QueueAssumption ==
  /\ SourceOf \in [Lane -> Source]
  /\ ScheduledLane \subseteq Lane
  /\ Request \subseteq [lane : Lane, priority : Int, max_attempts : 1..100]
  /\ Category \subseteq TransientCategory \cup PermanentCategory
  /\ LeaseMs \subseteq Nat \ {0}
  /\ DelayMs \subseteq Nat
  /\ Limit \subseteq Nat \ {0}
  /\ MaxLag \in Nat

ASSUME NullAssumption ==
  /\ NoRequest \notin Request
  /\ NoOwner \notin Owner
  /\ NoCompletion \notin Completion
  /\ NoError \notin TransientCategory \cup PermanentCategory

VARIABLE jobs    \* the table, as a function from idempotency key to row

vars == <<jobs>>

Past == -MaxLag
Reading == Past..0

Status == {"absent", "pending", "leased", "completed", "dead"}
Active == {"pending", "leased"}
Settled == {"completed", "dead"}

Row ==
  [status : Status, req : Request \cup {NoRequest}, attempts : Nat, due : Int,
   owner : Owner \cup {NoOwner}, expires : Int,
   completion : Completion \cup {NoCompletion}, error : Category \cup {NoError}]

Absent ==
  [status |-> "absent", req |-> NoRequest, attempts |-> 0, due |-> Past,
   owner |-> NoOwner, expires |-> Past,
   completion |-> NoCompletion, error |-> NoError]

NewRow(r, due) ==
  [Absent EXCEPT !.status = "pending", !.req = r, !.due = due]

Init == jobs = [k \in Key |-> Absent]

-----------------------------------------------------------------------------
(* Tests on a row.                                                         *)

Exhausted(row) == row.attempts >= row.req.max_attempts

LeaseExpiredEarly(row, now) == row.status = "leased" /\ row.expires <= now + 1
LeaseExpired(row, now) == row.status = "leased" /\ row.expires <= now

LiveLease(row, o, now) ==
  row.status = "leased" /\ row.owner = o /\ row.expires > now

\* The row after its lease has been taken away.
Unlease(row, status) ==
  [row EXCEPT !.status = status, !.owner = NoOwner, !.expires = Past]

\* GREATEST(attempts - 1, 0): the attempt this lease consumed is given back.
RefundNothing(row) == row
Refund(row) ==
  [row EXCEPT !.attempts = IF row.attempts >= 1 THEN row.attempts - 1 ELSE 0]

HasPendingJob(lane) ==
  \E k \in Key : jobs[k].status = "pending" /\ jobs[k].req.lane = lane
HasActiveJob(lane) ==
  \E k \in Key : jobs[k].status \in Active /\ jobs[k].req.lane = lane

-----------------------------------------------------------------------------
(* Producers.                                                              *)

\* INSERT ... ON CONFLICT(idempotency_key) DO NOTHING.  When the key has a
\* row the call returns its id or a conflict and changes nothing.
EnqueueJob(k, r, due) ==
  /\ jobs[k].status = "absent"
  /\ jobs' = [jobs EXCEPT ![k] = NewRow(r, due)]

EnqueueJobIfNoActive(k, r, due) ==
  /\ ~HasActiveJob(r.lane)
  /\ EnqueueJob(k, r, due)

-----------------------------------------------------------------------------
(* Workers.                                                                *)

\* The two UPDATEs at the head of lease_jobs: an expired lease goes back to
\* the queue, or dies with its last attempt; so does an exhausted pending row.
RecycledForever(now) ==
  [k \in Key |->
    IF LeaseExpired(jobs[k], now) THEN Unlease(jobs[k], "pending") ELSE jobs[k]]
Recycled(now) ==
  [k \in Key |->
    LET row == jobs[k] IN
    IF LeaseExpired(row, now) \/ row.status = "pending"
    THEN IF Exhausted(row) THEN Unlease(row, "dead")
         ELSE IF row.status = "leased" THEN Unlease(row, "pending") ELSE row
    ELSE row]

\* The SELECT ... FOR UPDATE: pending, attempts left, due, and of a wanted source.
Claimable(table, wanted, now) ==
  {k \in Key : /\ table[k].status = "pending"
               /\ ~Exhausted(table[k])
               /\ table[k].due <= now
               /\ SourceOf[table[k].req.lane] \in wanted}

\* ORDER BY priority, due_at_ms; rows it does not order are left in any order.
Precedes(r1, r2) ==
  \/ r1.req.priority < r2.req.priority
  \/ r1.req.priority = r2.req.priority /\ r1.due < r2.due

\* What the SELECT may return: LIMIT n rows of C, none overtaken by a later one.
Batches(table, C, n) ==
  {S \in SUBSET C :
    /\ Cardinality(S) = IF Cardinality(C) < n THEN Cardinality(C) ELSE n
    /\ \A a \in S : \A b \in C \ S : ~Precedes(table[b], table[a])}

Leased(row, o, expires) ==
  [row EXCEPT !.status = "leased", !.owner = o, !.expires = expires,
              !.attempts = row.attempts + 1]

\* One transaction.  Rows of concurrent claims are locked and skipped; rows
\* this transaction has just recycled are its own and cannot be.
LeaseJobs(o, wanted, n, lease, now, locked) ==
  LET table == Recycled(now)
      free == Claimable(table, wanted, now) \ {k \in locked : table[k] = jobs[k]}
  IN  \E S \in Batches(table, free, n) :
        jobs' = [k \in Key |->
                  IF k \in S THEN Leased(table[k], o, now + lease) ELSE table[k]]

\* Called by the operator's tool, not by the scheduled workers.
RecoverLeasedJobs(wanted, now) ==
  jobs' = [k \in Key |->
            IF LeaseExpired(jobs[k], now) /\ SourceOf[jobs[k].req.lane] \in wanted
            THEN Unlease(Refund(jobs[k]), "pending") ELSE jobs[k]]

Yielded(row, due) == [Unlease(Refund(row), "pending") EXCEPT !.due = due]

YieldJob(k, o, delay, now) ==
  /\ LiveLease(jobs[k], o, now)
  /\ jobs' = [jobs EXCEPT ![k] = Yielded(@, now + delay)]

CompletedByOwner(row, c) ==
  [Unlease(row, "completed") EXCEPT !.completion = row.owner]
Completed(row, c) == [Unlease(row, "completed") EXCEPT !.completion = c]

CompleteAgain(k, o, c, now) ==
  /\ LiveLease(jobs[k], o, now) \/ jobs[k].status = "completed"
  /\ jobs' = [jobs EXCEPT ![k] = Completed(@, c)]
\* A replay on a completed row changes nothing: it answers Ok when the key
\* is the recorded one and a conflict otherwise.
CompleteJob(k, o, c, now) ==
  /\ LiveLease(jobs[k], o, now)
  /\ jobs' = [jobs EXCEPT ![k] = Completed(@, c)]

AlwaysFatal(row, cat) == TRUE
\* Whether a failure of this category ends the job.
FatalFailure(row, cat) == cat \in PermanentCategory \/ Exhausted(row)

Buried(row, cat) == [Unlease(row, "dead") EXCEPT !.error = cat]
Retried(row, cat, due) == [Unlease(row, "pending") EXCEPT !.error = cat, !.due = due]

FailJob(k, o, cat, delay, now) ==
  /\ LiveLease(jobs[k], o, now)
  /\ jobs' = [jobs EXCEPT ![k] =
       IF FatalFailure(@, cat) THEN Buried(@, cat) ELSE Retried(@, cat, now + delay)]

-----------------------------------------------------------------------------
(* The clock, and the specification.                                       *)

Older(t) == IF t > Past THEN t - 1 ELSE Past

Aged(row) == [row EXCEPT !.due = Older(row.due), !.expires = Older(row.expires)]

Tick == jobs' = [k \in Key |-> Aged(jobs[k])]

Wanted == {Source} \cup {{s} : s \in Source}

Produce ==
  \E k \in Key, r \in Request, delay \in DelayMs :
    \/ r.lane \notin ScheduledLane /\ EnqueueJob(k, r, delay)
    \/ EnqueueJobIfNoActive(k, r, delay)

Poll ==
  \E o \in Owner, wanted \in Wanted, n \in Limit, lease \in LeaseMs,
     now \in Reading, locked \in SUBSET Key :
    LeaseJobs(o, wanted, n, lease, now, locked)

Recover == \E wanted \in Wanted, now \in Reading : RecoverLeasedJobs(wanted, now)

Yield ==
  \E k \in Key, o \in Owner, delay \in DelayMs, now \in Reading :
    YieldJob(k, o, delay, now)

Finish ==
  \E k \in Key, o \in Owner, now \in Reading :
    \/ \E c \in Completion : CompleteJob(k, o, c, now)
    \/ \E cat \in Category, delay \in DelayMs \ {0} : FailJob(k, o, cat, delay, now)

Next == Produce \/ Poll \/ Recover \/ Yield \/ Finish \/ Tick

Spec == Init /\ [][Next]_vars

\* Workers are invoked on a schedule, and row locks last no longer than a
\* transaction: every source keeps being polled by a call that reads the
\* present and meets no locked row.  Nothing is assumed of a worker once it
\* holds a lease: it may finish, yield or vanish.
PollSource(s) ==
  \E o \in Owner, n \in Limit, lease \in LeaseMs :
    LeaseJobs(o, {s}, n, lease, 0, {})

FairSpec == Spec /\ WF_vars(Tick) /\ \A s \in Source : WF_vars(PollSource(s))

-----------------------------------------------------------------------------
(* Correctness.                                                            *)

\* The table holds rows of the declared shape (schema and JobRecord).
TypeOK == jobs \in [Key -> Row]

\* Claims, refunds, failures and recoveries keep the attempt counter exact: a
\* leased row has paid for its lease within its budget, a pending row can
\* still pay for one (so the "repair" UPDATE of lease_jobs never fires), and a
\* job is dead only when its budget is spent or its error is permanent.
AttemptsAccounted ==
  \A k \in Key : LET row == jobs[k] IN
    /\ row.status = "leased" => row.attempts \in 1..row.req.max_attempts
    /\ row.status = "pending" => ~Exhausted(row)
    /\ row.status = "dead" => Exhausted(row) \/ row.error \in PermanentCategory

\* A slow or crashed worker never lets a second job of a scheduled lane
\* accumulate behind the first (the comment on has_active_job).
OneActivePerLane ==
  \A j, k \in Key :
    /\ jobs[j].status \in Active
    /\ jobs[k].status \in Active
    /\ jobs[j].req.lane = jobs[k].req.lane
    /\ jobs[j].req.lane \in ScheduledLane
    => j = k

\* Until a lease runs out on the fastest clock, only its owner moves the job:
\* no claim, recovery or finishing call of another worker ends or renews it,
\* however old the clock reading of that call.
OwnerEnds(k) ==
  \E now \in Reading :
    \/ \E delay \in DelayMs : YieldJob(k, jobs[k].owner, delay, now)
    \/ \E c \in Completion : CompleteJob(k, jobs[k].owner, c, now)
    \/ \E cat \in Category, delay \in DelayMs \ {0} :
         FailJob(k, jobs[k].owner, cat, delay, now)

OnlyItsOwnerEndsALiveLease ==
  [][\A k \in Key :
       jobs[k].status = "leased" /\ jobs[k].expires > 0 =>
         \/ /\ jobs'[k].status = "leased"
            /\ jobs'[k].owner = jobs[k].owner
            /\ jobs'[k].attempts = jobs[k].attempts
         \/ OwnerEnds(k)]_vars

\* A job leaves the queue once: its outcome, its completion key and its
\* attempt count are never rewritten by a late, replayed or racing call.
Outcome(row) ==
  <<row.status, row.req, row.attempts, row.owner, row.completion, row.error>>

SettledIsFinal ==
  [][\A k \in Key :
       jobs[k].status \in Settled => Outcome(jobs'[k]) = Outcome(jobs[k])]_vars

\* "An expired final attempt must become dead instead of being recycled
\* forever": even if every worker vanishes with every lease, each job settles,
\* provided refunds (yields, operator recoveries) stop.
CrashLoopsEnd ==
  <>[][~(Yield \/ Recover)]_vars =>
    \A k \in Key : jobs[k].status \in Active ~> jobs[k].status \in Settled

\* The queue implements the promise it makes to its clients.
PhaseOf(row) ==
  CASE row.status = "absent" -> "absent"
    [] row.status = "pending" -> "waiting"
    [] row.status = "leased" -> "running"
    [] row.status = "completed" -> "done"
    [] row.status = "dead" -> "dead"

\* Attempts already decided: the attempt of a running job still may be
\* refunded.
ChargedOf(row) == IF row.status = "leased" THEN row.attempts - 1 ELSE row.attempts
BudgetOf(row) == IF row.status = "absent" THEN 0 ELSE row.req.max_attempts

Lifecycle ==
  INSTANCE JobLifecycle WITH
    phase <- [k \in Key |-> PhaseOf(jobs[k])],
    runner <- [k \in Key |-> jobs[k].owner],
    charged <- [k \in Key |-> ChargedOf(jobs[k])],
    budget <- [k \in Key |-> BudgetOf(jobs[k])],
    doomed <- [k \in Key |-> jobs[k].error \in PermanentCategory]

ImplementsLifecycle == Lifecycle!Spec
=============================================================================
