---------------------------- MODULE JobQueueProofs ----------------------------
(***************************************************************************)
(* Proofs about JobQueue for every set of keys, owners, lanes, delays and  *)
(* clock lags.  Every operation rewrites rows one at a time, so the        *)
(* invariant is a predicate on rows (RowInv), and the lemmas say what each *)
(* way of rewriting a row does to it.                                      *)
(***************************************************************************)
EXTENDS JobQueue, TLAPS

\* A row no sequence of operations can spoil: the attempt counter is exact
\* (AttemptsAccounted), only leased rows have an owner, and a job still in the
\* queue carries no permanent error.
RowInv(row) ==
  /\ row \in Row
  /\ row.status # "absent" => row.req \in Request
  /\ row.status = "leased" => row.owner \in Owner /\ row.attempts \in 1..row.req.max_attempts
  /\ row.status # "leased" => row.owner = NoOwner
  /\ row.status = "pending" => ~Exhausted(row)
  /\ row.status = "dead" => Exhausted(row) \/ row.error \in PermanentCategory
  /\ row.status \in Active \cup {"absent"} => row.error \notin PermanentCategory

Inv ==
  /\ jobs \in [Key -> Row]
  /\ \A k \in Key : RowInv(jobs[k])

-----------------------------------------------------------------------------
(* Rewriting one row.                                                      *)

\* Every clock reading lies between -MaxLag and the present.
LEMMA PastIsInt == Past \in Int /\ Reading \subseteq Int /\ \A now \in Reading : now <= 0
  BY QueueAssumption DEF Past, Reading

\* An enqueue request names a lane and allows at least one attempt.
LEMMA RequestFields ==
  ASSUME NEW r \in Request
  PROVE  /\ r.lane \in Lane
         /\ r.priority \in Int
         /\ r.max_attempts \in Nat
         /\ r.max_attempts >= 1
  BY QueueAssumption

\* The row inserted by enqueue_job satisfies the row invariant.
LEMMA NewRowInv ==
  ASSUME NEW r \in Request, NEW due \in Int
  PROVE  RowInv(NewRow(r, due))
<1> DEFINE row == NewRow(r, due)
<1>1. /\ row.status = "pending"
      /\ row.req = r
      /\ row.attempts = 0
      /\ row.owner = NoOwner
      /\ row.error = NoError
  BY DEF NewRow, Absent
<1>2. row \in Row
  BY PastIsInt DEF Row, NewRow, Absent, Status
<1>3. ~Exhausted(row)
  BY <1>1, RequestFields DEF Exhausted
<1>. QED
  BY <1>1, <1>2, <1>3, NullAssumption DEF RowInv

(* The fields of a rewritten row.                                          *)

\* The columns of a row of the table, one by one.
LEMMA RowFields ==
  ASSUME NEW row \in Row
  PROVE  /\ row.status \in Status
         /\ row.req \in Request \cup {NoRequest}
         /\ row.attempts \in Nat
         /\ row.due \in Int
         /\ row.owner \in Owner \cup {NoOwner}
         /\ row.expires \in Int
         /\ row.completion \in Completion \cup {NoCompletion}
         /\ row.error \in Category \cup {NoError}
  BY DEF Row

\* Taking a lease away keeps the request, the attempts and the outcome.
LEMMA UnleaseFields ==
  ASSUME NEW row \in Row, NEW status \in Status
  PROVE  /\ Unlease(row, status) \in Row
         /\ Unlease(row, status).status = status
         /\ Unlease(row, status).owner = NoOwner
         /\ Unlease(row, status).expires = Past
         /\ Unlease(row, status).req = row.req
         /\ Unlease(row, status).attempts = row.attempts
         /\ Unlease(row, status).completion = row.completion
         /\ Unlease(row, status).error = row.error
  BY PastIsInt DEF Row, Unlease

\* A refund touches attempts only.
LEMMA RefundFields ==
  ASSUME NEW row \in Row
  PROVE  /\ Refund(row) \in Row
         /\ Refund(row).status = row.status
         /\ Refund(row).req = row.req
         /\ Refund(row).attempts = IF row.attempts >= 1 THEN row.attempts - 1 ELSE 0
         /\ Refund(row).completion = row.completion
         /\ Refund(row).error = row.error
  BY DEF Row, Refund

\* Granting a lease consumes one attempt and keeps the request.
LEMMA LeasedFields ==
  ASSUME NEW row \in Row, NEW o \in Owner, NEW expires \in Int
  PROVE  /\ Leased(row, o, expires) \in Row
         /\ Leased(row, o, expires).status = "leased"
         /\ Leased(row, o, expires).owner = o
         /\ Leased(row, o, expires).expires = expires
         /\ Leased(row, o, expires).req = row.req
         /\ Leased(row, o, expires).attempts = row.attempts + 1
         /\ Leased(row, o, expires).completion = row.completion
         /\ Leased(row, o, expires).error = row.error
<1>1. row.attempts + 1 \in Nat
  BY RowFields
<1>2. \A n \in Nat :
        [row EXCEPT !.status = "leased", !.owner = o, !.expires = expires, !.attempts = n] \in Row
  BY DEF Row, Status
<1>3. Leased(row, o, expires) \in Row
  BY <1>1, <1>2 DEF Leased
<1>. QED
  BY <1>3 DEF Row, Leased

(* What taking or granting a lease does to RowInv.                         *)

\* lease_jobs may requeue an expired lease that has attempts left.
LEMMA RequeueInv ==
  ASSUME NEW row, RowInv(row), row.status = "leased", ~Exhausted(row)
  PROVE  RowInv(Unlease(row, "pending"))
  BY UnleaseFields DEF RowInv, Exhausted, Active, Status

\* A leased row whose attempt is refunded can pay for another lease.
LEMMA RefundInv ==
  ASSUME NEW row, RowInv(row), row.status = "leased"
  PROVE  RowInv(Unlease(Refund(row), "pending"))
<1>1. row.attempts \in 1..row.req.max_attempts /\ row.req \in Request /\ row \in Row
  BY DEF RowInv
<1>2. Refund(row).attempts = row.attempts - 1
  BY <1>1, RefundFields, RequestFields
<1>3. Unlease(Refund(row), "pending").attempts = row.attempts - 1
  BY <1>1, <1>2, RefundFields, UnleaseFields DEF Status
<1>4. ~Exhausted(Unlease(Refund(row), "pending"))
  BY <1>1, <1>3, RefundFields, UnleaseFields, RequestFields DEF Exhausted, Status
<1>. QED
  BY <1>1, <1>4, RefundFields, UnleaseFields DEF RowInv, Active, Status

\* lease_jobs may bury an expired lease that was the last attempt.
LEMMA BuryInv ==
  ASSUME NEW row, RowInv(row), row.status = "leased", Exhausted(row)
  PROVE  RowInv(Unlease(row, "dead"))
  BY UnleaseFields DEF RowInv, Exhausted, Active, Status

\* lease_jobs may lease a pending row: its attempt is within the budget.
LEMMA LeasedInv ==
  ASSUME NEW row, RowInv(row), row.status = "pending",
         NEW o \in Owner, NEW expires \in Int
  PROVE  RowInv(Leased(row, o, expires))
<1>1. /\ row \in Row
      /\ row.req \in Request
      /\ ~(row.attempts >= row.req.max_attempts)
      /\ row.error \notin PermanentCategory
  BY DEF RowInv, Exhausted, Active
<1>2. row.attempts + 1 \in 1..row.req.max_attempts
  BY <1>1, RequestFields, RowFields
<1>. QED
  BY <1>1, <1>2, LeasedFields DEF RowInv

\* Moving the due instant of a row keeps the row invariant.
LEMMA DueInv ==
  ASSUME NEW row, RowInv(row), NEW due \in Int
  PROVE  RowInv([row EXCEPT !.due = due])
  BY DEF RowInv, Row, Exhausted, Active, Status

-----------------------------------------------------------------------------
(* What one step does to one row.                                          *)

RowUnchanged(k) == jobs'[k] = jobs[k]

RowAged(k) == jobs'[k] = Aged(jobs[k])

RowEnqueued(k) ==
  /\ jobs[k].status = "absent"
  /\ \E r \in Request, due \in Int : jobs'[k] = NewRow(r, due)

Expired(k) == jobs[k].status = "leased" /\ jobs[k].expires <= 0

RowRecycled(k) ==
  /\ Expired(k)
  /\ jobs'[k] = Unlease(jobs[k], IF Exhausted(jobs[k]) THEN "dead" ELSE "pending")

RowGranted(k) ==
  /\ jobs[k].status = "pending"
  /\ \E o \in Owner, expires \in Int : jobs'[k] = Leased(jobs[k], o, expires)

RowTakenOver(k) ==
  /\ Expired(k)
  /\ ~Exhausted(jobs[k])
  /\ \E o \in Owner, expires \in Int :
       jobs'[k] = Leased(Unlease(jobs[k], "pending"), o, expires)

RowRecovered(k) ==
  /\ Expired(k)
  /\ jobs'[k] = Unlease(Refund(jobs[k]), "pending")

RowYielded(k) ==
  /\ jobs[k].status = "leased"
  /\ \E delay \in DelayMs, now \in Reading : YieldJob(k, jobs[k].owner, delay, now)

RowCompleted(k) ==
  /\ jobs[k].status = "leased"
  /\ \E c \in Completion, now \in Reading : CompleteJob(k, jobs[k].owner, c, now)

RowFailed(k) ==
  /\ jobs[k].status = "leased"
  /\ \E cat \in Category, delay \in DelayMs \ {0}, now \in Reading :
       FailJob(k, jobs[k].owner, cat, delay, now)

WorkerStep(k) ==
  \/ RowUnchanged(k) \/ RowAged(k)
  \/ RowRecycled(k) \/ RowGranted(k) \/ RowTakenOver(k) \/ RowRecovered(k)
  \/ RowYielded(k) \/ RowCompleted(k) \/ RowFailed(k)

RowStep(k) == RowEnqueued(k) \/ WorkerStep(k)

IsTable(f) == f = [k \in Key |-> f[k]]

\* The head of lease_jobs recycles expired rows and, by the invariant, no others.
LEMMA RecycledRows ==
  ASSUME Inv, NEW now \in Reading, NEW k \in Key
  PROVE  \/ Recycled(now)[k] = jobs[k]
         \/ /\ Expired(k)
            /\ Recycled(now)[k] =
                 Unlease(jobs[k], IF Exhausted(jobs[k]) THEN "dead" ELSE "pending")
<1> DEFINE row == jobs[k]
<1>1. RowInv(row) /\ row \in Row
  BY DEF Inv, RowInv
<1>2. CASE LeaseExpired(row, now)
  <2>1. row.expires <= 0
    BY <1>1, <1>2, PastIsInt, RowFields DEF LeaseExpired
  <2>2. row.status = "leased"
    BY <1>2 DEF LeaseExpired
  <2>. QED
    BY <1>2, <2>1, <2>2 DEF Recycled, Expired
<1>3. CASE ~LeaseExpired(row, now) /\ row.status = "pending"
  <2>1. ~Exhausted(row)
    BY <1>1, <1>3 DEF RowInv
  <2>. QED
    BY <1>3, <2>1 DEF Recycled
<1>4. CASE ~LeaseExpired(row, now) /\ row.status # "pending"
  BY <1>4 DEF Recycled
<1>. QED
  BY <1>2, <1>3, <1>4

\* A poll recycles, grants or takes over rows, each in one step.
LEMMA LeaseJobsSteps ==
  ASSUME Inv, NEW o \in Owner, NEW wanted \in Wanted, NEW n \in Limit,
         NEW lease \in LeaseMs, NEW now \in Reading, NEW locked \in SUBSET Key,
         LeaseJobs(o, wanted, n, lease, now, locked)
  PROVE  IsTable(jobs') /\ \A k \in Key : WorkerStep(k)
<1> DEFINE table == Recycled(now)
           free == Claimable(table, wanted, now) \ {k \in locked : table[k] = jobs[k]}
<1>1. PICK S \in Batches(table, free, n) :
        jobs' = [k \in Key |->
                  IF k \in S THEN Leased(table[k], o, now + lease) ELSE table[k]]
  BY DEF LeaseJobs
<1>2. S \subseteq Claimable(table, wanted, now)
  BY DEF Batches
<1>3. now + lease \in Int
  BY QueueAssumption, PastIsInt
<1>4. ASSUME NEW k \in Key
      PROVE  WorkerStep(k)
  <2>1. CASE k \notin S
    <3>1. jobs'[k] = table[k]
      BY <1>1, <2>1
    <3>. QED
      BY <3>1, RecycledRows DEF WorkerStep, RowUnchanged, RowRecycled
  <2>2. CASE k \in S
    <3>1. jobs'[k] = Leased(table[k], o, now + lease)
      BY <1>1, <2>2
    <3>2. table[k].status = "pending" /\ ~Exhausted(table[k])
      BY <1>2, <2>2 DEF Claimable
    <3>3. CASE table[k] = jobs[k]
      BY <1>3, <3>1, <3>2, <3>3 DEF WorkerStep, RowGranted
    <3>4. CASE table[k] # jobs[k]
      <4>1. /\ Expired(k)
            /\ table[k] = Unlease(jobs[k], IF Exhausted(jobs[k]) THEN "dead" ELSE "pending")
        BY <3>4, RecycledRows
      <4>2. ~Exhausted(jobs[k])
        <5>1. jobs[k] \in Row
          BY DEF Inv
        <5>2. SUFFICES ASSUME Exhausted(jobs[k]) PROVE FALSE
          OBVIOUS
        <5>3. table[k] = Unlease(jobs[k], "dead")
          BY <4>1, <5>2
        <5>. QED
          BY <3>2, <5>1, <5>3, UnleaseFields DEF Status
      <4>3. table[k] = Unlease(jobs[k], "pending")
        BY <4>1, <4>2
      <4>. QED
        BY <1>3, <3>1, <4>1, <4>2, <4>3 DEF WorkerStep, RowTakenOver
    <3>. QED
      BY <3>3, <3>4
  <2>. QED
    BY <2>1, <2>2
<1>. QED
  BY <1>1, <1>4 DEF IsTable

\* Time only ages rows.
LEMMA TickSteps ==
  ASSUME Inv, Tick
  PROVE  IsTable(jobs') /\ \A k \in Key : WorkerStep(k)
  BY DEF Tick, IsTable, WorkerStep, RowAged

\* An enqueue inserts one row and leaves the others alone.
LEMMA ProduceSteps ==
  ASSUME Inv, Produce
  PROVE  IsTable(jobs') /\ \A k \in Key : RowStep(k)
<1>1. PICK e \in Key, r \in Request, delay \in DelayMs : EnqueueJob(e, r, delay)
  BY DEF Produce, EnqueueJobIfNoActive
<1>2. delay \in Int
  BY QueueAssumption
<1>3. ASSUME NEW k \in Key
      PROVE  RowStep(k)
  <2>1. CASE k = e
    BY <1>1, <1>2, <2>1 DEF EnqueueJob, RowStep, RowEnqueued, Inv
  <2>2. CASE k # e
    BY <1>1, <2>2 DEF EnqueueJob, RowStep, WorkerStep, RowUnchanged, Inv
  <2>. QED
    BY <2>1, <2>2
<1>. QED
  BY <1>1, <1>3 DEF EnqueueJob, IsTable, Inv

\* A poll by any owner, of any sources, is a step of worker on each row.
LEMMA PollSteps ==
  ASSUME Inv, Poll
  PROVE  IsTable(jobs') /\ \A k \in Key : WorkerStep(k)
  BY LeaseJobsSteps DEF Poll

\* recover_leased_jobs refunds expired leases only.
LEMMA RecoverSteps ==
  ASSUME Inv, Recover
  PROVE  IsTable(jobs') /\ \A k \in Key : WorkerStep(k)
<1>1. PICK wanted \in Wanted, now \in Reading : RecoverLeasedJobs(wanted, now)
  BY DEF Recover
<1>2. ASSUME NEW k \in Key
      PROVE  WorkerStep(k)
  <2>1. CASE LeaseExpired(jobs[k], now) /\ SourceOf[jobs[k].req.lane] \in wanted
    <3>1. jobs[k].expires \in Int
      BY RowFields DEF Inv
    <3>2. Expired(k)
      BY <2>1, <3>1, PastIsInt DEF LeaseExpired, Expired
    <3>. QED
      BY <1>1, <2>1, <3>2 DEF RecoverLeasedJobs, WorkerStep, RowRecovered
  <2>2. CASE ~(LeaseExpired(jobs[k], now) /\ SourceOf[jobs[k].req.lane] \in wanted)
    BY <1>1, <2>2 DEF RecoverLeasedJobs, WorkerStep, RowUnchanged
  <2>. QED
    BY <2>1, <2>2
<1>. QED
  BY <1>1, <1>2 DEF RecoverLeasedJobs, IsTable

\* A yield that changes anything comes from the owner of a leased row.
LEMMA YieldSteps ==
  ASSUME Inv, Yield
  PROVE  IsTable(jobs') /\ \A k \in Key : WorkerStep(k)
<1>1. PICK e \in Key, o \in Owner, delay \in DelayMs, now \in Reading :
        YieldJob(e, o, delay, now)
  BY DEF Yield
<1>2. jobs[e].status = "leased" /\ jobs[e].owner = o
  BY <1>1 DEF YieldJob, LiveLease
<1>3. ASSUME NEW k \in Key
      PROVE  WorkerStep(k)
  <2>1. CASE k = e
    BY <1>1, <1>2, <2>1 DEF WorkerStep, RowYielded
  <2>2. CASE k # e
    BY <1>1, <2>2 DEF YieldJob, WorkerStep, RowUnchanged, Inv
  <2>. QED
    BY <2>1, <2>2
<1>. QED
  BY <1>1, <1>3 DEF YieldJob, IsTable, Inv

\* So does a completion or a failure.
LEMMA FinishSteps ==
  ASSUME Inv, Finish
  PROVE  IsTable(jobs') /\ \A k \in Key : WorkerStep(k)
<1>1. PICK e \in Key, o \in Owner, now \in Reading :
        \/ \E c \in Completion : CompleteJob(e, o, c, now)
        \/ \E cat \in Category, delay \in DelayMs \ {0} : FailJob(e, o, cat, delay, now)
  BY DEF Finish
<1>2. CASE \E c \in Completion : CompleteJob(e, o, c, now)
  <2>1. PICK c \in Completion : CompleteJob(e, o, c, now)
    BY <1>2
  <2>2. jobs[e].status = "leased" /\ jobs[e].owner = o
    BY <2>1 DEF CompleteJob, LiveLease
  <2>3. WorkerStep(e)
    BY <2>1, <2>2 DEF WorkerStep, RowCompleted
  <2>4. \A k \in Key \ {e} : WorkerStep(k)
    BY <2>1 DEF CompleteJob, WorkerStep, RowUnchanged, Inv
  <2>. QED
    BY <2>1, <2>3, <2>4 DEF CompleteJob, IsTable, Inv
<1>3. CASE \E cat \in Category, delay \in DelayMs \ {0} : FailJob(e, o, cat, delay, now)
  <2>1. PICK cat \in Category, delay \in DelayMs \ {0} : FailJob(e, o, cat, delay, now)
    BY <1>3
  <2>2. jobs[e].status = "leased" /\ jobs[e].owner = o
    BY <2>1 DEF FailJob, LiveLease
  <2>3. WorkerStep(e)
    BY <2>1, <2>2 DEF WorkerStep, RowFailed
  <2>4. \A k \in Key \ {e} : WorkerStep(k)
    BY <2>1 DEF FailJob, WorkerStep, RowUnchanged, Inv
  <2>. QED
    BY <2>1, <2>3, <2>4 DEF FailJob, IsTable, Inv
<1>. QED
  BY <1>1, <1>2, <1>3

\* Every step rewrites every row in one of the ten ways of RowStep.
LEMMA NextSteps ==
  ASSUME Inv, [Next]_vars
  PROVE  IsTable(jobs') /\ \A k \in Key : RowStep(k)
<1>1. CASE UNCHANGED vars
  BY <1>1 DEF vars, IsTable, Inv, RowStep, WorkerStep, RowUnchanged
<1>. QED
  BY <1>1, ProduceSteps, PollSteps, RecoverSteps, YieldSteps, FinishSteps, TickSteps
     DEF Next, RowStep

-----------------------------------------------------------------------------
(* The outcome of the owner's own calls, field by field.                   *)

\* The row left by yield_job.
LEMMA YieldedRow ==
  ASSUME Inv, NEW k \in Key, RowYielded(k)
  PROVE  \E due \in Int :
           jobs'[k] = Yielded(jobs[k], due)
<1>1. PICK delay \in DelayMs, now \in Reading : YieldJob(k, jobs[k].owner, delay, now)
  BY DEF RowYielded
<1>2. now + delay \in Int
  BY PastIsInt, QueueAssumption
<1>. QED
  BY <1>1, <1>2 DEF YieldJob, Inv

\* The row left by complete_job.
LEMMA CompletedRow ==
  ASSUME Inv, NEW k \in Key, RowCompleted(k)
  PROVE  \E c \in Completion :
           jobs'[k] = Completed(jobs[k], c)
  BY DEF RowCompleted, CompleteJob, Inv

\* The row left by fail_job.
LEMMA FailedRow ==
  ASSUME Inv, NEW k \in Key, RowFailed(k)
  PROVE  \E cat \in Category, due \in Int :
           jobs'[k] = IF FatalFailure(jobs[k], cat)
                      THEN Buried(jobs[k], cat)
                      ELSE Retried(jobs[k], cat, due)
<1>1. PICK cat \in Category, delay \in DelayMs \ {0}, now \in Reading :
        FailJob(k, jobs[k].owner, cat, delay, now)
  BY DEF RowFailed
<1>2. now + delay \in Int
  BY PastIsInt, QueueAssumption
<1>. QED
  BY <1>1, <1>2 DEF FailJob, Inv

-----------------------------------------------------------------------------
(* The invariant.                                                          *)

\* Ageing keeps everything but the two instants.
LEMMA AgedFields ==
  ASSUME NEW row \in Row
  PROVE  /\ Aged(row) \in Row
         /\ Aged(row).status = row.status
         /\ Aged(row).req = row.req
         /\ Aged(row).attempts = row.attempts
         /\ Aged(row).owner = row.owner
         /\ Aged(row).completion = row.completion
         /\ Aged(row).error = row.error
<1>1. Older(row.due) \in Int /\ Older(row.expires) \in Int
  BY RowFields, PastIsInt DEF Older
<1>. QED
  BY <1>1 DEF Row, Aged

\* yield_job refunds the attempt and keeps the request.
LEMMA YieldedFields ==
  ASSUME NEW row \in Row, NEW due \in Int
  PROVE  /\ Yielded(row, due) \in Row
         /\ Yielded(row, due).status = "pending"
         /\ Yielded(row, due).req = row.req
         /\ Yielded(row, due).attempts = Refund(row).attempts
         /\ Yielded(row, due).owner = NoOwner
         /\ Yielded(row, due).error = row.error
<1>1. Unlease(Refund(row), "pending") \in Row
  BY RefundFields, UnleaseFields DEF Status
<1>. QED
  BY <1>1, RefundFields, UnleaseFields DEF Row, Status, Yielded

\* complete_job keeps the request and the attempts.
LEMMA CompletedFields ==
  ASSUME NEW row \in Row, NEW c \in Completion
  PROVE  /\ Completed(row, c) \in Row
         /\ Completed(row, c).status = "completed"
         /\ Completed(row, c).req = row.req
         /\ Completed(row, c).attempts = row.attempts
         /\ Completed(row, c).owner = NoOwner
         /\ Completed(row, c).error = row.error
<1>1. Unlease(row, "completed") \in Row
  BY UnleaseFields DEF Status
<1>. QED
  BY <1>1, UnleaseFields DEF Row, Status, Completed

\* A fatal failure keeps the request and the attempts.
LEMMA BuriedFields ==
  ASSUME NEW row \in Row, NEW cat \in Category
  PROVE  /\ Buried(row, cat) \in Row
         /\ Buried(row, cat).status = "dead"
         /\ Buried(row, cat).req = row.req
         /\ Buried(row, cat).attempts = row.attempts
         /\ Buried(row, cat).owner = NoOwner
         /\ Buried(row, cat).error = cat
<1>1. Unlease(row, "dead") \in Row
  BY UnleaseFields DEF Status
<1>. QED
  BY <1>1, UnleaseFields DEF Row, Status, Buried

\* So does a failure that is retried.
LEMMA RetriedFields ==
  ASSUME NEW row \in Row, NEW cat \in Category, NEW due \in Int
  PROVE  /\ Retried(row, cat, due) \in Row
         /\ Retried(row, cat, due).status = "pending"
         /\ Retried(row, cat, due).req = row.req
         /\ Retried(row, cat, due).attempts = row.attempts
         /\ Retried(row, cat, due).owner = NoOwner
         /\ Retried(row, cat, due).error = cat
<1>1. Unlease(row, "pending") \in Row
  BY UnleaseFields DEF Status
<1>. QED
  BY <1>1, UnleaseFields DEF Row, Status, Retried

\* No way of rewriting a row breaks the row invariant.
LEMMA RowStepInv ==
  ASSUME Inv, NEW k \in Key, RowStep(k)
  PROVE  RowInv(jobs'[k])
<1> DEFINE row == jobs[k]
           new == jobs'[k]
<1>0. RowInv(row) /\ row \in Row
  BY DEF Inv
<1>1. CASE RowUnchanged(k)
  BY <1>0, <1>1 DEF RowUnchanged
<1>2. CASE RowAged(k)
  BY <1>0, <1>2, AgedFields DEF RowInv, Exhausted, RowAged
<1>3. CASE RowEnqueued(k)
  BY <1>3, NewRowInv DEF RowEnqueued
<1>4. CASE RowRecycled(k)
  BY <1>0, <1>4, RequeueInv, BuryInv DEF RowRecycled, Expired
<1>5. CASE RowGranted(k)
  BY <1>0, <1>5, LeasedInv DEF RowGranted
<1>6. CASE RowTakenOver(k)
  <2>1. RowInv(Unlease(row, "pending"))
    BY <1>0, <1>6, RequeueInv DEF RowTakenOver, Expired
  <2>2. Unlease(row, "pending").status = "pending"
    BY <1>0, UnleaseFields DEF Status
  <2>. QED
    BY <1>6, <2>1, <2>2, LeasedInv DEF RowTakenOver
<1>7. CASE RowRecovered(k)
  BY <1>0, <1>7, RefundInv DEF RowRecovered, Expired
<1>8. CASE RowYielded(k)
  <2>1. RowInv(Unlease(Refund(row), "pending"))
    BY <1>0, <1>8, RefundInv DEF RowYielded
  <2>2. PICK due \in Int : new = Yielded(row, due)
    BY <1>8, YieldedRow
  <2>. QED
    BY <2>1, <2>2, DueInv DEF Yielded
<1>9. CASE RowCompleted(k)
  <2>1. PICK c \in Completion : new = Completed(row, c)
    BY <1>9, CompletedRow
  <2>2. row.req \in Request
    BY <1>0, <1>9 DEF RowCompleted, RowInv
  <2>. QED
    BY <1>0, <2>1, <2>2, CompletedFields DEF RowInv, Active
<1>10. CASE RowFailed(k)
  <2>1. PICK cat \in Category, due \in Int :
          new = IF FatalFailure(row, cat) THEN Buried(row, cat) ELSE Retried(row, cat, due)
    BY <1>10, FailedRow
  <2>2. row.req \in Request
    BY <1>0, <1>10 DEF RowFailed, RowInv
  <2>3. CASE FatalFailure(row, cat)
    BY <1>0, <2>1, <2>2, <2>3, BuriedFields DEF RowInv, FatalFailure, Exhausted, Active
  <2>4. CASE ~FatalFailure(row, cat)
    BY <1>0, <2>1, <2>2, <2>4, RetriedFields DEF RowInv, FatalFailure, Exhausted
  <2>. QED
    BY <2>3, <2>4
<1>. QED
  BY <1>1, <1>2, <1>3, <1>4, <1>5, <1>6, <1>7, <1>8, <1>9, <1>10
     DEF RowStep, WorkerStep

\* The invariant holds of the empty table.
LEMMA InitInv == Init => Inv
<1>1. Absent \in Row
  BY PastIsInt DEF Absent, Row, Status
<1>2. RowInv(Absent)
  BY <1>1, NullAssumption DEF Absent, RowInv
<1>. QED
  BY <1>1, <1>2 DEF Init, Inv

\* Every step preserves the invariant.
LEMMA NextInv == Inv /\ [Next]_vars => Inv'
<1> SUFFICES ASSUME Inv, [Next]_vars
             PROVE  Inv'
  OBVIOUS
<1>1. IsTable(jobs') /\ \A k \in Key : RowStep(k)
  BY NextSteps
<1>2. \A k \in Key : RowInv(jobs'[k])
  BY <1>1, RowStepInv
<1>3. \A k \in Key : jobs'[k] \in Row
  BY <1>2 DEF RowInv
<1>4. jobs' \in [Key -> Row]
  BY <1>1, <1>3 DEF IsTable
<1>. QED
  BY <1>2, <1>4 DEF Inv

\* Whatever producers, workers and the clock do, in any order, every row of the
\* table satisfies RowInv.
THEOREM Invariance == Spec => []Inv
  BY InitInv, NextInv, PTL DEF Spec

\* The rows of the table keep the shape the schema declares.
THEOREM TypeCorrect == Spec => []TypeOK
<1>1. Inv => TypeOK
  BY DEF Inv, TypeOK
<1>. QED
  BY <1>1, Invariance, PTL

\* lease_jobs, yield_job, fail_job and recover_leased_jobs together keep the
\* attempt counter exact: leased rows are within their budget, pending rows can
\* pay for a lease, dead rows have spent it or met a permanent error.
THEOREM AttemptsAreAccounted == Spec => []AttemptsAccounted
<1>1. Inv => AttemptsAccounted
  BY DEF Inv, RowInv, AttemptsAccounted
<1>. QED
  BY <1>1, Invariance, PTL

-----------------------------------------------------------------------------
(* Settled jobs stay settled.                                              *)

\* No step but an enqueue concerns an absent row, and none but a tick a
\* settled one.
LEMMA OnlyActiveRowsMove ==
  ASSUME Inv, NEW k \in Key, WorkerStep(k), jobs[k].status \notin Active
  PROVE  RowUnchanged(k) \/ RowAged(k)
  BY DEF WorkerStep, RowRecycled, RowGranted, RowTakenOver, RowRecovered, Expired,
         RowYielded, RowCompleted, RowFailed, Active

\* A completed or dead row keeps its outcome for ever: no late finishing call,
\* poll, recovery or replay of complete_job rewrites it.
THEOREM SettledJobsAreFinal == Spec => SettledIsFinal
<1> DEFINE Final == \A k \in Key :
             jobs[k].status \in Settled => Outcome(jobs'[k]) = Outcome(jobs[k])
<1>1. Inv /\ [Next]_vars => [Final]_vars
  <2> SUFFICES ASSUME Inv, [Next]_vars, NEW k \in Key, jobs[k].status \in Settled
               PROVE  Outcome(jobs'[k]) = Outcome(jobs[k])
    OBVIOUS
  <2>1. RowStep(k) /\ jobs[k] \in Row
    BY NextSteps DEF Inv
  <2>2. RowUnchanged(k) \/ RowAged(k)
    BY <2>1, OnlyActiveRowsMove DEF RowStep, RowEnqueued, Settled, Active
  <2>. QED
    BY <2>1, <2>2, AgedFields DEF RowUnchanged, RowAged, Outcome
<1>. QED
  BY <1>1, Invariance, PTL DEF Spec, SettledIsFinal

-----------------------------------------------------------------------------
(* One active job per scheduled lane.                                      *)

\* Workers and the clock neither activate a job nor change what it asks for.
LEMMA WorkerKeepsLane ==
  ASSUME Inv, NEW k \in Key, WorkerStep(k), jobs'[k].status \in Active
  PROVE  jobs[k].status \in Active /\ jobs'[k].req = jobs[k].req
<1>0. jobs[k] \in Row /\ Refund(jobs[k]) \in Row
  BY RefundFields DEF Inv
<1>1. CASE jobs[k].status \notin Active
  <2>1. RowUnchanged(k) \/ RowAged(k)
    BY <1>1, OnlyActiveRowsMove
  <2>. QED
    BY <1>0, <1>1, <2>1, AgedFields DEF RowUnchanged, RowAged
<1>2. CASE jobs[k].status \in Active
  <2>1. jobs'[k].req = jobs[k].req
    <3>1. CASE RowUnchanged(k) \/ RowAged(k)
      BY <1>0, <3>1, AgedFields DEF RowUnchanged, RowAged
    <3>2. CASE RowRecycled(k)
      BY <1>0, <3>2, UnleaseFields DEF RowRecycled, Status
    <3>3. CASE RowGranted(k)
      BY <1>0, <3>3, LeasedFields DEF RowGranted
    <3>4. CASE RowTakenOver(k)
      <4>1. Unlease(jobs[k], "pending") \in Row /\ Unlease(jobs[k], "pending").req = jobs[k].req
        BY <1>0, UnleaseFields DEF Status
      <4>. QED
        BY <3>4, <4>1, LeasedFields DEF RowTakenOver
    <3>5. CASE RowRecovered(k)
      BY <1>0, <3>5, RefundFields, UnleaseFields DEF RowRecovered, Status
    <3>6. CASE RowYielded(k)
      BY <1>0, <3>6, YieldedRow, YieldedFields
    <3>7. CASE RowCompleted(k)
      BY <1>0, <3>7, CompletedRow, CompletedFields
    <3>8. CASE RowFailed(k)
      BY <1>0, <3>8, FailedRow, BuriedFields, RetriedFields
    <3>. QED
      BY <3>1, <3>2, <3>3, <3>4, <3>5, <3>6, <3>7, <3>8 DEF WorkerStep
  <2>. QED
    BY <1>2, <2>1
<1>. QED
  BY <1>1, <1>2

\* enqueue_job_if_no_active never adds a second active job to a lane.
LEMMA ProduceKeepsLaneSingle ==
  ASSUME Inv, OneActivePerLane, Produce
  PROVE  OneActivePerLane'
<1>1. PICK e \in Key, r \in Request, delay \in DelayMs :
        \/ r.lane \notin ScheduledLane /\ EnqueueJob(e, r, delay)
        \/ EnqueueJobIfNoActive(e, r, delay)
  BY DEF Produce
<1>2. jobs' = [jobs EXCEPT ![e] = NewRow(r, delay)]
  BY <1>1 DEF EnqueueJob, EnqueueJobIfNoActive
<1>3. jobs'[e].req = r
  BY <1>2 DEF Inv, NewRow, Absent
<1>4. \A k \in Key \ {e} : jobs'[k] = jobs[k]
  BY <1>2 DEF Inv
<1>5. ASSUME NEW k \in Key \ {e}, jobs[k].status \in Active,
             jobs[k].req.lane = r.lane, r.lane \in ScheduledLane
      PROVE  FALSE
  BY <1>1, <1>5 DEF EnqueueJobIfNoActive, HasActiveJob
<1>. QED
  BY <1>3, <1>4, <1>5 DEF OneActivePerLane

\* However slow or crashed its worker is, a lane fed through
\* enqueue_job_if_no_active never has two pending or leased jobs.
THEOREM OneActiveJobPerLane == Spec => []OneActivePerLane
<1>1. Init => OneActivePerLane
  BY DEF Init, OneActivePerLane, Absent, Active
<1>2. Inv /\ OneActivePerLane /\ [Next]_vars => OneActivePerLane'
  <2> SUFFICES ASSUME Inv, OneActivePerLane, [Next]_vars
               PROVE  OneActivePerLane'
    OBVIOUS
  <2>1. CASE Produce
    BY <2>1, ProduceKeepsLaneSingle
  <2>2. CASE ~Produce
    <3>1. \A k \in Key : WorkerStep(k)
      BY <2>2, PollSteps, RecoverSteps, YieldSteps, FinishSteps, TickSteps
         DEF Next, vars, WorkerStep, RowUnchanged
    <3>. QED
      BY <3>1, WorkerKeepsLane DEF OneActivePerLane
  <2>. QED
    BY <2>1, <2>2
<1>. QED
  BY <1>1, <1>2, Invariance, PTL DEF Spec

-----------------------------------------------------------------------------
(* A live lease is its owner's alone.                                      *)

\* While a lease has not expired on any clock, the row is moved by calls of the
\* lease owner alone: polls, recoveries and other owners leave it as it is.
THEOREM LiveLeasesAreExclusive == Spec => OnlyItsOwnerEndsALiveLease
<1> DEFINE Exclusive ==
             \A k \in Key :
               jobs[k].status = "leased" /\ jobs[k].expires > 0 =>
                 \/ /\ jobs'[k].status = "leased"
                    /\ jobs'[k].owner = jobs[k].owner
                    /\ jobs'[k].attempts = jobs[k].attempts
                 \/ OwnerEnds(k)
<1>1. Inv /\ [Next]_vars => [Exclusive]_vars
  <2> SUFFICES ASSUME Inv, [Next]_vars, NEW k \in Key,
                      jobs[k].status = "leased", jobs[k].expires > 0
               PROVE  \/ /\ jobs'[k].status = "leased"
                         /\ jobs'[k].owner = jobs[k].owner
                         /\ jobs'[k].attempts = jobs[k].attempts
                      \/ OwnerEnds(k)
    OBVIOUS
  <2>1. WorkerStep(k) /\ jobs[k] \in Row
    BY NextSteps DEF RowStep, RowEnqueued, Inv
  <2>2. jobs[k].expires \in Int
    BY <2>1, RowFields
  <2>3. ~Expired(k)
    BY <2>2 DEF Expired
  <2>4. CASE RowUnchanged(k) \/ RowAged(k)
    BY <2>1, <2>4, AgedFields DEF RowUnchanged, RowAged
  <2>5. CASE RowYielded(k) \/ RowCompleted(k) \/ RowFailed(k)
    BY <2>5 DEF RowYielded, RowCompleted, RowFailed, OwnerEnds
  <2>. QED
    BY <2>1, <2>3, <2>4, <2>5 DEF WorkerStep, RowRecycled, RowGranted, RowTakenOver, RowRecovered
<1>. QED
  BY <1>1, Invariance, PTL DEF Spec, OnlyItsOwnerEndsALiveLease

-----------------------------------------------------------------------------
(* The queue implements JobLifecycle.                                      *)

\* The mapped variables of one row, in the types of the lifecycle.
LEMMA RowMaps ==
  ASSUME NEW row, RowInv(row)
  PROVE  /\ PhaseOf(row) \in Lifecycle!Phase
         /\ row.owner \in Owner \cup {NoOwner}
         /\ ChargedOf(row) \in Nat
         /\ BudgetOf(row) \in Nat
         /\ (row.error \in PermanentCategory) \in BOOLEAN
<1>1. row \in Row
  BY DEF RowInv
<1>2. row.status # "absent" => row.req.max_attempts \in Nat
  BY RequestFields DEF RowInv
<1>3. row.status = "leased" => row.attempts - 1 \in Nat
  BY <1>1, <1>2, RowFields DEF RowInv
<1>. QED
  BY <1>1, <1>2, <1>3, RowFields DEF PhaseOf, ChargedOf, BudgetOf, Status, Lifecycle!Phase

\* The steps of the lifecycle, read through the mapping: row is the row of
\* job k before the step and new the one after.
Doomed(row) == row.error \in PermanentCategory

Kept(row, new) ==
  /\ BudgetOf(new) = BudgetOf(row)
  /\ Doomed(new) = Doomed(row)

MapsToStep(row, new) ==
  \/ /\ PhaseOf(new) = PhaseOf(row)
     /\ new.owner = row.owner
     /\ ChargedOf(new) = ChargedOf(row)
     /\ Kept(row, new)
  \/ /\ PhaseOf(row) = "absent"
     /\ PhaseOf(new) = "waiting"
     /\ BudgetOf(new) > 0
     /\ ChargedOf(new) = 0
     /\ new.owner = NoOwner
     /\ Doomed(new) = FALSE
  \/ /\ PhaseOf(row) = "waiting"
     /\ ChargedOf(row) < BudgetOf(row)
     /\ PhaseOf(new) = "running"
     /\ new.owner \in Owner
     /\ ChargedOf(new) = ChargedOf(row)
     /\ Kept(row, new)
  \/ /\ PhaseOf(row) = "running"
     /\ PhaseOf(new) = "waiting"
     /\ new.owner = NoOwner
     /\ ChargedOf(new) = ChargedOf(row)
     /\ Kept(row, new)
  \/ /\ PhaseOf(row) = "running"
     /\ ChargedOf(row) + 1 < BudgetOf(row)
     /\ PhaseOf(new) = "waiting"
     /\ new.owner = NoOwner
     /\ ChargedOf(new) = ChargedOf(row) + 1
     /\ Kept(row, new)
  \/ /\ PhaseOf(row) = "running"
     /\ ChargedOf(row) + 1 < BudgetOf(row)
     /\ PhaseOf(new) = "running"
     /\ new.owner \in Owner
     /\ ChargedOf(new) = ChargedOf(row) + 1
     /\ Kept(row, new)
  \/ /\ PhaseOf(row) = "running"
     /\ PhaseOf(new) = "dead"
     /\ new.owner = NoOwner
     /\ ChargedOf(new) = ChargedOf(row) + 1
     /\ Doomed(new) \/ ChargedOf(new) = BudgetOf(new)
     /\ BudgetOf(new) = BudgetOf(row)
  \/ /\ PhaseOf(row) = "running"
     /\ PhaseOf(new) = "done"
     /\ new.owner = NoOwner
     /\ ChargedOf(new) = ChargedOf(row) + 1
     /\ Kept(row, new)

\* A pair of rows related by MapsToStep is a step of the lifecycle of the job.
LEMMA MapsToLifecycle ==
  ASSUME NEW k \in Key, MapsToStep(jobs[k], jobs'[k])
  PROVE  Lifecycle!JobStep(k)
  BY DEF MapsToStep, Kept, Doomed, Lifecycle!JobStep, Lifecycle!Same, Lifecycle!Submit,
         Lifecycle!Grant, Lifecycle!Refund, Lifecycle!Retry, Lifecycle!TakeOver,
         Lifecycle!Bury, Lifecycle!Succeed

\* What the mapping reads off a row of each status.
LEMMA RowReads ==
  ASSUME NEW row, RowInv(row)
  PROVE  /\ row.status = "absent" => PhaseOf(row) = "absent"
         /\ row.status = "pending" =>
              /\ PhaseOf(row) = "waiting"
              /\ ChargedOf(row) = row.attempts
              /\ ChargedOf(row) < BudgetOf(row)
         /\ row.status = "leased" =>
              /\ PhaseOf(row) = "running"
              /\ ChargedOf(row) = row.attempts - 1
              /\ row.owner \in Owner
         /\ row.status = "completed" => PhaseOf(row) = "done" /\ ChargedOf(row) = row.attempts
         /\ row.status = "dead" => PhaseOf(row) = "dead" /\ ChargedOf(row) = row.attempts
         /\ row.status # "absent" => BudgetOf(row) = row.req.max_attempts
         /\ row.status # "leased" => row.owner = NoOwner
         /\ row.attempts \in Nat
         /\ row.status # "absent" => row.req.max_attempts \in Nat \ {0}
<1>1. row \in Row
  BY DEF RowInv
<1>2. row.status # "absent" => row.req.max_attempts \in Nat \ {0}
  BY RequestFields DEF RowInv
<1>. QED
  BY <1>1, <1>2, RowFields DEF RowInv, Exhausted, PhaseOf, ChargedOf, BudgetOf, Status

\* Every way of rewriting a row is one of the lifecycle steps.
LEMMA RowStepMaps ==
  ASSUME Inv, NEW k \in Key, RowStep(k)
  PROVE  MapsToStep(jobs[k], jobs'[k])
<1> DEFINE row == jobs[k]
           new == jobs'[k]
<1>0. RowInv(row) /\ row \in Row /\ RowInv(new) /\ new \in Row
  BY RowStepInv DEF RowInv, Inv
<1>1. CASE RowUnchanged(k)
  BY <1>1 DEF RowUnchanged, MapsToStep, Kept
<1>2. CASE RowAged(k)
  <2>1. /\ new.status = row.status
        /\ new.req = row.req
        /\ new.attempts = row.attempts
        /\ new.owner = row.owner
        /\ new.error = row.error
    BY <1>0, <1>2, AgedFields DEF RowAged
  <2>. QED
    BY <2>1 DEF MapsToStep, Kept, Doomed, PhaseOf, ChargedOf, BudgetOf
<1>3. CASE RowEnqueued(k)
  <2>1. PICK r \in Request, due \in Int : new = NewRow(r, due)
    BY <1>3 DEF RowEnqueued
  <2>2. /\ new.status = "pending"
        /\ new.attempts = 0
        /\ new.error = NoError
    BY <2>1 DEF NewRow, Absent
  <2>. QED
    BY <1>0, <1>3, <2>2, RowReads, NullAssumption DEF RowEnqueued, MapsToStep, Doomed
<1>4. CASE RowRecycled(k)
  <2>1. row.status = "leased" /\ new.req = row.req /\ new.attempts = row.attempts
        /\ new.error = row.error
    BY <1>0, <1>4, UnleaseFields DEF RowRecycled, Expired, Status
  <2>2. CASE Exhausted(row)
    <3>1. new.status = "dead"
      BY <1>0, <1>4, <2>2, UnleaseFields DEF RowRecycled, Status
    <3>2. row.attempts = row.req.max_attempts
      BY <1>0, <2>1, <2>2, RowReads DEF RowInv, Exhausted
    <3>. QED
      BY <1>0, <2>1, <3>1, <3>2, RowReads DEF MapsToStep
  <2>3. CASE ~Exhausted(row)
    <3>1. new.status = "pending"
      BY <1>0, <1>4, <2>3, UnleaseFields DEF RowRecycled, Status
    <3>. QED
      BY <1>0, <2>1, <2>3, <3>1, RowReads DEF MapsToStep, Kept, Doomed, Exhausted
  <2>. QED
    BY <2>2, <2>3
<1>5. CASE RowGranted(k)
  <2>1. row.status = "pending" /\ new.status = "leased" /\ new.req = row.req
        /\ new.attempts = row.attempts + 1 /\ new.error = row.error
    BY <1>0, <1>5, LeasedFields DEF RowGranted
  <2>. QED
    BY <1>0, <2>1, RowReads DEF MapsToStep, Kept, Doomed
<1>6. CASE RowTakenOver(k)
  <2>1. PICK o \in Owner, expires \in Int :
          new = Leased(Unlease(row, "pending"), o, expires)
    BY <1>6 DEF RowTakenOver
  <2>2. /\ Unlease(row, "pending") \in Row
        /\ Unlease(row, "pending").req = row.req
        /\ Unlease(row, "pending").attempts = row.attempts
        /\ Unlease(row, "pending").error = row.error
    BY <1>0, UnleaseFields DEF Status
  <2>3. new.status = "leased" /\ new.req = row.req
        /\ new.attempts = row.attempts + 1 /\ new.error = row.error
    BY <2>1, <2>2, LeasedFields
  <2>4. row.status = "leased" /\ ~Exhausted(row)
    BY <1>6 DEF RowTakenOver, Expired
  <2>. QED
    BY <1>0, <2>3, <2>4, RowReads DEF MapsToStep, Kept, Doomed, Exhausted
<1>7. ASSUME row.status = "leased", new.status = "pending", new.req = row.req,
             new.attempts = Refund(row).attempts, new.error = row.error
      PROVE  MapsToStep(row, new)
  <2>1. row.attempts >= 1
    BY <1>0, <1>7, RowReads DEF RowInv
  <2>2. new.attempts = row.attempts - 1
    BY <1>0, <1>7, <2>1, RefundFields
  <2>. QED
    BY <1>0, <1>7, <2>2, RowReads DEF MapsToStep, Kept, Doomed
<1>8. CASE RowRecovered(k)
  BY <1>0, <1>7, <1>8, RefundFields, UnleaseFields DEF RowRecovered, Expired, Status
<1>9. CASE RowYielded(k)
  BY <1>0, <1>7, <1>9, YieldedRow, YieldedFields DEF RowYielded
<1>10. CASE RowCompleted(k)
  <2>1. row.status = "leased" /\ new.status = "completed" /\ new.req = row.req
        /\ new.attempts = row.attempts /\ new.error = row.error
    BY <1>0, <1>10, CompletedRow, CompletedFields DEF RowCompleted
  <2>. QED
    BY <1>0, <2>1, RowReads DEF MapsToStep, Kept, Doomed
<1>11. CASE RowFailed(k)
  <2>1. row.status = "leased"
    BY <1>11 DEF RowFailed
  <2>2. PICK cat \in Category, due \in Int :
          new = IF FatalFailure(row, cat) THEN Buried(row, cat) ELSE Retried(row, cat, due)
    BY <1>11, FailedRow
  <2>3. new.req = row.req /\ new.attempts = row.attempts /\ new.error = cat
    BY <1>0, <2>2, BuriedFields, RetriedFields
  <2>4. CASE FatalFailure(row, cat)
    <3>1. new.status = "dead"
      BY <1>0, <2>2, <2>4, BuriedFields
    <3>2. cat \in PermanentCategory \/ row.attempts = row.req.max_attempts
      BY <1>0, <2>1, <2>4, RowReads DEF RowInv, FatalFailure, Exhausted
    <3>. QED
      BY <1>0, <2>1, <2>3, <3>1, <3>2, RowReads DEF MapsToStep, Doomed
  <2>5. CASE ~FatalFailure(row, cat)
    <3>1. new.status = "pending"
      BY <1>0, <2>2, <2>5, RetriedFields
    <3>2. ~Doomed(new) /\ ~Doomed(row)
      BY <1>0, <2>1, <2>3, <2>5 DEF Doomed, FatalFailure, RowInv, Active
    <3>3. Doomed(new) = Doomed(row)
      BY <3>2 DEF Doomed
    <3>4. BudgetOf(new) = BudgetOf(row)
      BY <1>0, <2>1, <2>3, <3>1, RowReads
    <3>5. ChargedOf(new) = ChargedOf(row) + 1 /\ ChargedOf(new) < BudgetOf(new)
      BY <1>0, <2>1, <2>3, <3>1, RowReads
    <3>6. PhaseOf(row) = "running" /\ PhaseOf(new) = "waiting" /\ new.owner = NoOwner
      BY <1>0, <2>1, <3>1, RowReads
    <3>. QED
      BY <3>3, <3>4, <3>5, <3>6 DEF MapsToStep, Kept
  <2>. QED
    BY <2>4, <2>5
<1>. QED
  BY <1>1, <1>2, <1>3, <1>4, <1>5, <1>6, <1>8, <1>9, <1>10, <1>11
     DEF RowStep, WorkerStep

\* The queue keeps its promise (JobLifecycle): every operation of jobs.rs moves
\* each job by one step of the lifecycle or not at all.
THEOREM QueueImplementsLifecycle == Spec => ImplementsLifecycle
<1>1. Init => Lifecycle!Init
  <2> SUFFICES ASSUME Init
               PROVE  Lifecycle!Init
    OBVIOUS
  <2>1. ASSUME NEW k \in Key
        PROVE  /\ PhaseOf(jobs[k]) = "absent"
               /\ jobs[k].owner = NoOwner
               /\ ChargedOf(jobs[k]) = 0
               /\ BudgetOf(jobs[k]) = 0
               /\ (jobs[k].error \in PermanentCategory) = FALSE
    BY NullAssumption DEF Init, Absent, PhaseOf, ChargedOf, BudgetOf
  <2>. QED
    BY <2>1 DEF Lifecycle!Init
<1>2. Inv /\ [Next]_vars => [Lifecycle!Next]_(Lifecycle!vars)
  <2> SUFFICES ASSUME Inv, [Next]_vars
               PROVE  Lifecycle!Next
    OBVIOUS
  <2>1. \A k \in Key : Lifecycle!JobStep(k)
    BY NextSteps, RowStepMaps, MapsToLifecycle
  <2>2. \A k \in Key : RowInv(jobs'[k])
    BY NextInv DEF Inv
  <2>. QED
    BY <2>1, <2>2, RowMaps DEF Lifecycle!Next
<1>. QED
  BY <1>1, <1>2, Invariance, PTL DEF Spec, ImplementsLifecycle, Lifecycle!Spec
=============================================================================
