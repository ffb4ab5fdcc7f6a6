------------------------------ MODULE WorkerBatch ------------------------------
(***************************************************************************)
(* The scheduled maintenance batch of crates/worker/src/lib.rs: the lease  *)
(* that serialises invocations, the lanes it schedules, the jobs it runs,  *)
(* and the cooldown it imposes on Steam.                                   *)
(*                                                                         *)
(* Every call to storage is a transaction of its own, so the invocation    *)
(* may die, or be told of an error and stop, between any two of them.  An  *)
(* invocation that is slow may outlive its lease (the platform ends it     *)
(* after MaxRun) and then runs beside the next one.                        *)
(*                                                                         *)
(* The table jobs is the one of JobQueue, reduced to what a batch sees:    *)
(* a lane has at most one active job (JobQueue!OneActivePerLane), so a     *)
(* lane stands for its job, and keys is what is left of settled ones.      *)
(* As there, an instant is an offset from the present and Tick moves all   *)
(* of them; instants that are tested only for being over stop at 0.        *)
(***************************************************************************)
EXTENDS Integers, Sequences

CONSTANTS
  Invocation,  \* concurrent invocations; each run of one has a fresh owner
  Lane,        \* the enabled lanes of schedule_due_jobs
  SourceOf,    \* [Lane -> Source]
  SelfTimed,   \* lanes whose work sets its own next run: retrieval_sync
  Interval,    \* [Lane -> how often a lane is scheduled]
  LeaseMs,     \* LEASE_MS, of the batch and of its jobs
  Continue,    \* CONTINUE_DELAY_MS
  RetryMs,     \* delays of a retry
  RestMs,      \* delays after a rate limit
  MaxRun,      \* how long an invocation lives
  Horizon,     \* how long ago a job came due is counted up to here
  MaxAttempts, \* max_attempts of a scheduled job
  JobLimit,    \* job_limit
  NoInvocation

Source == {"steam", "maintenance"}

ASSUME BatchAssumption ==
  /\ SourceOf \in [Lane -> Source]
  /\ SelfTimed \subseteq Lane
  /\ Interval \in [Lane -> Nat \ {0}]
  /\ {LeaseMs, Continue, MaxRun, MaxAttempts, JobLimit} \subseteq Nat \ {0}
  /\ Horizon \in Nat
  /\ RetryMs \cup RestMs \subseteq Nat \ {0}
  /\ NoInvocation \notin Invocation

VARIABLES
  lease,     \* the row 'cloud_batch' of worker_leases
  job,       \* job[l]: the active job of lane l
  phase,     \* phase[l]: how far the present is into l's scheduling interval
  keys,      \* keys[l]: the intervals, counted back, that have had a job
  next,      \* next[l]: next_run_at_ms of l's status row
  cooldown,  \* until_ms of the Steam cooldown cursor
  run,       \* run[b]: where invocation b is
  rest       \* history: until when Steam has asked to be left alone

vars == <<lease, job, phase, keys, next, cooldown, run, rest>>

Remaining(t) == IF t > 0 THEN t - 1 ELSE 0

NoJob ==
  [status |-> "none", owner |-> NoInvocation, expires |-> 0, due |-> 0,
   attempts |-> 0]

Off ==
  [pc |-> "off", age |-> 0, todo |-> {}, lead |-> "steam", index |-> 0,
   order |-> <<>>, lanes |-> {}, delay |-> 0, read |-> 0]

Pcs == {"off", "scheduling", "enqueued", "picking", "claiming", "working",
        "worked", "limited", "saved", "recording", "writing", "releasing"}

Init ==
  /\ lease = [owner |-> NoInvocation, expires |-> 0]
  /\ job = [l \in Lane |-> NoJob]
  /\ phase = [l \in Lane |-> 0]
  /\ keys = [l \in Lane |-> {}]
  /\ next = [l \in Lane |-> 0]
  /\ cooldown = 0
  /\ run = [b \in Invocation |-> Off]
  /\ rest = 0

At(b, pc) == run[b].pc = pc
Running(b) == ~At(b, "off")

-----------------------------------------------------------------------------
(* Rows of jobs and the calls on them, as JobQueue has them.               *)

Pending(attempts, due) ==
  [NoJob EXCEPT !.status = "pending", !.due = due, !.attempts = attempts]

Leased(row, b) ==
  [row EXCEPT !.status = "leased", !.owner = b, !.expires = LeaseMs,
              !.attempts = row.attempts + 1]

LiveLease(l, b) ==
  job[l].status = "leased" /\ job[l].owner = b /\ job[l].expires > 0

ExhaustedLate(row) == row.attempts > MaxAttempts
Exhausted(row) == row.attempts >= MaxAttempts

\* The head of lease_jobs: expired leases return to the queue or die.
RecycledForever ==
  [l \in Lane |->
    IF job[l].status = "leased" /\ job[l].expires <= 0
    THEN [job[l] EXCEPT !.status = "pending", !.owner = NoInvocation, !.expires = 0]
    ELSE job[l]]
Recycled ==
  [l \in Lane |->
    IF job[l].status = "leased" /\ job[l].expires <= 0
    THEN IF Exhausted(job[l]) THEN NoJob
         ELSE [job[l] EXCEPT !.status = "pending", !.owner = NoInvocation, !.expires = 0]
    ELSE job[l]]

Claimable(table, s) ==
  {l \in Lane : /\ SourceOf[l] = s
                /\ table[l].status = "pending"
                /\ table[l].due <= 0
                /\ ~Exhausted(table[l])}

\* All scheduled jobs have priority 50: the one due first.
First(table, C) == {l \in C : \A k \in C : table[l].due <= table[k].due}

\* Due times are compared with each other, so one that is over still counts
\* how long it has been, up to Horizon.
Older(t) == IF t > -Horizon THEN t - 1 ELSE t
Since(age) == IF age > Horizon THEN -Horizon ELSE -age

\* The intervals of lane l that began since the instant -t.
Back(l, t) == IF t <= phase[l] THEN 0 ELSE (t - phase[l] + Interval[l] - 1) \div Interval[l]

-----------------------------------------------------------------------------
(* The invocation.                                                         *)

Goto(b, pc) == run' = [run EXCEPT ![b].pc = pc]

\* for index in 0..job_limit: the order alternates with index and with the
\* parity of the minute, which is left open.
OtherSource(s) == IF s = "steam" THEN "maintenance" ELSE "steam"
SourceOrder(lead, index) ==
  LET s == IF index % 2 = 0 THEN lead ELSE OtherSource(lead)
  IN  <<s, OtherSource(s)>>

LoopHead(r, index) ==
  IF index < JobLimit
  THEN [r EXCEPT !.pc = "picking", !.index = index, !.lanes = {},
                 !.delay = 0, !.read = 0, !.order = SourceOrder(r.lead, index)]
  ELSE [r EXCEPT !.pc = "releasing"]

\* Once the jobs are chosen the statuses read at the start are not used again.
Scheduled(r) == IF r.todo = {} THEN LoopHead(r, 0) ELSE [r EXCEPT !.pc = "scheduling"]

\* try_acquire_worker_lease, and the statuses read and tested in
\* schedule_due_jobs.  A refused invocation returns "skipped".
LeaseFreeEarly == lease.expires <= 1
LeaseFree == lease.expires <= 0
DueLanes == {l \in Lane : next[l] <= 0}

Invoke(b, lead) ==
  /\ At(b, "off")
  /\ LeaseFree
  /\ lease' = [owner |-> b, expires |-> LeaseMs]
  /\ run' = [run EXCEPT ![b] = Scheduled([Off EXCEPT !.lead = lead, !.todo = DueLanes])]
  /\ UNCHANGED <<job, phase, keys, next, cooldown, rest>>

\* enqueue_job_if_no_active, under the key of the interval that the reading
\* taken at the start falls in.
KeyUsedEver(l, i) == keys[l] # {}
KeyUsed(l, i) == i \in keys[l]

Enqueue(b, l) ==
  /\ At(b, "scheduling")
  /\ l \in run[b].todo
  /\ LET i == Back(l, run[b].age)
         new == job[l].status = "none" /\ ~KeyUsed(l, i)
     IN  /\ job' = IF new THEN [job EXCEPT ![l] = Pending(0, Since(run[b].age))] ELSE job
         /\ keys' = IF new THEN [keys EXCEPT ![l] = @ \cup {i}] ELSE keys
  /\ run' = [run EXCEPT ![b].pc = "enqueued", ![b].lanes = {l}]
  /\ UNCHANGED <<lease, phase, next, cooldown, rest>>

LaneDone(r, l) == Scheduled([r EXCEPT !.todo = @ \ {l}, !.lanes = {}])

Advance(b, l) ==
  /\ At(b, "enqueued")
  /\ l \in run[b].lanes
  /\ next' = [next EXCEPT ![l] = IF Interval[l] > run[b].age THEN Interval[l] - run[b].age ELSE 0]
  /\ run' = [run EXCEPT ![b] = LaneDone(@, l)]
  /\ UNCHANGED <<lease, job, phase, keys, cooldown, rest>>

\* steam_cooldown_active, read before the claim and in a transaction apart.
CoolingDown == cooldown > 0

Look(b) ==
  /\ At(b, "picking")
  /\ run[b].order # <<>>
  /\ Head(run[b].order) = "steam"
  /\ IF CoolingDown THEN run' = [run EXCEPT ![b].order = Tail(@)] ELSE Goto(b, "claiming")
  /\ UNCHANGED <<lease, job, phase, keys, next, cooldown, rest>>

Choosing(b, s) ==
  /\ run[b].order # <<>>
  /\ Head(run[b].order) = s
  /\ IF s = "steam" THEN At(b, "claiming") ELSE At(b, "picking")

\* lease_jobs(owner, 1, LEASE_MS, source)
Claim(b, s) ==
  /\ Choosing(b, s)
  /\ IF Claimable(Recycled, s) = {}
     THEN /\ job' = Recycled
          /\ run' = [run EXCEPT ![b].pc = "picking", ![b].order = Tail(@)]
     ELSE \E l \in First(Recycled, Claimable(Recycled, s)) :
            /\ job' = [Recycled EXCEPT ![l] = Leased(@, b)]
            /\ run' = [run EXCEPT ![b].pc = "working", ![b].lanes = {l}, ![b].order = <<>>]
  /\ UNCHANGED <<lease, phase, keys, next, cooldown, rest>>

NothingLeft(b) ==
  /\ At(b, "picking")
  /\ run[b].order = <<>>
  /\ Goto(b, "releasing")
  /\ UNCHANGED <<lease, job, phase, keys, next, cooldown, rest>>

-----------------------------------------------------------------------------
(* A job: what it does, how it ends, and the status row it leaves.         *)

\* run_job gets through its work; sync_retrieval sets its own next run.
Work(b, l) ==
  /\ At(b, "working")
  /\ l \in run[b].lanes
  /\ next' = IF l \in SelfTimed THEN [next EXCEPT ![l] = Interval[l]] ELSE next
  /\ Goto(b, "worked")
  /\ UNCHANGED <<lease, job, phase, keys, cooldown, rest>>

\* complete_job
Complete(b, l) ==
  /\ At(b, "worked")
  /\ l \in run[b].lanes
  /\ LiveLease(l, b)
  /\ job' = [job EXCEPT ![l] = NoJob]
  /\ Goto(b, "recording")
  /\ UNCHANGED <<lease, phase, keys, next, cooldown, rest>>

\* yield_job, after Continue or at the end of the budget; the result is
\* recorded if a request succeeded.
Yield(b, l) ==
  /\ run[b].pc \in {"working", "worked"}
  /\ l \in run[b].lanes
  /\ LiveLease(l, b)
  /\ job' = [job EXCEPT ![l] = Pending(@.attempts - 1, Continue)]
  /\ \/ Goto(b, "recording")
     \/ run' = [run EXCEPT ![b] = LoopHead(@, @.index + 1)]
  /\ UNCHANGED <<lease, phase, keys, next, cooldown, rest>>

\* fail_job with any category but rate_limited
Fail(b, l) ==
  /\ run[b].pc \in {"working", "worked"}
  /\ l \in run[b].lanes
  /\ LiveLease(l, b)
  /\ \/ job' = [job EXCEPT ![l] = NoJob]
     \/ /\ ~Exhausted(job[l])
        /\ \E delay \in RetryMs : job' = [job EXCEPT ![l] = Pending(@.attempts, delay)]
  /\ Goto(b, "recording")
  /\ UNCHANGED <<lease, phase, keys, next, cooldown, rest>>

\* run_job ends with Steam's answer 429.  For how long is a matter of the
\* invocation alone until it has saved it.
RateLimited(b, delay) ==
  /\ At(b, "working")
  /\ \E l \in run[b].lanes : SourceOf[l] = "steam"
  /\ rest' = IF delay > rest THEN delay ELSE rest
  /\ run' = [run EXCEPT ![b].pc = "limited", ![b].delay = delay]
  /\ UNCHANGED <<lease, job, phase, keys, next, cooldown>>

\* The cooldown counts from the reading the save takes, and the job's wait
\* from the later one of fail_job; the batch ends once the result is recorded.
SaveNothing(b) ==
  /\ At(b, "limited")
  /\ Goto(b, "saved")
  /\ UNCHANGED <<lease, job, phase, keys, next, cooldown, rest>>
SaveCooldown(b) ==
  /\ At(b, "limited")
  /\ cooldown' = run[b].delay
  /\ Goto(b, "saved")
  /\ UNCHANGED <<lease, job, phase, keys, next, rest>>

FailLimited(b, l) ==
  /\ At(b, "saved")
  /\ l \in run[b].lanes
  /\ LiveLease(l, b)
  /\ job' = [job EXCEPT ![l] =
       IF Exhausted(@) THEN NoJob ELSE Pending(@.attempts, run[b].delay)]
  /\ run' = [run EXCEPT ![b].pc = "recording", ![b].index = JobLimit]
  /\ UNCHANGED <<lease, phase, keys, next, cooldown, rest>>

\* record_result reads the status row and writes all of it back, keeping the
\* next run that it read.
Record(b, l) ==
  /\ At(b, "recording")
  /\ l \in run[b].lanes
  /\ run' = [run EXCEPT ![b].pc = "writing", ![b].read = next[l]]
  /\ UNCHANGED <<lease, job, phase, keys, next, cooldown, rest>>

WriteBack(b, l) ==
  /\ At(b, "writing")
  /\ l \in run[b].lanes
  /\ next' = [next EXCEPT ![l] = run[b].read]
  /\ run' = [run EXCEPT ![b] = LoopHead(@, @.index + 1)]
  /\ UNCHANGED <<lease, job, phase, keys, cooldown, rest>>

-----------------------------------------------------------------------------
(* The end of an invocation.                                               *)

\* Rows of a run that is over belong to an owner nobody is any more.
Disowned(b) ==
  [l \in Lane |-> IF job[l].owner = b THEN [job[l] EXCEPT !.owner = NoInvocation]
                  ELSE job[l]]
End(b) ==
  /\ run' = [run EXCEPT ![b] = Off]
  /\ job' = Disowned(b)

\* release_worker_lease: only the owner's lease.
Release(b) ==
  /\ At(b, "releasing")
  /\ lease' = IF lease.owner = b THEN [owner |-> NoInvocation, expires |-> 0] ELSE lease
  /\ End(b)
  /\ UNCHANGED <<phase, keys, next, cooldown, rest>>

\* Time is up, as seen between two lanes or two jobs.
Deadline(b) ==
  /\ run[b].pc \in {"scheduling", "picking"}
  /\ Goto(b, "releasing")
  /\ UNCHANGED <<lease, job, phase, keys, next, cooldown, rest>>

\* What Steam asked of an invocation that stops before it has saved it is
\* known to nobody: nothing can answer for it.
Unasked(b) == IF At(b, "limited") THEN 0 ELSE rest

\* A call to storage returns an error, a lost job lease among them, which
\* ends the batch.
Fault(b) ==
  /\ run[b].pc \notin {"off", "releasing"}
  /\ Goto(b, "releasing")
  /\ rest' = Unasked(b)
  /\ UNCHANGED <<lease, job, phase, keys, next, cooldown>>

\* The process dies, or the platform ends it.
Crash(b) ==
  /\ Running(b)
  /\ lease' = IF lease.owner = b THEN [lease EXCEPT !.owner = NoInvocation] ELSE lease
  /\ End(b)
  /\ rest' = Unasked(b)
  /\ UNCHANGED <<phase, keys, next, cooldown>>

Tick ==
  /\ \A b \in Invocation : run[b].age < MaxRun
  /\ lease' = [lease EXCEPT !.expires = Remaining(@)]
  /\ job' = [l \in Lane |->
       IF job[l].status = "none" THEN NoJob
       ELSE [job[l] EXCEPT !.due = Older(@), !.expires = Remaining(@)]]
  /\ phase' = [l \in Lane |-> (phase[l] + 1) % Interval[l]]
  /\ keys' = [l \in Lane |->
       IF phase[l] + 1 < Interval[l] THEN keys[l]
       ELSE {i \in {k + 1 : k \in keys[l]} : i <= Back(l, MaxRun)}]
  /\ next' = [l \in Lane |-> Remaining(next[l])]
  /\ cooldown' = Remaining(cooldown)
  /\ rest' = Remaining(rest)
  /\ run' = [b \in Invocation |->
       IF Running(b)
       THEN [run[b] EXCEPT !.age = @ + 1, !.read = Remaining(@)]
       ELSE run[b]]

Step(b) ==
  \/ \E l \in Lane :
       \/ Enqueue(b, l) \/ Advance(b, l) \/ Work(b, l) \/ Complete(b, l)
       \/ Yield(b, l) \/ Fail(b, l) \/ FailLimited(b, l)
       \/ Record(b, l) \/ WriteBack(b, l)
  \/ \E s \in Source : Claim(b, s)
  \/ \E delay \in RestMs : RateLimited(b, delay)
  \/ SaveCooldown(b)
  \/ Look(b)
  \/ NothingLeft(b)
  \/ Release(b)

Invoked == \E b \in Invocation, lead \in Source : Invoke(b, lead)
Cut == \E b \in Invocation : Crash(b) \/ Fault(b)
OutOfTime == \E b \in Invocation : Deadline(b)

Next ==
  \/ Invoked
  \/ \E b \in Invocation : Step(b)
  \/ Cut
  \/ OutOfTime
  \/ Tick

Spec == Init /\ [][Next]_vars

\* Cron keeps invoking, and an invocation that is not cut off goes on.
FairSpec ==
  /\ Spec
  /\ WF_vars(Tick)
  /\ WF_vars(Invoked)
  /\ \A b \in Invocation : WF_vars(Step(b))

-----------------------------------------------------------------------------
(* Correctness.                                                            *)

\* The state has the shape its declarations give it.
TypeOK ==
  /\ lease \in [owner : Invocation \cup {NoInvocation}, expires : 0..LeaseMs]
  /\ job \in [Lane -> [status : {"none", "pending", "leased"},
                       owner : Invocation \cup {NoInvocation}, expires : Int,
                       due : Int, attempts : 0..MaxAttempts]]
  /\ phase \in [Lane -> Nat]
  /\ keys \in [Lane -> SUBSET Nat]
  /\ next \in [Lane -> Nat]
  /\ cooldown \in Nat
  /\ rest \in Nat
  /\ run \in [Invocation ->
       [pc : Pcs, age : 0..MaxRun, todo : SUBSET Lane, lead : Source,
        index : 0..JobLimit, order : Seq(Source), lanes : SUBSET Lane,
        delay : Nat, read : Nat]]

\* "Duplicate deliveries return `skipped` while the live owner's lease remains
\* valid" (run_batch): two invocations are never both within their lease.
LeaseExcludes ==
  \A b, c \in Invocation :
    Running(b) /\ Running(c) /\ run[b].age < LeaseMs /\ run[c].age < LeaseMs => b = c

\* When no invocation outlives its lease, no batch works on a Steam job, of
\* whatever lane, for as long after a rate limit as Steam asked for: though
\* the cooldown is looked up in a transaction apart from the claim, and though
\* the invocation may die right after it has saved the cooldown and its job
\* become claimable again before the time is over.  Until the save the request
\* is known to the invocation alone and dies with it (Unasked); and the job
\* that was limited may wait longer than the cooldown lasts.
AtWorkOnSteam ==
  \E b \in Invocation : \E l \in run[b].lanes :
    SourceOf[l] = "steam" /\ run[b].pc \in {"working", "worked"}

SteamIsLeftAlone ==
  MaxRun < LeaseMs /\ rest > 0 => ~AtWorkOnSteam

\* No lane is lost: crashes, lost statuses, used keys, dead jobs and
\* cooldowns delay a lane, but it is run again and again, provided that cuts
\* end and that its source is the first choice of a batch again and again,
\* while Steam, if that is its source, is not cooling down.
Leads(s) ==
  \E b \in Invocation :
    /\ run[b].order # <<>>
    /\ run[b].index = 0
    /\ Head(run[b].order) = s
    /\ s = "steam" => ~CoolingDown

LaneRuns(l) == \E b \in Invocation : At(b, "working") /\ l \in run[b].lanes

NoLaneIsLost ==
  <>[][~(Cut \/ OutOfTime)]_vars =>
    \A l \in Lane : []<>Leads(SourceOf[l]) => []<>LaneRuns(l)
=============================================================================
