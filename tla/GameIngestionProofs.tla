------------------------- MODULE GameIngestionProofs -------------------------
(***************************************************************************)
(* Proofs about GameIngestion for every set of apps, workers, limits,      *)
(* delays and clock lags.  As in JobQueueProofs, the invariant is a        *)
(* predicate on rows; RowStep lists the ways a call rewrites a row, and    *)
(* each theorem is a fact about those.                                     *)
(***************************************************************************)
EXTENDS GameIngestion, TLAPS

\* What holds of every row: FailuresAccounted, OnlyOpenTasksAreHeld, and that
\* the status and the stage agree on completion.
RowInv(row) ==
  /\ row \in Row
  /\ row.owner # NoOwner => row.status \in Open
  /\ row.status = "complete" <=> row.stage = "complete"
  /\ row.status = "absent" => row.stage = "store_details"
  /\ row.status \in Open /\ row.error \in Deterministic \cup Transient =>
       row.fails < LimitOf(row.error)
  /\ row.status = "dead" => row.error \notin Global /\ row.fails >= LimitOf(row.error)
  /\ row.status = "complete" => row.fails = 0
  /\ row.expires >= Past

Inv ==
  /\ tasks \in [App -> Row]
  /\ pausedUntil \in Int
  /\ released \subseteq App
  /\ \A a \in App : RowInv(tasks[a])

-----------------------------------------------------------------------------
(* What one step does to one row.                                          *)

RowAged(row, new) == new = [row EXCEPT !.due = Older(@), !.expires = Older(@)]

RowQueued(row, new) ==
  /\ row.status = "absent"
  /\ \E profile \in Profile, due \in Int :
       new = [Absent EXCEPT !.status = "pending", !.profile = profile, !.due = due]

\* A lease that has expired on the fastest clock is cleared or replaced.
RowUnleased(row, new) == row.expires <= 0 /\ new = Unlease(row)

RowTaken(row, new) ==
  /\ row.status \in Open
  /\ row.expires <= 0
  /\ \E o \in Owner, expires \in Int : expires >= Past /\ new = [row EXCEPT !.owner = o, !.expires = expires]

RowDeferred(row, new) ==
  /\ row.status \in Open
  /\ row.owner \in Owner
  /\ \E due \in Int : new = [Unlease(row) EXCEPT !.due = due]

RowAdvanced(row, new) ==
  /\ row.owner \in Owner
  /\ row.stage # "complete"
  /\ \E profile \in Profile, due \in Int :
       new = Advanced(row, NextStage(row.stage, profile), profile, due)

RowFailed(row, new) ==
  /\ row.owner \in Owner
  /\ \E category \in Category \ Global, due \in Int :
       new = Failed(row, category, due)

RowPaused(row, new) ==
  /\ row.owner \in Owner
  /\ \E category \in Category \cap Global, due \in Int :
       new = [Unlease(row) EXCEPT !.status = "retry", !.due = due, !.error = category]

RowRequeued(row, new) ==
  /\ row.status = "dead"
  /\ \E due \in Int : new = Requeued(row, due)

\* Every way but a claim.
QuietStep(row, new) ==
  \/ new = row \/ RowAged(row, new) \/ RowQueued(row, new) \/ RowUnleased(row, new)
  \/ RowDeferred(row, new) \/ RowAdvanced(row, new)
  \/ RowFailed(row, new) \/ RowPaused(row, new) \/ RowRequeued(row, new)

RowStep(row, new) == RowTaken(row, new) \/ QuietStep(row, new)

IsTable(f) == f = [a \in App |-> f[a]]

\* Clock readings lie between -MaxLag and the present; the limits are counts.
LEMMA Numbers ==
  /\ Past \in Int
  /\ Past <= 0
  /\ \A now \in Reading : now \in Int /\ now <= 0
  /\ \A t \in Int : Older(t) \in Int /\ (t > 0 => Older(t) = t - 1)
  /\ \A t \in Int : t >= Past => Older(t) >= Past /\ Older(t) <= t
  /\ \A now \in Reading : now >= Past
  /\ \A category : LimitOf(category) \in Nat \ {0}
  BY IngestionAssumption DEF Past, Reading, Older, LimitOf

\* The columns of a row, one by one.
LEMMA RowFields ==
  ASSUME NEW row \in Row
  PROVE  /\ row.status \in Status /\ row.stage \in Stage /\ row.profile \in Profile
         /\ row.fails \in Nat /\ row.due \in Int /\ row.expires \in Int
         /\ row.owner \in Owner \cup {NoOwner} /\ row.error \in Category \cup {NoError}
  BY DEF Row

\* Clearing a lease touches the lease alone.
LEMMA UnleaseFields ==
  ASSUME NEW row \in Row
  PROVE  /\ Unlease(row) \in Row
         /\ Unlease(row).owner = NoOwner
         /\ Unlease(row).expires = Past
         /\ Unlease(row).status = row.status
         /\ Unlease(row).stage = row.stage
         /\ Unlease(row).profile = row.profile
         /\ Unlease(row).fails = row.fails
         /\ Unlease(row).error = row.error
  BY Numbers DEF Row, Unlease

\* The row after advance_stage, field by field.
LEMMA AdvancedFields ==
  ASSUME NEW row \in Row, NEW profile \in Profile, NEW stage \in Stage, NEW due \in Int
  PROVE  LET new == Advanced(row, stage, profile, due) IN
         /\ new \in Row
         /\ new.stage = stage
         /\ new.profile = profile
         /\ new.fails = 0
         /\ new.error = NoError
         /\ stage = "complete" => new.status = "complete" /\ new.owner = NoOwner
         /\ stage # "complete" => new.status = "pending" /\ new.owner = row.owner
         /\ new.expires = IF stage = "complete" THEN Past ELSE row.expires
<1> DEFINE next == [row EXCEPT !.stage = stage, !.profile = profile, !.fails = 0,
                               !.due = due, !.error = NoError, !.status = "pending"]
<1>1. /\ next \in Row
      /\ next.stage = stage /\ next.profile = profile /\ next.fails = 0
      /\ next.error = NoError /\ next.status = "pending" /\ next.owner = row.owner
      /\ next.expires = row.expires
  BY DEF Row, Status, Open
<1> HIDE DEF next
<1>2. [Unlease(next) EXCEPT !.status = "complete"] \in Row
  BY <1>1, UnleaseFields DEF Row, Status
<1>3. LET done == [Unlease(next) EXCEPT !.status = "complete"] IN
      /\ done.status = "complete" /\ done.owner = NoOwner /\ done.expires = Past
      /\ done.stage = stage /\ done.profile = profile /\ done.fails = 0
      /\ done.error = NoError
  BY <1>1, UnleaseFields DEF Row
<1>4. Advanced(row, stage, profile, due) =
        IF stage = "complete" THEN [Unlease(next) EXCEPT !.status = "complete"] ELSE next
  BY DEF Advanced, next
<1>. QED
  BY <1>1, <1>2, <1>3, <1>4

\* The next stage is a stage, and no stage is followed by store_details.
LEMMA NextStageType ==
  ASSUME NEW stage \in Stage, NEW profile \in Profile
  PROVE  /\ NextStage(stage, profile) \in Stage
         /\ NextStage(stage, profile) # "store_details"
  BY DEF NextStage, Stage, Profile, Basic

\* Whatever way a row is rewritten, it keeps the row invariant.
LEMMA RowStepInv ==
  ASSUME NEW row, RowInv(row), NEW new, RowStep(row, new)
  PROVE  RowInv(new)
<1>0. row \in Row /\ row.owner \in Owner \cup {NoOwner} /\ row.fails \in Nat
  BY RowFields DEF RowInv
<1>1. CASE new = row
  BY <1>1
<1>2. CASE RowAged(row, new)
  <2>1. new \in Row
    BY <1>0, <1>2, Numbers DEF RowAged, Row
  <2>2. /\ new.status = row.status /\ new.stage = row.stage /\ new.fails = row.fails
        /\ new.owner = row.owner /\ new.error = row.error
        /\ new.expires = Older(row.expires)
    BY <1>0, <1>2 DEF RowAged, Row
  <2>. QED
    BY <1>0, <2>1, <2>2, Numbers, RowFields DEF RowInv
<1>3. CASE RowQueued(row, new)
  <2>1. PICK profile \in Profile, due \in Int :
          new = [Absent EXCEPT !.status = "pending", !.profile = profile, !.due = due]
    BY <1>3 DEF RowQueued
  <2>2. new \in Row
    BY <2>1, Numbers DEF Absent, Row, Status, Open, Stage
  <2>3. /\ new.status = "pending" /\ new.stage = "store_details"
        /\ new.owner = NoOwner /\ new.error = NoError /\ new.expires = Past
    BY <2>1 DEF Absent
  <2>. QED
    BY <2>2, <2>3, Numbers, IngestionAssumption DEF RowInv, Open
<1>4. CASE RowUnleased(row, new)
  BY <1>0, <1>4, Numbers, UnleaseFields DEF RowUnleased, RowInv
<1>5. CASE RowTaken(row, new)
  <2>1. PICK o \in Owner, expires \in Int :
          expires >= Past /\ new = [row EXCEPT !.owner = o, !.expires = expires]
    BY <1>5 DEF RowTaken
  <2>2. /\ new \in Row
        /\ new.status = row.status /\ new.stage = row.stage /\ new.fails = row.fails
        /\ new.error = row.error /\ new.expires >= Past
    BY <1>0, <2>1 DEF Row
  <2>. QED
    BY <1>5, <2>2 DEF RowTaken, RowInv
<1>6. CASE RowDeferred(row, new)
  <2>1. PICK due \in Int : new = [Unlease(row) EXCEPT !.due = due]
    BY <1>6 DEF RowDeferred
  <2>2. /\ new \in Row
        /\ new.status = row.status /\ new.stage = row.stage /\ new.fails = row.fails
        /\ new.error = row.error /\ new.owner = NoOwner /\ new.expires = Past
    BY <1>0, <2>1, UnleaseFields DEF Row
  <2>. QED
    BY <2>2, Numbers DEF RowInv
<1>7. CASE RowAdvanced(row, new)
  <2>1. PICK profile \in Profile, due \in Int :
          new = Advanced(row, NextStage(row.stage, profile), profile, due)
    BY <1>7 DEF RowAdvanced
  <2>2. NextStage(row.stage, profile) \in Stage
    BY <1>0, RowFields, NextStageType
  <2>3. CASE NextStage(row.stage, profile) = "complete"
    <3>1. /\ new \in Row
          /\ new.status = "complete" /\ new.stage = "complete" /\ new.fails = 0
          /\ new.owner = NoOwner /\ new.expires = Past
      BY <1>0, <2>1, <2>2, <2>3, AdvancedFields
    <3>. QED
      BY <3>1, Numbers DEF RowInv, Open
  <2>4. CASE NextStage(row.stage, profile) # "complete"
    BY <1>0, <2>1, <2>2, <2>4, AdvancedFields, IngestionAssumption DEF RowInv, Open
  <2>. QED
    BY <2>3, <2>4
<1>8. CASE RowFailed(row, new)
  <2>1. PICK category \in Category \ Global, due \in Int :
          new = Failed(row, category, due)
    BY <1>8 DEF RowFailed
  <2>2. /\ new.status = IF Fatal(row, category) THEN "dead" ELSE "retry"
        /\ new.stage = row.stage /\ new.fails = row.fails + 1
        /\ new.error = category /\ new.owner = NoOwner /\ new.expires = Past
    BY <1>0, <2>1, UnleaseFields DEF Row, Failed
  <2>3. new \in Row
    <3>1. \A status \in Status, n \in Nat :
            [Unlease(row) EXCEPT !.status = status, !.fails = n, !.due = due,
                                 !.error = category] \in Row
      BY <1>0, UnleaseFields DEF Row
    <3>2. row.fails + 1 \in Nat /\ Unlease(row).fails = row.fails
      BY <1>0, UnleaseFields
    <3>. QED
      BY <2>1, <3>1, <3>2 DEF Status, Open, Failed
  <2>4. row.status # "complete" /\ row.stage # "complete"
    BY <1>8, IngestionAssumption DEF RowFailed, RowInv, Open
  <2>5. Fatal(row, category) <=> new.fails >= LimitOf(category)
    BY <2>2 DEF Fatal
  <2>. QED
    BY <1>0, <2>2, <2>3, <2>4, <2>5, Numbers DEF RowInv, Open
<1>9. CASE RowPaused(row, new)
  <2>1. PICK category \in Category \cap Global, due \in Int :
          new = [Unlease(row) EXCEPT !.status = "retry", !.due = due, !.error = category]
    BY <1>9 DEF RowPaused
  <2>2. /\ new \in Row
        /\ new.status = "retry" /\ new.stage = row.stage
        /\ new.error = category /\ new.owner = NoOwner /\ new.expires = Past
    BY <1>0, <2>1, UnleaseFields DEF Row, Status, Open
  <2>3. row.stage # "complete"
    BY <1>9, IngestionAssumption DEF RowPaused, RowInv, Open
  <2>4. category \notin Deterministic \cup Transient
    BY <2>1 DEF Global, Deterministic, Transient
  <2>. QED
    BY <2>2, <2>3, <2>4, Numbers DEF RowInv, Open
<1>10. CASE RowRequeued(row, new)
  <2>1. PICK due \in Int : new = Requeued(row, due)
    BY <1>10 DEF RowRequeued
  <2>2. /\ new \in Row
        /\ new.status = "pending" /\ new.stage = row.stage
        /\ new.error = NoError /\ new.owner = NoOwner /\ new.expires = Past
    BY <1>0, <2>1, UnleaseFields DEF Requeued, Row, Status, Open
  <2>. QED
    BY <1>10, <2>2, Numbers, IngestionAssumption DEF RowRequeued, RowInv, Open
<1>. QED
  BY <1>1, <1>2, <1>3, <1>4, <1>5, <1>6, <1>7, <1>8, <1>9, <1>10 DEF RowStep, QuietStep

-----------------------------------------------------------------------------
(* Every call rewrites rows by row steps.                                  *)

AllQuiet == IsTable(tasks') /\ \A a \in App : QuietStep(tasks[a], tasks'[a])

\* A call that rewrites one row leaves the others alone.
LEMMA OneRow ==
  ASSUME Inv, NEW a \in App, NEW new, tasks' = [tasks EXCEPT ![a] = new],
         QuietStep(tasks[a], new)
  PROVE  AllQuiet
  BY DEF Inv, AllQuiet, IsTable, QuietStep

\* advance_stage, defer_ingestion_job and retry_stage move one task of their
\* caller.
LEMMA WorkSteps == Inv /\ Work => AllQuiet
<1> SUFFICES ASSUME Inv, NEW a \in App, NEW o \in Owner, NEW now \in Reading,
                    \/ AdvanceStage(a, o, now)
                    \/ \E delay \in DelayMs : DeferIngestionJob(a, o, delay, now)
                    \/ \E category \in Category, delay \in DelayMs \ {0} :
                         RetryStage(a, o, category, delay, now)
             PROVE  AllQuiet
  BY DEF Work
<1>0. now \in Int /\ tasks[a] \in Row
  BY Numbers DEF Inv
<1>1. CASE AdvanceStage(a, o, now)
  <2>1. CurrentProfile(a) \in Profile
    BY <1>0, RowFields DEF CurrentProfile, Profile
  <2>2. RowAdvanced(tasks[a], Advanced(tasks[a], NextStage(tasks[a].stage, CurrentProfile(a)),
                                       CurrentProfile(a), now))
    BY <1>0, <1>1, <2>1 DEF AdvanceStage, LiveLease, RowAdvanced
  <2>. QED
    BY <1>1, <2>2, OneRow DEF AdvanceStage, QuietStep
<1>2. ASSUME NEW delay \in DelayMs, DeferIngestionJob(a, o, delay, now)
      PROVE  AllQuiet
  <2>1. now + delay \in Int
    BY <1>0, IngestionAssumption
  <2>2. RowDeferred(tasks[a], [Unlease(tasks[a]) EXCEPT !.due = now + delay])
    BY <1>2, <2>1 DEF DeferIngestionJob, LiveLease, RowDeferred
  <2>. QED
    BY <1>2, <2>2, OneRow DEF DeferIngestionJob, QuietStep
<1>3. ASSUME NEW category \in Category, NEW delay \in DelayMs \ {0},
             RetryStage(a, o, category, delay, now)
      PROVE  AllQuiet
  <2>1. (IF Fatal(tasks[a], category) THEN now ELSE now + delay) \in Int
    BY <1>0, IngestionAssumption
  <2>. QED
    BY <1>3, <2>1, OneRow DEF RetryStage, LiveLease, QuietStep, RowFailed
<1>. QED
  BY <1>1, <1>2, <1>3

\* pause_lane gives back the tasks of its caller.
LEMMA PauseSteps == Inv /\ Pause => AllQuiet /\ pausedUntil' \in Int
<1> SUFFICES ASSUME Inv, NEW o \in Owner, NEW category \in Category,
                    NEW delay \in DelayMs \ {0}, NEW now \in Reading,
                    PauseLane(o, category, delay, now)
             PROVE  AllQuiet /\ pausedUntil' \in Int
  BY DEF Pause
<1>1. pausedUntil' \in Int
  <2>1. now + delay \in Int
    BY Numbers, IngestionAssumption
  <2>. QED
    BY <2>1 DEF PauseLane, LongestPause, Inv
<1>. QED
  BY <1>1 DEF PauseLane, AllQuiet, IsTable, QuietStep, RowPaused

\* Discoveries, recoveries and requeues.
LEMMA OperateSteps == Inv /\ Operate => AllQuiet
<1> SUFFICES ASSUME Inv, NEW now \in Reading,
                    \/ RecoverLeases(now)
                    \/ \E a \in App : QueueNewApp(a, now) \/ RequeueDeadTask(a, now)
             PROVE  AllQuiet
  BY DEF Operate
<1>0. now \in Int /\ now <= 0
  BY Numbers
<1>1. CASE RecoverLeases(now)
  <2>1. ASSUME NEW a \in App
        PROVE  QuietStep(tasks[a], tasks'[a])
    <3>1. tasks[a].expires \in Int
      BY RowFields DEF Inv
    <3>. QED
      BY <1>0, <1>1, <3>1 DEF RecoverLeases, QuietStep, RowUnleased
  <2>. QED
    BY <1>1, <2>1 DEF RecoverLeases, AllQuiet, IsTable
<1>2. ASSUME NEW a \in App, QueueNewApp(a, now)
      PROVE  AllQuiet
  <2>1. PICK profile \in ProfilesOf(a) :
          tasks' = [tasks EXCEPT ![a] =
            [Absent EXCEPT !.status = "pending", !.profile = profile, !.due = now]]
    BY <1>2 DEF QueueNewApp
  <2>2. profile \in Profile
    BY <2>1 DEF ProfilesOf, Profile, Basic
  <2>3. RowQueued(tasks[a],
          [Absent EXCEPT !.status = "pending", !.profile = profile, !.due = now])
    BY <1>0, <1>2, <2>2 DEF QueueNewApp, RowQueued
  <2>. QED
    BY <2>1, <2>3, OneRow DEF QuietStep
<1>3. ASSUME NEW a \in App, RequeueDeadTask(a, now)
      PROVE  AllQuiet
  BY <1>0, <1>3, OneRow DEF RequeueDeadTask, QuietStep, RowRequeued
<1>. QED
  BY <1>1, <1>2, <1>3

\* claim_tasks takes open tasks whose lease, if any, has expired.
LEMMA ClaimSteps == Inv /\ Claim => IsTable(tasks') /\ \A a \in App : RowStep(tasks[a], tasks'[a])
<1> SUFFICES ASSUME Inv, NEW o \in Owner, NEW n \in Limit, NEW lease \in LeaseMs,
                    NEW now \in Reading, NEW locked,
                    ClaimTasks(o, n, lease, now, locked)
             PROVE  IsTable(tasks') /\ \A a \in App : RowStep(tasks[a], tasks'[a])
  BY DEF Claim
<1>1. PICK S \in SUBSET Claimable(now) :
        tasks' = [a \in App |->
          IF a \in S THEN [tasks[a] EXCEPT !.owner = o, !.expires = now + lease]
          ELSE tasks[a]]
  BY DEF ClaimTasks, Batches
<1>2. now + lease \in Int /\ now + lease >= Past
  BY Numbers, IngestionAssumption
<1>3. ASSUME NEW a \in App
      PROVE  RowStep(tasks[a], tasks'[a])
  <2>1. CASE a \in S
    <3>1. tasks[a].status \in Open /\ tasks[a].expires <= now
      BY <1>1, <2>1 DEF Claimable
    <3>2. tasks[a].expires \in Int
      BY RowFields DEF Inv
    <3>3. tasks[a].expires <= 0
      BY <3>1, <3>2, Numbers
    <3>. QED
      BY <1>1, <1>2, <2>1, <3>1, <3>3 DEF RowStep, RowTaken
  <2>2. CASE a \notin S
    BY <1>1, <2>2 DEF RowStep, QuietStep
  <2>. QED
    BY <2>1, <2>2
<1>. QED
  BY <1>1, <1>3 DEF IsTable

\* Every step but a claim rewrites every row quietly.
LEMMA QuietNext == Inv /\ [Next]_vars /\ ~Claim => AllQuiet
<1> SUFFICES ASSUME Inv, [Next]_vars, ~Claim
             PROVE  AllQuiet
  OBVIOUS
<1>1. CASE Tick
  BY <1>1 DEF Tick, AllQuiet, IsTable, QuietStep, RowAged
<1>2. CASE UNCHANGED tasks
  BY <1>2 DEF AllQuiet, IsTable, QuietStep, Inv
<1>. QED
  BY <1>1, <1>2, WorkSteps, PauseSteps, OperateSteps DEF Next, vars, ChangeRelease

\* Every step of the specification rewrites every row by a row step.
LEMMA NextSteps ==
  Inv /\ [Next]_vars => IsTable(tasks') /\ \A a \in App : RowStep(tasks[a], tasks'[a])
  BY ClaimSteps, QuietNext DEF AllQuiet, RowStep

\* The invariant holds of the empty queue.
LEMMA InitInv == Init => Inv
<1>1. Absent \in Row
  BY Numbers DEF Absent, Row, Status, Stage, Profile
<1>2. RowInv(Absent)
  BY <1>1, Numbers, IngestionAssumption DEF Absent, RowInv, Open
<1>. QED
  BY <1>1, <1>2, Numbers DEF Init, Inv

\* Every step preserves the invariant.
LEMMA NextInv == Inv /\ [Next]_vars => Inv'
<1> SUFFICES ASSUME Inv, [Next]_vars
             PROVE  Inv'
  OBVIOUS
<1>1. IsTable(tasks') /\ \A a \in App : RowStep(tasks[a], tasks'[a])
  BY NextSteps
<1>2. \A a \in App : RowInv(tasks'[a])
  BY <1>1, RowStepInv DEF Inv
<1>3. tasks' \in [App -> Row]
  BY <1>1, <1>2 DEF IsTable, RowInv
<1>4. pausedUntil' \in Int
  BY PauseSteps, Numbers
     DEF Next, vars, Inv, Claim, ClaimTasks, Work, AdvanceStage, DeferIngestionJob, RetryStage,
         Operate, RecoverLeases, QueueNewApp, RequeueDeadTask, ChangeRelease, Tick
<1>5. released' \subseteq App
  BY DEF Next, vars, Inv, Claim, ClaimTasks, Work, AdvanceStage, DeferIngestionJob, RetryStage,
         Pause, PauseLane, Operate, RecoverLeases, QueueNewApp, RequeueDeadTask,
         ChangeRelease, Tick
<1>. QED
  BY <1>2, <1>3, <1>4, <1>5 DEF Inv

\* In every reachable state every row satisfies RowInv.
THEOREM Invariance == Spec => []Inv
  BY InitInv, NextInv, PTL DEF Spec

\* The queue keeps the shape the schema declares.
THEOREM TypeCorrect == Spec => []TypeOK
<1>1. Inv => TypeOK
  BY DEF Inv, TypeOK
<1>. QED
  BY <1>1, Invariance, PTL

\* A complete or dead task has no owner, so pause_lane, which rewrites the
\* status of every row its caller owns, cannot bring one back to life.
THEOREM HeldTasksAreOpen == Spec => []OnlyOpenTasksAreHeld
<1>1. Inv => OnlyOpenTasksAreHeld
  BY DEF Inv, RowInv, OnlyOpenTasksAreHeld
<1>. QED
  BY <1>1, Invariance, PTL

\* retry_stage, pause_lane, advance_stage and requeue_dead_task keep the
\* failure counter of a task within the limit of the failure it saw last.
THEOREM FailuresAreAccounted == Spec => []FailuresAccounted
<1>1. Inv => FailuresAccounted
  BY DEF Inv, RowInv, FailuresAccounted
<1>. QED
  BY <1>1, Invariance, PTL

-----------------------------------------------------------------------------
(* A paused lane.                                                          *)

\* A quiet step gives a task to nobody and extends no lease.
LEMMA QuietKeepsLease ==
  ASSUME NEW row, RowInv(row), NEW new, QuietStep(row, new)
  PROVE  new.owner \in {row.owner, NoOwner} /\ new.expires <= row.expires
<1>0. row \in Row /\ row.expires \in Int /\ row.expires >= Past /\ Past \in Int
  BY RowFields, Numbers DEF RowInv
<1>1. CASE new = row
  BY <1>0, <1>1
<1>2. CASE RowAged(row, new)
  <2>1. new.owner = row.owner /\ new.expires = Older(row.expires)
    BY <1>0, <1>2 DEF RowAged, Row
  <2>. QED
    BY <1>0, <2>1, Numbers
<1>3. CASE RowQueued(row, new)
  <2>1. new.owner = NoOwner /\ new.expires = Past
    BY <1>3 DEF RowQueued, Absent
  <2>. QED
    BY <1>0, <2>1
<1>4. CASE RowAdvanced(row, new)
  <2>1. PICK profile \in Profile, due \in Int :
          new = Advanced(row, NextStage(row.stage, profile), profile, due)
    BY <1>4 DEF RowAdvanced
  <2>2. NextStage(row.stage, profile) \in Stage
    BY <1>0, RowFields, NextStageType
  <2>. QED
    BY <1>0, <2>1, <2>2, AdvancedFields
<1>5. CASE \/ RowUnleased(row, new) \/ RowDeferred(row, new) \/ RowFailed(row, new)
           \/ RowPaused(row, new) \/ RowRequeued(row, new)
  <2>1. new.owner = NoOwner /\ new.expires = Past
    BY <1>0, <1>5, UnleaseFields
       DEF RowUnleased, RowDeferred, RowFailed, Failed, RowPaused, RowRequeued, Requeued, Row
  <2>. QED
    BY <1>0, <2>1
<1>. QED
  BY <1>1, <1>2, <1>3, <1>4, <1>5 DEF QuietStep

\* While the lane is paused nobody takes a task or extends a lease, however
\* far the caller's clock lags, and no shorter pause replaces a longer one.
THEOREM PausedLanesHold == Spec => PauseHolds
<1> DEFINE Holds ==
             pausedUntil > 0 =>
               /\ pausedUntil' >= pausedUntil \/ Tick
               /\ \A a \in App :
                    /\ tasks'[a].owner \in {tasks[a].owner, NoOwner}
                    /\ tasks'[a].expires <= tasks[a].expires
<1>1. Inv /\ [Next]_vars => [Holds]_vars
  <2> SUFFICES ASSUME Inv, [Next]_vars, pausedUntil > 0
               PROVE  /\ pausedUntil' >= pausedUntil \/ Tick
                      /\ \A a \in App :
                           /\ tasks'[a].owner \in {tasks[a].owner, NoOwner}
                           /\ tasks'[a].expires <= tasks[a].expires
    OBVIOUS
  <2>0. pausedUntil \in Int
    BY DEF Inv
  <2>1. ~Claim
    <3>1. \A now \in Reading : pausedUntil > now
      BY <2>0, Numbers
    <3>. QED
      BY <3>1 DEF Claim, ClaimTasks, LanePaused
  <2>2. \A a \in App : QuietStep(tasks[a], tasks'[a])
    BY <2>1, QuietNext DEF AllQuiet
  <2>3. pausedUntil' >= pausedUntil \/ Tick
    <3>1. CASE Pause
      <4>1. PICK o \in Owner, category \in Category, delay \in DelayMs \ {0},
                 now \in Reading : PauseLane(o, category, delay, now)
        BY <3>1 DEF Pause
      <4>2. now + delay \in Int
        BY Numbers, IngestionAssumption
      <4>3. pausedUntil' = IF pausedUntil > now + delay THEN pausedUntil ELSE now + delay
        BY <4>1 DEF PauseLane, LongestPause
      <4>. QED
        BY <2>0, <4>2, <4>3
    <3>2. CASE Tick
      BY <3>2
    <3>3. CASE pausedUntil' = pausedUntil
      BY <2>0, <3>3
    <3>. QED
      BY <2>1, <3>1, <3>2, <3>3
         DEF Next, vars, Work, AdvanceStage, DeferIngestionJob, RetryStage,
             Operate, RecoverLeases, QueueNewApp, RequeueDeadTask, ChangeRelease
  <2>. QED
    BY <2>2, <2>3, QuietKeepsLease DEF Inv
<1>. QED
  BY <1>1, Invariance, PTL DEF Spec, PauseHolds

-----------------------------------------------------------------------------
(* A live lease is its owner's alone.                                      *)

\* Until its lease has expired on every clock a task stays with its owner,
\* at its stage, status and failure count, or is moved by a call of its owner.
THEOREM LiveLeasesAreExclusive == Spec => OnlyItsOwnerMovesALeasedTask
<1> DEFINE Exclusive ==
             \A a \in App :
               tasks[a].owner # NoOwner /\ tasks[a].expires > 0 =>
                 \/ /\ tasks'[a].owner = tasks[a].owner
                    /\ <<tasks'[a].stage, tasks'[a].status, tasks'[a].fails>> =
                         <<tasks[a].stage, tasks[a].status, tasks[a].fails>>
                 \/ OwnerMoves(a)
<1>1. Inv /\ [Next]_vars => [Exclusive]_vars
  <2> SUFFICES ASSUME Inv, [Next]_vars, NEW a \in App,
                      tasks[a].owner # NoOwner, tasks[a].expires > 0
               PROVE  \/ /\ tasks'[a].owner = tasks[a].owner
                         /\ <<tasks'[a].stage, tasks'[a].status, tasks'[a].fails>> =
                              <<tasks[a].stage, tasks[a].status, tasks[a].fails>>
                      \/ OwnerMoves(a)
    OBVIOUS
  <2>0. /\ tasks[a] \in Row /\ tasks[a].expires \in Int /\ tasks \in [App -> Row]
        /\ tasks[a].status \in Open
    BY RowFields DEF Inv, RowInv
  <2>1. \A now \in Reading : ~(tasks[a].expires <= now)
    BY <2>0, Numbers
  <2>2. CASE Claim
    <3>1. PICK o \in Owner, n \in Limit, lease \in LeaseMs, now \in Reading :
            \E locked \in SUBSET {b \in App : tasks[b].owner # NoOwner} :
              ClaimTasks(o, n, lease, now, locked)
      BY <2>2 DEF Claim
    <3>2. a \notin Claimable(now)
      BY <2>1 DEF Claimable
    <3>3. tasks'[a] = tasks[a]
      BY <3>1, <3>2 DEF ClaimTasks, Batches
    <3>. QED
      BY <3>3
  <2>3. CASE Work
    <3>1. PICK b \in App, o \in Owner, now \in Reading :
            \/ AdvanceStage(b, o, now)
            \/ \E delay \in DelayMs : DeferIngestionJob(b, o, delay, now)
            \/ \E category \in Category, delay \in DelayMs \ {0} :
                 RetryStage(b, o, category, delay, now)
      BY <2>3 DEF Work
    <3>2. CASE a = b
      <4>1. o = tasks[a].owner
        BY <3>1, <3>2 DEF AdvanceStage, DeferIngestionJob, RetryStage, LiveLease
      <4>. QED
        BY <3>1, <3>2, <4>1 DEF OwnerMoves
    <3>3. CASE a # b
      BY <2>0, <3>1, <3>3 DEF AdvanceStage, DeferIngestionJob, RetryStage
    <3>. QED
      BY <3>2, <3>3
  <2>4. CASE Pause
    <3>1. PICK o \in Owner, category \in Category, delay \in DelayMs \ {0},
               now \in Reading : PauseLane(o, category, delay, now)
      BY <2>4 DEF Pause
    <3>2. CASE o = tasks[a].owner
      BY <3>1, <3>2 DEF OwnerMoves
    <3>3. CASE o # tasks[a].owner
      BY <3>1, <3>3 DEF PauseLane
    <3>. QED
      BY <3>2, <3>3
  <2>5. CASE Operate
    <3>1. PICK now \in Reading :
            \/ RecoverLeases(now)
            \/ \E b \in App : QueueNewApp(b, now) \/ RequeueDeadTask(b, now)
      BY <2>5 DEF Operate
    <3>. QED
      BY <2>0, <2>1, <3>1 DEF RecoverLeases, QueueNewApp, RequeueDeadTask, Open
  <2>6. CASE Tick
    <3>1. tasks'[a] = [tasks[a] EXCEPT !.due = Older(@), !.expires = Older(@)]
      BY <2>6 DEF Tick
    <3>. QED
      BY <2>0, <3>1 DEF Row
  <2>. QED
    BY <2>2, <2>3, <2>4, <2>5, <2>6 DEF Next, vars, ChangeRelease
<1>. QED
  BY <1>1, Invariance, PTL DEF Spec, OnlyItsOwnerMovesALeasedTask

-----------------------------------------------------------------------------
(* The queue implements IngestionPipeline.                                 *)

PhaseOf(row) == IF row.status \in Open THEN "open" ELSE row.status

\* The mapped variables of one row, in the types of the pipeline.
LEMMA RowMaps ==
  ASSUME NEW row, RowInv(row)
  PROVE  /\ PhaseOf(row) \in Pipeline!Phase
         /\ PassedOf(row.stage) \in 0..Pipeline!Stages
         /\ row.owner \in Owner \cup {NoOwner}
<1>1. row.status \in Status /\ row.stage \in Stage /\ row.owner \in Owner \cup {NoOwner}
  BY RowFields DEF RowInv
<1>2. PassedOf(row.stage) \in 0..4
  BY <1>1 DEF PassedOf, Stage
<1>. QED
  BY <1>1, <1>2 DEF PhaseOf, Status, Open, Pipeline!Phase, Pipeline!Stages

\* The steps of the pipeline, read through the mapping.
MapsToStep(row, new) ==
  LET SamePhase == PhaseOf(new) = PhaseOf(row)
      SamePassed == PassedOf(new.stage) = PassedOf(row.stage)
      Held == PhaseOf(row) = "open" /\ row.owner \in Owner
  IN
  \/ SamePhase /\ SamePassed /\ new.owner = row.owner
  \/ PhaseOf(row) = "absent" /\ PhaseOf(new) = "open" /\ SamePassed /\ new.owner = row.owner
  \/ PhaseOf(row) = "open" /\ new.owner \in Owner /\ SamePhase /\ SamePassed
  \/ new.owner = NoOwner /\ SamePhase /\ SamePassed
  \/ /\ Held /\ SamePhase /\ new.owner = row.owner
     /\ PassedOf(new.stage) = PassedOf(row.stage) + 1 /\ PassedOf(new.stage) < 4
  \/ /\ Held /\ PhaseOf(new) = "complete" /\ PassedOf(new.stage) = 4
     /\ new.owner = NoOwner
  \/ Held /\ PhaseOf(new) = "dead" /\ new.owner = NoOwner /\ SamePassed
  \/ PhaseOf(row) = "dead" /\ PhaseOf(new) = "open" /\ SamePassed /\ new.owner = row.owner

\* A pair of rows related by MapsToStep is a step of the pipeline.
LEMMA MapsToPipeline ==
  ASSUME NEW a \in App, MapsToStep(tasks[a], tasks'[a])
  PROVE  Pipeline!AppStep(a)
  BY DEF MapsToStep, PhaseOf, Pipeline!AppStep, Pipeline!Same, Pipeline!Enter, Pipeline!Take,
         Pipeline!Drop, Pipeline!Held, Pipeline!Pass, Pipeline!Complete, Pipeline!Bury,
         Pipeline!Revive, Pipeline!Stages

\* advance_stage moves a task on by one stage, or completes it.
LEMMA AdvancePasses ==
  ASSUME NEW stage \in Stage, NEW profile \in Profile, stage # "complete",
         NextStage(stage, profile) # "complete"
  PROVE  /\ PassedOf(NextStage(stage, profile)) = PassedOf(stage) + 1
         /\ PassedOf(NextStage(stage, profile)) < 4
  BY DEF NextStage, PassedOf, Stage, Profile, Basic

\* Every way of rewriting a row is a step of the pipeline.
LEMMA RowStepMaps ==
  ASSUME NEW row, RowInv(row), NEW new, RowStep(row, new)
  PROVE  MapsToStep(row, new)
<1>0. row \in Row /\ row.stage \in Stage
  BY RowFields DEF RowInv
<1>1. CASE new = row
  BY <1>1 DEF MapsToStep
<1>2. CASE RowAged(row, new)
  <2>1. new.status = row.status /\ new.stage = row.stage /\ new.owner = row.owner
    BY <1>0, <1>2 DEF RowAged, Row
  <2>. QED
    BY <2>1 DEF MapsToStep, PhaseOf
<1>3. CASE RowQueued(row, new)
  <2>1. new.status = "pending" /\ new.stage = "store_details" /\ new.owner = NoOwner
    BY <1>3 DEF RowQueued, Absent
  <2>2. row.status = "absent" /\ row.stage = "store_details" /\ row.owner = NoOwner
    BY <1>3 DEF RowQueued, RowInv, Open
  <2>. QED
    BY <2>1, <2>2 DEF MapsToStep, PhaseOf, Open
<1>4. CASE RowUnleased(row, new) \/ RowDeferred(row, new)
  <2>1. new.status = row.status /\ new.stage = row.stage /\ new.owner = NoOwner
    BY <1>0, <1>4, UnleaseFields DEF RowUnleased, RowDeferred, Row
  <2>. QED
    BY <2>1 DEF MapsToStep, PhaseOf
<1>5. CASE RowTaken(row, new)
  <2>1. new.status = row.status /\ new.stage = row.stage /\ new.owner \in Owner
    BY <1>0, <1>5 DEF RowTaken, Row
  <2>. QED
    BY <1>5, <2>1 DEF MapsToStep, PhaseOf, RowTaken
<1>6. CASE RowAdvanced(row, new)
  <2>1. PICK profile \in Profile, due \in Int :
          new = Advanced(row, NextStage(row.stage, profile), profile, due)
    BY <1>6 DEF RowAdvanced
  <2> DEFINE stage == NextStage(row.stage, profile)
  <2>2. stage \in Stage
    BY <1>0, NextStageType
  <2>3. row.owner \in Owner /\ row.stage # "complete" /\ PhaseOf(row) = "open"
    BY <1>6, IngestionAssumption DEF RowAdvanced, RowInv, PhaseOf
  <2>4. CASE stage = "complete"
    <3>1. new.status = "complete" /\ new.stage = "complete" /\ new.owner = NoOwner
      BY <1>0, <2>1, <2>2, <2>4, AdvancedFields
    <3>. QED
      BY <2>3, <3>1 DEF MapsToStep, PhaseOf, PassedOf, Open
  <2>5. CASE stage # "complete"
    <3>1. new.status = "pending" /\ new.stage = stage /\ new.owner = row.owner
      BY <1>0, <2>1, <2>2, <2>5, AdvancedFields
    <3>2. PassedOf(stage) = PassedOf(row.stage) + 1 /\ PassedOf(stage) < 4
      BY <1>0, <2>3, <2>5, AdvancePasses
    <3>. QED
      BY <2>3, <3>1, <3>2 DEF MapsToStep, PhaseOf, Open
  <2>. QED
    BY <2>4, <2>5
<1>7. CASE RowFailed(row, new)
  <2>1. PICK category \in Category, due \in Int : new = Failed(row, category, due)
    BY <1>7 DEF RowFailed
  <2>2. new.status \in {"dead", "retry"} /\ new.stage = row.stage /\ new.owner = NoOwner
    BY <1>0, <2>1, UnleaseFields DEF Failed, Row
  <2>3. row.owner \in Owner /\ PhaseOf(row) = "open"
    BY <1>7, IngestionAssumption DEF RowFailed, RowInv, PhaseOf
  <2>. QED
    BY <2>2, <2>3 DEF MapsToStep, PhaseOf, Open
<1>8. CASE RowPaused(row, new)
  <2>1. new.status = "retry" /\ new.stage = row.stage /\ new.owner = NoOwner
    BY <1>0, <1>8, UnleaseFields DEF RowPaused, Row
  <2>2. PhaseOf(row) = "open"
    BY <1>8, IngestionAssumption DEF RowPaused, RowInv, PhaseOf
  <2>. QED
    BY <2>1, <2>2 DEF MapsToStep, PhaseOf, Open
<1>9. CASE RowRequeued(row, new)
  <2>1. new.status = "pending" /\ new.stage = row.stage /\ new.owner = NoOwner
    BY <1>0, <1>9, UnleaseFields DEF RowRequeued, Requeued, Row
  <2>2. row.status = "dead" /\ row.owner = NoOwner
    BY <1>9 DEF RowRequeued, RowInv, Open
  <2>. QED
    BY <2>1, <2>2 DEF MapsToStep, PhaseOf, Open
<1>. QED
  BY <1>1, <1>2, <1>3, <1>4, <1>5, <1>6, <1>7, <1>8, <1>9 DEF RowStep, QuietStep

\* The queue keeps its promise (IngestionPipeline): every call moves each app
\* by one step of the pipeline or not at all.
THEOREM IngestionImplementsPipeline == Spec => ImplementsPipeline
<1>1. Init => Pipeline!Init
  BY DEF Init, Absent, Open, PassedOf, Pipeline!Init
<1>2. Inv /\ [Next]_vars => [Pipeline!Next]_(Pipeline!pipeline)
  <2> SUFFICES ASSUME Inv, [Next]_vars
               PROVE  Pipeline!Next
    OBVIOUS
  <2>1. \A a \in App : Pipeline!AppStep(a)
    BY NextSteps, RowStepMaps, MapsToPipeline DEF Inv
  <2>2. \A a \in App : RowInv(tasks'[a])
    BY NextInv DEF Inv
  <2>. QED
    BY <2>1, <2>2, RowMaps DEF Pipeline!Next, PhaseOf
<1>. QED
  BY <1>1, <1>2, Invariance, PTL DEF Spec, ImplementsPipeline, Pipeline!Spec
=============================================================================
