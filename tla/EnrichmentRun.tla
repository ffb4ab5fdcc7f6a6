----------------------------- MODULE EnrichmentRun -----------------------------
(***************************************************************************)
(* One enrichment job after another (crates/worker/src/enrichment.rs): a   *)
(* job finishes a checkpointed game launch first, then divides its stages  *)
(* between the dynamic lanes, which refresh known games, and the ingestion *)
(* queue, which takes new ones from stage to stage.                        *)
(*                                                                         *)
(* The queue appears here as IngestionPipeline describes it, with the      *)
(* order in which claim_tasks hands tasks out: line holds the open tasks   *)
(* that are due, by next_attempt_at_ms.  An open task outside it waits for *)
(* its retry.  Which games a lane has work for, and which stages the       *)
(* database already has observed, are inputs.  A step ends at each         *)
(* transaction or request, because the invocation may be cut off after it. *)
(* One run follows another: the leases of the batch (90 s) outlive its     *)
(* budget (at most 50 s).                                                  *)
(***************************************************************************)
EXTENDS Integers, Sequences, SequencesExt

CONSTANTS
  App,            \* games of the catalogue
  LaneStage,      \* the stage each dynamic lane refreshes, lane by lane
  StageLimit,     \* values of stages_left at the start of a run
  FailureLimit,   \* failures a stage of the queue survives
  Broken,         \* <<app, stage>> whose answers never parse
  Unknown,        \* games whose release state may be unknown when they are found
  NoApp

Stages == <<"store_details", "review_summary", "popular_reviews", "ccu">>
LaunchStages == SubSeq(Stages, 2, 4)

ASSUME EnrichmentAssumption ==
  /\ LaneStage \in Seq(Range(Stages) \cup {"english_name"})
  /\ LaneStage # <<>>
  /\ StageLimit \subseteq Nat \ {0}
  /\ FailureLimit \in Nat \ {0}
  /\ Broken \subseteq App \X Range(Stages)
  /\ Unknown \subseteq App
  /\ NoApp \notin App

VARIABLES
  task,      \* the ingestion queue: the row of each app
  line,      \* its open tasks that are due, oldest first
  leased,    \* tasks a run that was cut off still holds
  paused,    \* the lane of the queue is paused
  released,  \* apps whose release_state is 'released'
  cursor,    \* the saved cursor: lane, dynamic_first, pending_launch
  run,       \* the run in progress
  owed,      \* history: stages of launches that were found, and not run yet
  calm       \* from now on nothing goes wrong by chance

vars == <<task, line, leased, paused, released, cursor, run, owed, calm>>
queue == <<task, line, leased, paused>>

Lanes == Len(LaneStage)

NoLaunch == [app |-> NoApp, next |-> 1]
Launch == [app : App \cup {NoApp}, next : 1..Len(LaunchStages)]

\* full: the task's profile, once the game is released at the latest.
Row == [status : {"absent", "open", "complete", "dead"}, passed : 0..Len(Stages),
        full : BOOLEAN, fails : 0..FailureLimit]

\* parts: what the run still has to do, with the stages each part may take.
Part == [kind : {"dynamic", "integrated"}, limit : Nat]
Idle == [pc |-> "idle", left |-> 0, parts |-> <<>>, room |-> 0, app |-> NoApp,
         fresh |-> FALSE, urgent |-> FALSE, empty |-> 0]

Init ==
  /\ task = [a \in App |-> [status |-> "absent", passed |-> 0, full |-> FALSE, fails |-> 0]]
  /\ line = <<>>
  /\ leased = {}
  /\ paused = FALSE
  /\ released = {}
  /\ cursor = [lane |-> 1, dynamicFirst |-> FALSE, launch |-> NoLaunch]
  /\ run = Idle
  /\ owed = {}
  /\ calm = FALSE

-----------------------------------------------------------------------------
(* Requests.                                                               *)

Fails(a, stage) == <<a, stage>> \in Broken \/ ~calm

\* A successful run_stage.  Store details say whether the game is released.
Succeeds(a, stage) ==
  /\ <<a, stage>> \notin Broken
  /\ IF stage = "store_details"
     THEN released' \in {released, released \cup {a}} \cup (IF calm THEN {} ELSE {released \ {a}})
     ELSE UNCHANGED released

Discovered(a) == a \in released' \ released

-----------------------------------------------------------------------------
(* The queue, as the run uses it.                                          *)

\* Places in line of the tasks that may be claimed; none while the lane is paused.
ClaimableLeased == IF paused THEN {} ELSE DOMAIN line
Claimable == IF paused THEN {} ELSE {i \in DOMAIN line : line[i] \notin leased}

StageOf(a) == Stages[task[a].passed + 1]

\* advance_stage: release_state is read again, so the profile may become full.
Advance(a) ==
  LET full == task[a].full \/ a \in released
      passed == IF full THEN task[a].passed + 1 ELSE Len(Stages)
      done == passed = Len(Stages)
  IN  /\ task' = [task EXCEPT ![a] =
           [status |-> IF done THEN "complete" ELSE "open",
            passed |-> passed, full |-> full, fails |-> 0]]
      /\ line' = IF done THEN RemoveFirst(line, a) ELSE Append(RemoveFirst(line, a), a)

\* defer_ingestion_job with no delay; NoApp when the run holds no task.
DeferAgain(a) == line' = IF a = NoApp THEN line ELSE Append(line, a)
Defer(a) == line' = IF a = NoApp THEN line ELSE Append(RemoveFirst(line, a), a)

\* retry_stage, or pause_lane when the error is not the task's.
GiveBack(a) ==
  /\ line' = RemoveFirst(line, a)
  /\ \/ /\ task' = [task EXCEPT ![a].fails = @ + 1,
                      ![a].status = IF task[a].fails + 1 = FailureLimit THEN "dead" ELSE "open"]
        /\ UNCHANGED paused
     \/ ~calm /\ paused' = TRUE /\ UNCHANGED task

-----------------------------------------------------------------------------
(* The run.                                                                *)

\* The stages a launch still needs.
Rest(launch) ==
  {<<launch.app, LaunchStages[i]>> : i \in launch.next..Len(LaunchStages)}

\* The history lets go of what earlier runs forgot: it is lost by now.
Start ==
  /\ run.pc = "idle"
  /\ \E n \in StageLimit : run' = [Idle EXCEPT !.pc = "launch", !.left = n]
  /\ owed' = owed \cap Rest(cursor.launch)
  /\ UNCHANGED <<queue, released, cursor, calm>>

Half(n) == (n + 1) \div 2

Parts(n, dynamicFirst) ==
  LET kinds == IF dynamicFirst THEN <<"dynamic", "integrated">> ELSE <<"integrated", "dynamic">>
  IN  <<[kind |-> kinds[1], limit |-> Half(n)], [kind |-> kinds[2], limit |-> n \div 2]>>

\* The turn is given to the other part before any work is done.
BegunDynamic(first) == [cursor EXCEPT !.dynamicFirst = TRUE]
Begun(first) == [cursor EXCEPT !.dynamicFirst = ~first]

\* run_with after resume_launch: nothing is left, or the rest is divided.
DivideAtOnce ==
  /\ run.pc = "launch" /\ run.parts = <<>>
  /\ cursor' = Begun(cursor.dynamicFirst)
  /\ run' = [run EXCEPT !.pc = "part", !.room = Half(run.left),
                        !.parts = Parts(run.left, cursor.dynamicFirst)]
  /\ UNCHANGED <<queue, released, owed, calm>>
Divide ==
  /\ run.pc = "launch" /\ run.parts = <<>>
  /\ cursor.launch = NoLaunch \/ run.left = 0
  /\ IF run.left = 0
     THEN run' = Idle /\ UNCHANGED cursor
     ELSE /\ cursor' = Begun(cursor.dynamicFirst)
          /\ run' = [run EXCEPT !.pc = "part", !.room = Half(run.left),
                                !.parts = Parts(run.left, cursor.dynamicFirst)]
  /\ UNCHANGED <<queue, released, owed, calm>>

Kind == Head(run.parts).kind

\* The loop conditions of dynamic and of integrated.
Continues ==
  /\ run.left > 0
  /\ \/ run.room > 0 /\ (Kind = "dynamic" => run.empty < Lanes)
     \/ Kind = "integrated" /\ run.urgent

\* A task of the queue the part still holds is given back.
EndPart ==
  /\ run.pc = "part"
  /\ ~Continues \/ (Kind = "integrated" /\ run.app = NoApp /\ Claimable = {})
  /\ Defer(run.app)
  /\ LET rest == Tail(run.parts) IN
     run' = IF rest = <<>> THEN Idle
            ELSE [Idle EXCEPT !.pc = "part", !.left = run.left, !.parts = rest,
                              !.room = Head(rest).limit]
  /\ UNCHANGED <<task, leased, paused, released, cursor, owed, calm>>

\* The deadline is seen before a stage or by run_stage itself (budget).
Deadline ==
  /\ ~calm
  /\ run.pc \in {"launch", "part"}
  /\ Defer(run.app)
  /\ run' = Idle
  /\ UNCHANGED <<task, leased, paused, released, cursor, owed, calm>>

-----------------------------------------------------------------------------
(* resume_launch.                                                          *)

After(launch) ==
  IF launch.next = Len(LaunchStages) THEN NoLaunch ELSE [launch EXCEPT !.next = @ + 1]

Resuming == run.pc = "launch" /\ cursor.launch # NoLaunch

LaunchWithdrawn ==
  /\ Resuming
  /\ cursor.launch.app \notin released
  /\ cursor' = [cursor EXCEPT !.launch = NoLaunch]
  /\ owed' = owed \ Rest(cursor.launch)
  /\ UNCHANGED <<queue, released, run, calm>>

\* The stage is run, and its result is in the database; the checkpoint is
\* moved by a transaction of its own.
LaunchStage ==
  /\ Resuming
  /\ cursor.launch.app \in released
  /\ run.left > 0
  /\ Succeeds(cursor.launch.app, LaunchStages[cursor.launch.next])
  /\ owed' = owed \ {<<cursor.launch.app, LaunchStages[cursor.launch.next]>>}
  /\ run' = [run EXCEPT !.pc = "launched", !.left = @ - 1,
                        !.room = IF @ > 0 THEN @ - 1 ELSE 0]
  /\ UNCHANGED <<queue, cursor, calm>>

SaveLaunch ==
  /\ run.pc = "launched"
  /\ cursor' = [cursor EXCEPT !.launch = After(@)]
  /\ run' = [run EXCEPT !.pc = "launch"]
  /\ UNCHANGED <<queue, released, owed, calm>>

LaunchFailsForward ==
  /\ Resuming
  /\ cursor.launch.app \in released
  /\ run.left > 0
  /\ Fails(cursor.launch.app, LaunchStages[cursor.launch.next])
  /\ cursor' = [cursor EXCEPT !.launch = After(@)]
  /\ run' = Idle
  /\ UNCHANGED <<queue, released, owed, calm>>
LaunchFails ==
  /\ Resuming
  /\ cursor.launch.app \in released
  /\ run.left > 0
  /\ Fails(cursor.launch.app, LaunchStages[cursor.launch.next])
  /\ run' = Idle
  /\ UNCHANGED <<queue, released, cursor, owed, calm>>

\* Back in dynamic, from where the launch was found.
LaunchReturns ==
  /\ run.pc = "launch" /\ run.parts # <<>>
  /\ cursor.launch = NoLaunch \/ run.left = 0
  /\ run' = [run EXCEPT !.pc = "part", !.empty = 0]
  /\ UNCHANGED <<queue, released, cursor, owed, calm>>

-----------------------------------------------------------------------------
(* dynamic.                                                                *)

LaneAdvanced == [cursor EXCEPT !.lane = (@ % Lanes) + 1]
\* The failed game is met again when the lane's turn comes round.
LaneKept == cursor
LaneAfterFailure == LaneAdvanced

LaunchOf(a) == [app |-> a, next |-> 1]

Refreshing == run.pc = "part" /\ Kind = "dynamic" /\ Continues
Refreshed == LaneStage[cursor.lane]

LaneIsEmpty ==
  /\ Refreshing
  /\ cursor' = LaneAdvanced
  /\ run' = [run EXCEPT !.empty = @ + 1]
  /\ UNCHANGED <<queue, released, owed, calm>>

DynamicStage(a) ==
  /\ Refreshing
  /\ Succeeds(a, Refreshed)
  /\ run' = [run EXCEPT !.pc = "refreshed", !.app = a, !.left = @ - 1,
                        !.fresh = Discovered(a)]
  /\ owed' = IF Discovered(a) THEN owed \cup Rest(LaunchOf(a)) ELSE owed
  /\ UNCHANGED <<queue, cursor, calm>>

\* One save for the lane's cursor and the launch it found.
SaveDynamic ==
  /\ run.pc = "refreshed"
  /\ cursor' = IF run.fresh THEN [LaneAdvanced EXCEPT !.launch = LaunchOf(run.app)]
               ELSE LaneAdvanced
  /\ run' = [run EXCEPT !.pc = "launch", !.app = NoApp, !.fresh = FALSE,
                        !.room = @ - 1]
  /\ UNCHANGED <<queue, released, owed, calm>>

\* The page is in the database, and closing the attempt to backfill its media
\* fails: the lane moves on, and whatever was found goes with the run.
RefreshFailsLate ==
  /\ ~calm
  /\ run.pc = "refreshed"
  /\ Refreshed = "store_details"
  /\ cursor' = LaneAfterFailure
  /\ run' = Idle
  /\ UNCHANGED <<queue, released, owed, calm>>

DynamicFails(a) ==
  /\ Refreshing
  /\ Fails(a, Refreshed)
  /\ cursor' = LaneAfterFailure
  /\ run' = Idle
  /\ UNCHANGED <<queue, released, owed, calm>>

-----------------------------------------------------------------------------
(* integrated.                                                             *)

Ingesting == run.pc = "part" /\ Kind = "integrated" /\ Continues

\* claim_tasks with limit 1: the oldest of the tasks that are due.
ClaimTask ==
  /\ Ingesting
  /\ run.app = NoApp
  /\ \E i \in Claimable :
       /\ \A j \in Claimable : i <= j
       /\ run' = [run EXCEPT !.app = line[i]]
  /\ UNCHANGED <<queue, released, cursor, owed, calm>>

Spent(r) == [r EXCEPT !.left = @ - 1, !.room = IF @ > 0 THEN @ - 1 ELSE 0]

\* Stages a game without reviews and players has nothing for.
SkipsBeforeRelease(a) ==
  StageOf(a) # "store_details" /\ (~task[a].full \/ a \notin released)

\* Skipped stages, and stages already observed unless the game is launching.
StageIsObserved ==
  /\ Ingesting /\ run.app # NoApp
  /\ SkipsBeforeRelease(run.app) \/ ~run.urgent
  /\ run' = [Spent(run) EXCEPT !.pc = "ingested"]
  /\ UNCHANGED <<queue, released, cursor, owed, calm>>

IngestStage ==
  /\ Ingesting /\ run.app # NoApp
  /\ ~SkipsBeforeRelease(run.app)
  /\ Succeeds(run.app, StageOf(run.app))
  /\ run' = [Spent(run) EXCEPT !.pc = "ingested", !.urgent = @ \/ Discovered(run.app)]
  /\ UNCHANGED <<queue, cursor, owed, calm>>

AdvanceTask ==
  /\ run.pc = "ingested"
  /\ Advance(run.app)
  /\ run' = IF task'[run.app].status = "complete"
            THEN [run EXCEPT !.pc = "part", !.app = NoApp, !.urgent = FALSE]
            ELSE [run EXCEPT !.pc = "part"]
  /\ UNCHANGED <<leased, paused, released, cursor, owed, calm>>

IngestFails ==
  /\ Ingesting /\ run.app # NoApp
  /\ ~SkipsBeforeRelease(run.app)
  /\ Fails(run.app, StageOf(run.app))
  /\ GiveBack(run.app)
  /\ run' = Idle
  /\ UNCHANGED <<leased, released, cursor, owed, calm>>

-----------------------------------------------------------------------------
(* The rest of the system.                                                 *)

\* The invocation is cut off; its lease on a task lives on for a while.
Crash ==
  /\ ~calm
  /\ run.pc # "idle"
  /\ run' = Idle
  /\ leased' = IF run.parts # <<>> /\ Kind = "integrated" /\ run.app # NoApp
               THEN leased \cup {run.app} ELSE leased
  /\ UNCHANGED <<task, line, paused, released, cursor, owed, calm>>

LeaseRunsOut(a) ==
  /\ a \in leased
  /\ leased' = leased \ {a}
  /\ UNCHANGED <<task, line, paused, released, cursor, run, owed, calm>>

PauseEnds ==
  /\ paused
  /\ paused' = FALSE
  /\ UNCHANGED <<task, line, leased, released, cursor, run, owed, calm>>

\* next_attempt_at_ms of a task that was to wait is reached.
ComesDue(a) ==
  /\ task[a].status = "open"
  /\ ~Contains(line, a)
  /\ line' = Append(line, a)
  /\ UNCHANGED <<task, leased, paused, released, cursor, run, owed, calm>>

\* A game enters the queue when it is discovered, with the full profile if it is
\* released, or if nothing is known; a dead one when an operator requeues it.
Enter(a) ==
  /\ ~calm
  /\ \/ /\ task[a].status = "absent"
        /\ \E full \in BOOLEAN :
             /\ IF a \in Unknown THEN a \in released => full ELSE full = (a \in released)
             /\ task' = [task EXCEPT ![a].status = "open", ![a].full = full]
     \/ /\ task[a].status = "dead"
        /\ task' = [task EXCEPT ![a].status = "open", ![a].fails = 0]
  /\ line' = Append(line, a)
  /\ UNCHANGED <<leased, paused, released, cursor, run, owed, calm>>

\* The operator's tool refreshes store details too, at any time.  A bound: of
\* the game whose launch is to be resumed, where the run reads it next; any
\* other changes its state in the stages of the run.
Withdraw ==
  /\ ~calm
  /\ Resuming
  /\ released' = released \ {cursor.launch.app}
  /\ UNCHANGED <<queue, cursor, run, owed, calm>>

Settle ==
  /\ ~calm
  /\ calm' = TRUE
  /\ UNCHANGED <<queue, released, cursor, run, owed>>

RunStep ==
  \/ Start \/ Divide \/ EndPart
  \/ LaunchWithdrawn \/ LaunchStage \/ SaveLaunch \/ LaunchFails \/ LaunchReturns
  \/ LaneIsEmpty \/ SaveDynamic
  \/ \E a \in App : DynamicStage(a) \/ DynamicFails(a)
  \/ ClaimTask \/ StageIsObserved \/ IngestStage \/ AdvanceTask \/ IngestFails

Time == PauseEnds \/ (\E a \in App : LeaseRunsOut(a) \/ ComesDue(a))

Next ==
  \/ RunStep \/ Deadline \/ RefreshFailsLate \/ Crash \/ Time \/ Withdraw \/ Settle
  \/ \E a \in App : Enter(a)

Spec == Init /\ [][Next]_vars

\* Cron starts a batch every minute, and the scheduler never leaves the
\* enrichment lane without a job for good; what was to wait comes due; and
\* from some point on no deadline, cut-off or passing failure interferes.
FairSpec ==
  /\ Spec
  /\ WF_vars(RunStep)
  /\ WF_vars(PauseEnds)
  /\ \A a \in App : WF_vars(LeaseRunsOut(a)) /\ WF_vars(ComesDue(a))
  /\ WF_vars(Settle)

-----------------------------------------------------------------------------
(* Correctness.                                                            *)

TypeOK ==
  /\ task \in [App -> Row]
  /\ Range(line) \subseteq {a \in App : task[a].status = "open"} /\ IsInjective(line)
  /\ leased \subseteq App
  /\ paused \in BOOLEAN
  /\ released \subseteq App
  /\ cursor \in [lane : 1..Lanes, dynamicFirst : BOOLEAN, launch : Launch]
  /\ run.app \in App \cup {NoApp}
  /\ run.parts \in Seq(Part)
  /\ run.left \in Nat /\ run.room \in Nat /\ run.empty \in 0..Lanes
  /\ owed \subseteq App \X Range(LaunchStages)

\* A launch is found when its release is in the database: no later run takes it
\* for new.  Until a stage of it has been run, or the game turns out not to be
\* released, it is forgotten by a run that ends between that transaction and
\* the save of the checkpoint, and by nothing else: not by a cut-off elsewhere,
\* a failing stage, a deadline or the next launch.
Found ==
  IF run.pc = "refreshed" /\ run.fresh THEN Rest(LaunchOf(run.app)) ELSE {}
Forgotten == owed \ (Rest(cursor.launch) \cup Found)

ForgetsOnlyTheUnsaved ==
  [][Forgotten' \ Forgotten \subseteq IF run' = Idle THEN Found ELSE {}]_vars

\* "A release discovered in the previous invocation stays ahead of the ordinary
\* backlog": while a launch is checkpointed, no lane and no task has a turn.
LaunchesGoFirst ==
  run.pc \in {"refreshed", "ingested"} => cursor.launch = NoLaunch

\* No part of the work starves another: every task of the queue gets through
\* or is buried, whatever the lanes have to do and however it fails.
OpenTasksSettle ==
  \A a \in App : task[a].status = "open" ~> task[a].status \in {"complete", "dead"}

\* The queue as the run uses it keeps the promise of the ingestion queue: a
\* game moves stage by stage, by its holder alone, whatever is cut off; a lease
\* the run lost still holds its game until it runs out.
HolderOf(a) ==
  CASE a \in leased -> "lost"
    [] a \notin leased /\ run.pc \in {"part", "ingested"} /\ run.app = a -> "run"
    [] OTHER -> NoApp

Pipeline ==
  INSTANCE IngestionPipeline WITH
    Owner <- {"run", "lost"}, NoOwner <- NoApp,
    phase <- [a \in App |-> task[a].status],
    passed <- [a \in App |-> task[a].passed],
    holder <- [a \in App |-> HolderOf(a)]

ImplementsPipeline == Pipeline!Spec

\* A game that always fails in one lane does not keep the others from their
\* turns.
LanesTakeTurns == \A lane \in 1..Lanes : []<>(cursor.lane = lane)
=============================================================================
