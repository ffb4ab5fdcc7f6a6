# LobbyTally: specifications, model checking and proofs

LobbyTally recommends multiplayer games. Its Rust/Axum API runs as short
requests on a container platform with no process that lives between them;
everything durable is in PostgreSQL and in a private object store, and
scheduled HTTP calls do the background work. Several instances serve requests
at the same time, a request may be cut off at any point, and a scheduled call
may be delivered twice. This directory states what the code must guarantee in
that setting, in TLA+, checks it with TLC on small instances, and proves the
most important of it with TLAPS for all values of the parameters.

Paths below are relative to the repository root.

## 1. The system

| Component | State | Operations | Interacts with |
|---|---|---|---|
| Durable job queue (`crates/storage/src/jobs.rs`) | table `jobs` | enqueue, enqueue unless active, lease, recover, yield, complete, fail | called by the scheduler, the avatar handlers, the two scheduled workers, the operator's tool |
| Worker batch (`crates/worker/src/lib.rs`, `worker_leases` in `jobs.rs`, `source_state.rs`) | batch lease, `data_refresh_state`, `source_cursors`, `source_runs` | acquire, schedule eight lanes, run up to `job_limit` jobs, release | job queue, game ingestion, Steam over HTTP |
| Game ingestion queue (`storage/src/game_ingestion.rs`) | `game_ingestion_queue`, lane pause | queue, claim, defer, advance, retry, pause, requeue | enrichment run, catalog |
| Enrichment run (`worker/src/enrichment.rs`) | its cursor (lane, turn, launch checkpoint) | resume a launch, refresh lanes, ingest tasks | worker batch, ingestion queue, Steam |
| Discovery and catalog cursors (`worker/src/discovery.rs`, `steam-source/src/cursor.rs`) | JSON cursors | page, save, resume | worker batch, Steam |
| Avatar storage and cleanup (`apps/server/src/{avatars,runtime,api}.rs`, `storage/src/accounts.rs`) | `user_avatars`, bucket objects, cleanup jobs | upload, replace, delete, delete account, cleanup batch | job queue, object store |
| Account sessions (`accounts.rs`) | `account_sessions` | register, login, refresh, revoke, change password | every authenticated request |
| Shared limits (`shared_limits.rs`, `ai_limits.rs`, `rate_limit.rs`) | request windows, AI leases | consume, acquire, release | every request |
| AI gateway and router (`crates/ai`) | per-host bucket, circuit | acquire, release, route | AI providers |
| Web client (`web/src/api`) | feedback queue, play intents, tokens in browser storage | submit, undo, flush; sign in, refresh, replay, sign out | API |
| Feed snapshot, telemetry, community, curation, catalog, retrieval, recommender, desktop shell, operator's tool, deployment scripts | their tables or none | reads and single-transaction writes | |

What makes it hard, and for which component:

- *Lost and late workers.* Whoever holds a lease may be cut off with it, or
  may come back after it expired (queue, worker batch, game ingestion, avatar
  cleanup, AI leases).
- *Old clock readings.* Expiry is decided with the caller's clock, read before
  it waits for a connection and for row locks (`repo.rs` 1590-1653).
- *Two stores, no common transaction* (avatars).
- *Check, then act, across transactions* (cleanup batch, scheduling, cursors).
- *Retries of what was done*: lost answers to completions, refreshes,
  deletions, feedback posts.
- *Budgets that are spent and refunded* (attempts, request windows).

Each component is correct when: **queue**: a job is run by one live lease
holder at a time, spends its attempts exactly, settles once, and is not
recycled forever; **worker batch**: no two batches within their leases, no lane
lost or doubled, Steam left alone for as long as it asked; **game ingestion**:
stages advance only under a live lease and in order, failures count to their
limit, a paused lane hands nothing out; **enrichment**: launches go first, and
one that has been checkpointed is not forgotten, and no part of the work starves
another; **cursors**: a crash replays a page and never skips one; **avatars**: a committed avatar is stored, an unreferenced
object is eventually removed, a deleted account keeps nothing; **sessions**: a
rotated token is never usable again, a password change, an alarm or a deletion
leaves no other session behind, a sign-out ends the sign-ins it finds (in one case it
does not: section 3), and the client neither loses a usable session nor puts back one
the user has ended; **limits**: never exceeded whatever expires or is released late; **feedback queue**: the server
ends in the state the user last asked for.

`PROJECT.json` lists every component with its status, and under `hazards` what
in this code is hard to test, at its line.

## 2. Modules

| Module | Models | Role |
|---|---|---|
| `JobLifecycle` | | what the queue promises its clients, with no clock, table or priority |
| `JobQueue` | `jobs.rs` | the table, one action per call, the clock |
| `MCJobQueue`, `JobQueue.cfg` | | the small instance |
| `JobQueueProofs` | | theorems about `JobQueue` |
| `AvatarStore` | `api.rs` 1383-1521 and 1632-1665, `accounts.rs` 591-740, `runtime.rs` 107-224, `avatars.rs` | uploads, deletions and the cleanup batch, over `JobQueue` |
| `MCAvatarStore`, `AvatarStoreSafety.cfg`, `AvatarStoreLiveness.cfg` | | the small instance |
| `AvatarStoreProofs` | | theorems about `AvatarStore` |
| `FeedbackQueue` | `feedbackQueue.ts`, parts of `client.ts` and `app/runtime.ts`, `feedback.rs` | a device's feedback queue, the network and the server's events |
| `MCFeedbackQueue`, `FeedbackQueue*.cfg` | | the small instance, and a claim of a comment that the code does not keep |
| `FeedbackQueueProofs` | | theorems about `FeedbackQueue` |
| `IngestionPipeline` | | what the ingestion queue promises for each game: no clock, lease, category or pause |
| `GameIngestion` | `game_ingestion.rs` | the table, one action per call, the lane's pause, the clock |
| `MCGameIngestion`, `GameIngestionSafety.cfg` | | the small instance |
| `GameIngestionProofs` | | theorems about `GameIngestion` |
| `EnrichmentRun` | `worker/src/enrichment.rs` | one enrichment job after another, over the queue as its promise describes it; it implements `IngestionPipeline` too |
| `MCEnrichmentRun`, `EnrichmentRunProgress.cfg`, `EnrichmentRunPoison.cfg` | | the small instance, and a goal of the docs that fails |
| `EnrichmentRunProofs` | | theorems about `EnrichmentRun` |
| `WorkerBatch` | `worker/src/lib.rs` 150-577, `worker_leases` in `jobs.rs`, `source_state.rs` | scheduled invocations that may meet |
| `MCWorkerBatch`, `WorkerBatch.cfg` | | the small instance |
| `WorkerBatchProofs` | | theorems about `WorkerBatch` |
| `SignInLifecycle` | | what the sessions of an account promise: no transaction, token or expiry |
| `AccountSessions` | `accounts.rs` 223-636, `pg.rs` 462-483 | the server's side of one account's sessions |
| `WebSession` | `client.ts` 124-349 and 865-971, the handlers in `api.rs` 1217-1400 | tabs, their storage and the network, over `AccountSessions` |
| `MCWebSession`, `WebSessionSafety.cfg`, `WebSessionFalseAlarm.cfg`, `WebSessionLogoutAll.cfg` | | the small instance, and a claim of a comment and one of the docs that fail |
| `WebSessionProofs` | | theorems about `AccountSessions` and `WebSession` |

### JobQueue

`jobs` maps each idempotency key (unique in the table) to its row; a key
without a row is `"absent"`. A row keeps what decisions read: status, request
(lane, priority, attempt budget), attempts, due time, lease owner and expiry,
completion key, last error category. The status `'failed'` of the schema is
never written. Payloads and audit times are left out.

One action per call of the code. `LeaseJobs` is the whole of `lease_jobs`:
recycle expired leases (`Recycled`), select (`Claimable`, `Batches` for
`ORDER BY ... LIMIT`), lease. A call that returns an error changes nothing and
is therefore no action: the `UPDATE` of a refused `complete_job` matches no
row, and dropping the transaction rolls it back. `enqueue_job` is one
`INSERT ... ON CONFLICT DO NOTHING`; `enqueue_job_if_no_active`, `yield_job` and
`recover_leased_jobs` hold the global advisory lock of an `Immediate`
transaction (`pg.rs`); `lease_jobs`, `complete_job` and `fail_job` decide with
the `WHERE` of row-locking `UPDATE`s. Each is one atomic step; rows locked by
a concurrent claim are skipped (`locked`).

*Time.* Only comparisons with the present matter, so an instant is an offset
from the present and `Tick` moves all stored instants one unit into the past,
down to `Past`, beyond which no reading can tell them apart. A caller's reading
is any value in `-MaxLag..0`. The state space is finite with no horizon, and
theorems hold for every `MaxLag`.

### AvatarStore

It instantiates `JobQueue` (`Queue`) for the table and adds the accounts, the
avatar each refers to, the bucket, how far each upload has come, deletions on
their way to the store, and the cleanup batches. The steps of a handler are
separate actions, one per transaction or request to the store, because it may
stop after each: `BeginUpload` (queue the clean-up of the object to be),
`StoreObject` (external), `CommitAvatar` (`set_avatar_metadata`). The batch is
`LeaseBatch`, then per job `LookUp` or `SkipJob`, `DeleteObject`, `FinishJob`;
`StopBatch` is its deadline or death at any point.

`window[k]` is how long an upload may still have effects: the request deadline
of 60 s (`runtime.rs` 20-31), plus what outlives it: the object store client's
timeout of 10 s and a database statement's 5 s. It starts when the upload
queued its clean-up, which is due one hour later: `UploadWindow < Grace` is
the assumption `StoreAssumption`, and the proof needs it.

Object keys carry the account, the content hash and 64 random bits;
`NewKey` takes these to be fresh, as the comment at `api.rs` 1460 does.

The object store is external. A request may take effect though its caller saw
an error or has gone; a deletion a handler asked for may arrive arbitrarily late.

### FeedbackQueue

`queue` is `entries` in memory and `disk` what `persist` last wrote; a key is
both an entry's `localId` and its `idempotencyKey`, in order of submission. An
entry keeps the fields decisions read; of `syncError` the classes (none, undo
pending, retryable, refused). The server keeps `rows` and which of them an
undo event points to.

JavaScript runs to the next await, so an action is all the code between two
awaits. `Proceed` is the loop of `runFlush` from one entry to the next request
or to the end, and the prune and save at the end are part of it; `Flush` starts
it or joins a flush that is running; signing in, submitting and starting the app
contain the `Flush` they call. A request is sent by a later action
(`FlushSends`, `CallSends`), because the session is looked up and refreshed
first; `client.ts` 265-278 compares the account then. Answers are processed by
`PostAcked`, `UndoAcked`, `FlushDisowned` (the account changed: the error says
nothing), `FlushUnavailable` (stop), `FlushRefused` (go on), and `Call*` for
`undo()`.

A caller that gives up leaves its request in `stray`, from where the server may
serve it at any later time. `Restart` closes the app at any await: memory is
lost, requests under way become stray. `old` are entries past the seven days;
`asked` is a history variable: what the user last asked for and was not told to
have failed.

### GameIngestion

The same shape as `JobQueue`: a row per game, instants as offsets, readings
that lag up to `MaxLag`. Every call but `recover_leases` holds the schema's
write lock, so each call is one action; a claim skips the rows a concurrent
recovery has locked. `Advanced`, `Failed`, `Requeued` and the `pause_lane` branch
are the row updates of the four calls. `advance_stage` reads the game's release
state again (`CurrentProfile`), which other parts of the system change at any
time (`ChangeRelease`). Of the release state the model keeps whether it is
`released`; a row begins with the profile for upcoming games only if the state is
`upcoming` or `coming_soon`, so of an app that is not released `ProfilesOf` leaves
both profiles open. The categories keep what decides about a failure:
*deterministic* (limit 3), *transient* (limit 8) and *global* ones, which pause
the lane and charge nobody. The limit applied is that of the last failure's
category. `IngestionPipeline` says what remains for one game: phases, stages
passed, holder.

### EnrichmentRun

A run is the body of one enrichment job; runs follow one another, because a job
ends within 50 s and the leases of the batch and of the job last 90 s. `run_with`
is `Start`, the actions of `resume_launch`, `Divide` (which saves the turn
*before* the work), the two parts, and `EndPart`. A step ends at each
transaction or request, and `Crash` and `Deadline` may come after it. The
ingestion queue is its abstract promise plus the order of `claim_tasks`:
`line` holds the tasks that are due; `leased` are those a cut-off run still
holds, and `ImplementsPipeline` says that the two together keep the promise.
What a request answers is open except for
`Broken`, the stages of a game that never parse. `calm` marks the point from
which no deadline, cut-off, pause or passing failure occurs, no game enters the
queue and no operator intervenes. `Unknown` are the games whose release state may be
unknown when they are found; these may begin with the full profile.

`owed` is a history variable of launch stages found and not run. A launch is found
when `run_stage` has committed the release (311), because from then on
`was_released` keeps every later run from taking it for new; the checkpoint is
saved two calls later, by `advance_lane` (322-324). A run cut off in between, or
whose `finish_media_backfill_attempt` fails after the page was committed
(`RefreshFailsLate`; `sources.rs` 150-169), loses the launch's priority: its
stages then wait for their lanes. `ForgetsOnlyTheUnsaved` says that nothing else
does. The comment at 87-88, that a release found in the previous invocation stays
ahead of the ordinary backlog, holds for a release whose save was reached.

### WorkerBatch

An invocation is a program counter; every call to storage is a step of its own:
`Invoke` (acquire the lease or be refused, read the statuses), per due lane
`Enqueue` and `Advance`, per job `Look` (the cooldown), `Claim`, `Work`, then
`Complete`, `Yield`, `Fail` or, `RateLimited`, `SaveCooldown` and `FailLimited`, then `Record` and
`WriteBack` of the status row, and `Release`. `Crash`, `Fault` (a call to storage
returns an error) and `Deadline` come between any two. The job table is reduced
to one job per lane, which `OneActivePerLane` of `JobQueue` justifies, with
recycling, attempts and due times as there. The idempotency key of a scheduled
job lasts for the lane's interval: `phase` and `keys` keep which intervals have
had one. *Time.* The clock is exact: one clock moves `cooldown`, leases, due times
and `rest` together, and no reading lags as in `JobQueue`. What a call reads may be
old by the time it is used, because ticks come between any two steps: the cooldown
ends `delay_ms` after the invocation saves it (`SaveCooldown`, 266-272), the job
waits `delay_ms` from the later `fail_job` (`FailLimited`, 276-278), so that Steam
may be used again while the job still waits. `rest`, a history variable, is what is
left of the time Steam asked for when it refused (`RateLimited`); a request that
was not yet saved when its invocation stops was known to nobody else and is void
(`Unasked`). `lead` is the source that is first in the batch: the code takes the
parity of the current minute (200-202), where its comment speaks of
alternating invocations, so the model leaves it open. An invocation runs for at
most `MaxRun`: the platform ends it after 120 s (`vercel.json`), its own
budget is 50 s at most, and the lease lasts 90 s.

### AccountSessions and WebSession

`AccountSessions` has one account. A session stands for its two random tokens,
and anyone may present any of them at any time. Sign-in and rotation are two
steps (`Begin`, `Finish`) under the write lock of the database; the two sign-outs
are statements outside it, of which signing out everywhere sees only the rows
committed when it began. They take neither lock: one that meets a rotation waits for
the row the rotation replaces, and then neither finds it live nor sees its
replacement. `root` is the sign-in a session descends from; `ended` is
history: something has happened since that ends this session. `SignInLifecycle`
sees of all this a line of sessions per sign-in (`GoodSessions`) and the
sessions issued so far.

`WebSession` instantiates the clients: per tab the session held, the refresh in
flight, a sign-in, one authenticated request with its replay after a 401, and
the revocation a sign-out leaves behind; `stored` is what the tabs of the browser
share. JavaScript runs from await to await, and so do the actions. Of
`sessionRevision` only the comparison matters: a flight records whether it has
changed. A request or an answer may be lost or be late at any point, and a page
may be reloaded. A tab that never reloads behaves as another device.

## 3. Runs

| Run | Specification | Checks | Distinct states |
|---|---|---|---|
| `queue` | `FairSpec` | `TypeOK`, `AttemptsAccounted`, `OneActivePerLane`, `OnlyItsOwnerEndsALiveLease`, `SettledIsFinal`, `ImplementsLifecycle`, `CrashLoopsEnd` | 13,747 |
| `avatar_safety` | `Spec` | `TypeOK`, `ReferencedIsStored`, `OrphansAreKnown`, `DeletedKeepsNoAvatar` | 509,311 |
| `avatar_liveness` | `FairSpec` | `OrphansGoAway` | 38,708 |
| `feedback_safety` | `Spec` | `TypeOK`, `RecordedForItsOwner`, `NoFeedbackLost`, `UndoIsNotForgotten` | 1,675,307 |
| `feedback_dropped_unsettled` | `Spec` | `OnlySettledAreDropped` (violated) | |
| `ingestion_safety` | `Spec` | `TypeOK`, `OnlyOpenTasksAreHeld`, `FailuresAccounted`, `PauseHolds`, `OnlyItsOwnerMovesALeasedTask`, `ImplementsPipeline` | 288,808 |
| `enrichment_progress` | `FairSpec` | `TypeOK`, `ForgetsOnlyTheUnsaved`, `LaunchesGoFirst`, `ImplementsPipeline`, `OpenTasksSettle`, `LanesTakeTurns` | 452,984 |
| `enrichment_poisoned_launch` | `FairSpec` | `OpenTasksSettle` (violated) | |
| `session_safety` | `Spec` | `TypeOK`, `LiveSessionsAreCurrent`, `OneLivePerSignIn`, `SignedOutStaysOut`, `GivesUpOnlyTheLost`, `ImplementsSignIns` | 1,047,356 |
| `session_false_alarm` | `Spec` | `NoFalseAlarm` (violated) | |
| `session_logout_all` | `Spec` | `LogoutAllSignsOutEveryDevice` (violated) | |
| `batch` | `FairSpec` | `TypeOK`, `LeaseExcludes`, `SteamIsLeftAlone`, `NoLaneIsLost` | 813,875 |

*Queue bounds.* Two keys and two owners, a scheduled lane of one
source and a free lane of another, budgets of one and two attempts: the
smallest with contention for a row, a batch of two, a last attempt and one
that is not. `MaxLag = 1` with leases of 2 gives readings that see a lease both
live and expired in the same state; delays 0 and 1, limits 1 and 2, one
transient and one permanent error.

*Avatar bounds.* One account with two uploads of the same image, two batches
of up to two jobs: replacement, deletion between, a job held by two batches,
a commit between look-up and deletion. Accounts do not interact (an object
key names its account). `MaxAttempts = 1` in the safety run, which makes
giving up a common case; the liveness run has one upload and two attempts, and in it
the two names of batches are never both held up by leases of batches that are gone.
`UploadWindow = 1 < Grace = 2`, the tightest instance of the assumption.

*Feedback bounds.* Two accounts (symmetric), two entries, so that a flush goes
on past an entry, and one stray request, so that a late post or undo meets
every later step.

*Ingestion bounds.* A game and a demo, two workers (symmetric), limits 2 and 3 with one
category of each kind, `MaxLag = 1` with leases of 2, batches of one: a
task changes hands, dies of a mixture of failures, and is paused by a worker
whose lease is over; the demo has the short profile.

*Enrichment bounds.* Two games and two lanes, budgets of one and two stages:
with one stage a run does one part or the other, with two both, and a launch
takes two runs. One game's store details never parse, alone or in its lane; the
other's release state may be unknown when it is found. The
operator's tool may withdraw a launch where `resume_launch` is about to read it.

*Session bounds.* Two tabs of which one does everything and the other only signs
in, refreshes and reloads, and two sessions. Every operation that issues a session needs
a fresh one, so behaviours end when both are used: this is why the session
runs do not check deadlock. All other runs do. The theorems hold for any
number of tabs and sessions, and for tabs that all do everything.

*Batch bounds.* Two invocations, a Steam lane scheduled every two units and
`retrieval_sync` every one (the lane that times itself), two jobs a batch,
two attempts, leases of 2 and runs of at most 1. A rest of 3 outlives the
invocation that was asked for it, its lease and the next one's beginning. The run has one Steam
lane, so what could break the rest is another job of that lane, begun before the
save or once its due time has come; the theorem `SteamStaysAlone` is for any number of Steam
lanes. No invocation of the run outlives its lease: those
instances are too large for TLC, and that `LeaseExcludes` holds in them, where a late
invocation releases on its way out, is the part of `BatchLeaseExcludes` alone. There
`SteamIsLeftAlone` claims nothing, and could not: of two invocations at work
together one may be rate limited while the other is at work.

*What is dropped too early.* `feedbackQueue.ts` 307 says that only fully settled
entries are dropped after seven days. The filter drops any cancelled one, also an
entry whose post was sent and not answered, which line 22 and `pendingCount` treat as
unsettled: the feedback the user undid stays active (`feedback_dropped_unsettled`).
`UndoIsNotForgotten` is therefore stated for entries younger than a week. A smaller
disagreement has no run of its own: line 282 says that a post refused for good is
not retried. It is marked cancelled, but the loop skips a cancelled entry only if it
was never attempted (256), and this one was, so the next flush posts it again. The
model does the same (`NeedsPost`, `FlushRefused`).

*A poisoned launch.* The acquisition plan (`DATA_ACQUISITION_AND_RANKING_OPTIMIZATION_PRD.md`
431) wants a poison item to end dead and not to occupy the ordinary queue for
good. A stage of a checkpointed launch has no failure limit and precedes all
other work, and its error ends the job: when the reviews of a launched game
never parse, every later run fails there, and neither the queue nor a lane has
another turn (`enrichment_poisoned_launch`). `enrichment_progress`, where it is
store details that never parse, shows that nothing else starves.

*A false alarm.* `accounts.rs` 388 says that a reused rotated token indicates
theft, and revokes every session of the account. `client.ts` 228-229 keeps the
token pair over network failures so that a later retry can recover the
identity. Together they raise the alarm with no thief: the refresh commits, its
answer is lost, the retry presents the rotated token
(`session_false_alarm`, with one tab that only reads). The same happens when a
401 makes the tab discard a refresh answer it was about to take, when a
password change on one device meets the ordinary refresh of another (the test is
for any revoked token), and with two tabs over one local storage, of which the
second reloads an old pair. `docs/API.md` 697 says that a password
change ends the *other* sessions; through the alarm it soon ends its own too.

*A sign-out that a device escapes.* `docs/API.md` 696 calls logout-all the sign-out of
every device. `revoke_all_sessions` (`accounts.rs` 582-590) is one `UPDATE` with no lock
but those of the rows it meets. When another device is just
refreshing, its snapshot has the session that is being replaced, on whose row it waits,
and not the replacement; once the refresh commits, the old session is already revoked,
the new one is not touched, and that device stays signed in
(`session_logout_all`). `change_password` and `delete_account`, which revoke under the
account's row lock, have no such gap (`LiveSessionsAreCurrent`). A sign-out of one device that loses to
a refresh of the same session finds it revoked and leaves the replacement live in the
same way. `ImplementsSignIns` says less than that a sign-out wins: that a line of
sessions never forks, and that once it has no good session it never has one again.

*Fairness.* Cron calls maintenance every minute and the cleanup every five
(`supabase/enable-schedules.sql` 22-29), and row locks last no longer than a
transaction (statement timeout 5 s): hence weak fairness of a poll of each
source with a present reading and no locked row. A batch is bounded by its
deadline (`runtime.rs` 111): weak fairness of its next step *or* its being cut
off. Nothing is assumed of a worker that holds a lease. The enrichment
runs assume that cron's batches keep bringing the lane's job back (what
`NoLaneIsLost` says), that waiting tasks, leases and pauses come to their end,
and that chance stops interfering (`calm`); requests that never parse go on. From
then on no game enters the queue either, nor is one requeued (`Enter`), so that
`OpenTasksSettle` and `LanesTakeTurns` are about the games that are there. The batch
run assumes that time passes, that cron keeps invoking, and that an invocation
which is not cut off goes on; `NoLaneIsLost` is conditional on the cuts
ending, and on the lane's source being the first choice of a batch again and
again, outside a cooldown: with the parity of the minute this holds when cron
runs every minute and no parity is skipped for ever. `CrashLoopsEnd` is
conditional on refunds (yields, operator recoveries) ending, because a job that
always yields is, by design, never charged.

Each property has a mutant in `PROJECT.json`: a definition of the module
changed as a plausible bug would change it (expiry off by one, a refund
forgotten, the retirement job sharing the upload's key, a commit without the
account lock, ...), under which TLC finds the property violated. The mutated
forms stand beside the definitions they replace and nothing else uses them.

## 4. Proofs

All for arbitrary constants satisfying the named assumptions
(`QueueAssumption`, `NullAssumption`; `StoreAssumption`,
`AbsenceAssumption`; `ClientAssumption`, `NoEntryAssumption`; `IngestionAssumption`; `EnrichmentAssumption`;
`SessionAssumption`, `WebAssumption`; `BatchAssumption`), checked by `tlapm`.

`JobQueueProofs`. The inductive invariant `Inv` is that `jobs` is a function on
the keys and `RowInv` holds of every row: its attempts are exactly accounted
for, only a leased row has an owner, a job still in the queue carries no
permanent error, and a row that exists has a request. The attempt part needs
the others: a pending row that could be exhausted would be leased over its
budget, and a refund is only exact for a row that has paid. `OneActivePerLane`
is proved on top of it. Row by row lemmas (`Recycled`, `Leased`, `Yielded`, ...) carry the step proofs.
`TypeCorrect`, `AttemptsAreAccounted`, `OneActiveJobPerLane` follow;
`SettledJobsAreFinal` and `LiveLeasesAreExclusive` are action properties from
the same invariant, the latter for every lag: whatever reading a call uses, a
lease that is live now was live at that reading. `QueueImplementsLifecycle` maps
each step to one lifecycle step per job (`TakeOver` is what an expired lease
that is recycled and leased again in one call looks like to a client). The
mapping counts an attempt when it is decided, not when it is leased.

`AvatarStoreProofs`. `CommittedAvatarsAreStored` needs to know *why* no
deletion can hit a committed object. `Inv` has five parts. `Types`. `Unused`: a
key whose upload has not begun has no job. `Uploading`: while an upload may
still commit, its clean-up job is the fresh pending row, due after the upload
ends, so no batch holds it (`CleanupWaits`). `Referenced`: what an account
refers to is stored, committed, and not being deleted. `Doomed`: whatever a
handler or a batch has decided to delete is unreferenced, and its upload is
over; keys being fresh, it stays so. `DeletedAccountsKeepNoAvatar` rests on the account lock in `CommitAvatar`.

`OrphansStayKnown` needs the other side: *that* something will look.
`CleanupInv` adds, besides the rows' types and attempts (`Rows`) and the bound on
uploads (`WindowsShort`): an upload that has begun has its clean-up job, and only
such an upload can have stored an object (`Begun`); the second job exists exactly
for a committed object that no account refers to any more (`Retirement`); a batch
works on jobs of the table, and finds an object referenced only on behalf of the
upload's job, after the commit (`Held`); and while an object is stored, its second
job is not completed, and its first only if it was committed (`Cleaned`). So the
job of an upload may give the object up only once it is the other job's to
find. `QueueConstants` shows that the store uses the queue within the
queue's assumptions (a retry delay of at least 1, which `fail_job` demands,
`jobs.rs` 358), and `MovesJobsThroughTheQueue` that every step of the store is one
of `JobQueue` or leaves the table alone: what is proved of the queue holds of the
cleanup jobs. `TypeCorrect` follows from both invariants.

`FeedbackQueueProofs` (assumptions `ClientAssumption`, `AbsenceAssumption`,
`NoEntryAssumption`). The invariant is per key and says the same (`Ok`) of the
entry in memory and of the one in storage, because a restart replaces one by
the other and because an undo changes both: an entry never attempted has no row
and no late post; a click to keep is uncancelled and recorded, or still to be
posted; a click to undo whose feedback is, or may become, active is replayed
by the next flush. `Waiting` ties a flush to its entry: while it posts, the
entry is in doubt (attempted, without an answer) in both places, so a post
served at any time, also after its caller has gone, is one whose undo is owed
(`CreateWorld`). All traces of a key name one account, hence one row per key,
and a repeated post adds none. `Reaches` describes where the loop of a flush
can get to without its recursion over entries: it marks entries, drops old
ones, or stops at one it will send; `ReachedInv` is proved once for all nine
actions that run it. From it follow `TypeCorrect`,
`FeedbackIsRecordedForItsOwner`, `FeedbackIsNotLost` and
`UndoneFeedbackIsUndone`.

`GameIngestionProofs`. The invariant `Inv` is per row: only an open task has an
owner; `complete` as status and as stage coincide; an open task has failures left
of the kind it saw last, a dead one has none, whatever mixture led there; no
expiry lies below the oldest reading. Each call is first described by what it
does to one row (`RowQueued`, `RowClaimed`, ...), and the invariant is proved
for these. That a pause cannot revive a settled task (`HeldTasksAreOpen`) is the
conjunct the others lean on: `pause_lane` writes the status of every row under
its caller's name without looking at it. `PausedLanesHold` and
`LiveLeasesAreExclusive` compare the caller's reading with the fastest clock, for
any lag. `IngestionImplementsPipeline` shows one pipeline step per game for
each call, and needs the invariant where a row's owner implies that it is
open.

`EnrichmentRunProofs`. `Inv` says of the rows that only open tasks stand in line,
each once, and that a task neither complete nor buried has a stage and an
attempt left (`QueueInv`, which rests on `RemoveFirstFacts` and `AppendFacts` about
the line); of the run where it may be with what (`RunInv`); that the task it
holds is open and not leased to a run that was cut off (`HeldInv`); and of the
launch (`LaunchInv`) that the stage a run has just finished is no longer owed, and
that a run in one of its parts has no launch before it or no stage to spend. The
last is why `LaunchesComeFirst` holds: `LaunchesGoFirst` by itself is not inductive,
because a part goes on after the run has looked at the checkpoint.
`OnlyTheUnsavedIsForgotten` needs the other two: a lane saves a new launch only where
there was none, and the checkpoint moves past a stage only when that has been run.
`MovesGamesThroughThePipeline`
describes each step by what it does to one game (`AppMoves`): most are quiet,
`AdvanceTask` and `IngestFails` move the game the run holds, `Crash` leaves it to a
lease that nobody renews.

`WebSessionProofs`. The server first: `ServerInv` adds to its two properties that
a transaction in progress excludes whatever ends sessions (the write lock),
so what it read is still true when it commits, and that roots are issued
sessions. `ServerSafe` is about `AccountSessions` alone, with any token presented in
any order; the client steps are server steps or leave the server alone
(`SpecSafe`). `ServerKeepsLines` maps a sign-in to the beginning of a line,
a rotation to its hand-over and everything that revokes to the end of some
lines; that the line is still good when a rotation commits is the part of
`TxInv` that the row lock of `refresh_account_session` gives, and without
which a session revoked during a rotation would come back as its replacement. When a
line must end, it does not say: a sign-out that a rotation overtakes ends nothing.
`SpecKeepsLines` is the same under the clients. The client invariant is per tab: a refresh that nothing has
overtaken is one of the session the tab holds, and once refused, that session
is expired or its sign-in is dead; a tab whose user has left has nothing in
flight that would still be taken. A sign-in stays dead: rotation starts from a
live session and a new sign-in is a root of its own. `SpecSignedOut` and
`SpecGivesUp` follow.

`WorkerBatchProofs`. `LeaseInv`: an invocation within its lease holds it, with what
its age leaves of it, however long others outlive theirs; so two within
theirs are one (`BatchLeaseExcludes`). `SteamInv` has two parts. `Covered`: the
cooldown covers the rest that Steam asked for, or the invocation that was asked
is about to save it. `Begun`: whoever is between the look at the
cooldown and the end of a Steam job is there while no cooldown exists. Together they
give `SteamStaysAlone`. They need that no second invocation is at work, which is
`LeaseInv` and `MaxRun < LeaseMs`; the job that was limited plays no part in them.

Only model-checked: liveness (`CrashLoopsEnd`, `OrphansGoAway`, `OpenTasksSettle`,
`LanesTakeTurns`, `NoLaneIsLost`), because the provers handle neither fairness nor
`ENABLED`. Every invariant, action property and refinement that a passing run
checks is a theorem.

## 5. What is abstracted, and what is missing

- Retries inside the object store client and HTTP errors are outcomes of one
  request; image decoding has no effect on the stores.
- Avatar moderation (a block per content, version numbers) is not modelled: no
  cleanup decision reads it.
- The cleanup batch may take arbitrarily long, which includes its 45 s deadline.
- Owners of batches are random and never reused; the model reuses a name only
  when no trace of its previous bearer is left.
- Feedback: one tab over one local storage that does not fail; the records of
  an older format without an owner; the 401 retry of `client.ts` 316-347,
  which repeats a request the server did not accept; what an unanswered undo
  call and the settings page display. The interaction events that
  `post_feedback` adds when feedback is attributed are not read back.
- Ingestion: statistics and audit rows; the profile `full_override`, which nothing
  assigns; priorities, which are all 0.
- Enrichment: which games a lane has due, the pacing of requests and the
  parsing of answers are inputs; runs do not overlap.
- Worker batch: what a job does inside (for enrichment, `EnrichmentRun`); the
  audit rows of `source_runs`, a conflict on which is among the errors.
  Overlapping invocations may also write back an older status row and shorten a
  cooldown; the model has these steps, and no property excludes them.
- Sessions: one account; anonymous identities are all alike; the password
  itself; the merge of an anonymous subject into an account.
- Retention: the operator's `pipeline-retention` (`apps/dbtool/src/main.rs`
  2614-2759) deletes jobs settled before a cutoff, and with them their
  idempotency keys; `SettledIsFinal` is about rows that stay.

*Not modelled.* Request budgets and AI admission (`shared_limits.rs`), the
per-host limiter and circuit breaker (`crates/ai`) and the discovery cursors are
small state machines and the next candidates (section 6). Community, curation,
play intents, telemetry and user profiles are single transactions with no
interleaving of their own. Catalog, ingest, retrieval, query and quality are
data transformations and SQL reads; the recommender scores in floating point.
The HTTP layer, the operator's tool, the desktop shell and the deployment
scripts are routing, reports and I/O. Most of the repository's lines are in these
parts.

## 6. Plan

Done: `JobQueue`, `AvatarStore`, `FeedbackQueue`, `GameIngestion`,
`EnrichmentRun`, `AccountSessions`/`WebSession` and `WorkerBatch`, all with their
proofs. Next:

1. An abstract specification of the batch lease and the lanes, implemented by
   `WorkerBatch`.
2. `SharedLimits`: windows and AI leases; the limits as theorems. `HostLimit`
   composed with it.
3. `DiscoveryCursor`: crash between ingest and save; refines "every page is
   ingested at least once".
4. `FeedbackQueue` with two tabs over one storage; avatar moderation;
   `FeedSnapshot`; bounded checks of the re-ranking's constraints.

## 7. Running

    tlc -config JobQueue.cfg MCJobQueue.tla
    tlc -config AvatarStoreSafety.cfg MCAvatarStore.tla
    tlc -config AvatarStoreLiveness.cfg MCAvatarStore.tla
    tlc -config FeedbackQueueSafety.cfg MCFeedbackQueue.tla
    tlc -config FeedbackQueueOnlySettledAreDropped.cfg MCFeedbackQueue.tla
    tlc -config GameIngestionSafety.cfg MCGameIngestion.tla
    tlc -config EnrichmentRunProgress.cfg MCEnrichmentRun.tla
    tlc -config EnrichmentRunPoison.cfg MCEnrichmentRun.tla
    tlc -config WebSessionSafety.cfg MCWebSession.tla
    tlc -config WebSessionFalseAlarm.cfg MCWebSession.tla
    tlc -config WebSessionLogoutAll.cfg MCWebSession.tla
    tlc -config WorkerBatch.cfg MCWorkerBatch.tla
    tlapm JobQueueProofs.tla
    tlapm AvatarStoreProofs.tla
    tlapm FeedbackQueueProofs.tla
    tlapm GameIngestionProofs.tla
    tlapm EnrichmentRunProofs.tla
    tlapm WebSessionProofs.tla
    tlapm WorkerBatchProofs.tla
