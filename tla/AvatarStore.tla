----------------------------- MODULE AvatarStore -----------------------------
(***************************************************************************)
(* Avatars: their metadata in PostgreSQL, their bytes in an object store,  *)
(* and the cleanup jobs that keep the two together.  No transaction spans  *)
(* the two stores.  An upload therefore queues the deletion of its own     *)
(* object before it writes it, and the cleanup batch deletes an object     *)
(* only if no account refers to it when its job is run.                    *)
(*                                                                         *)
(* The queue is the module JobQueue: every operation on jobs below is one  *)
(* of its operations.  Time is offsets from the present, as it is there.   *)
(*                                                                         *)
(* External: the object store.  A request to it may take effect before or  *)
(* after its caller stops waiting, and the caller may see an error though  *)
(* it took effect.  A write takes effect within UploadWindow.              *)
(***************************************************************************)
EXTENDS Integers, FiniteSets

CONSTANTS
  User,          \* accounts
  Content,       \* processed images, by content hash
  Nonce,         \* the random part of an object key
  Invocation,    \* owners of cleanup batches, one per request
  UploadWindow,  \* an upload has no effect this long after it queued its cleanup
  Grace,         \* due time of the cleanup job of an upload
  RetireDelay,   \* due time of the cleanup job of a retired avatar
  RetryDelay,    \* delay of a failed deletion
  CleanupLease,  \* lease of a cleanup job
  BatchLimit,    \* jobs per batch
  MaxAttempts,   \* attempts of a cleanup job
  MaxLag,        \* see JobQueue
  NoObject, NoJob, NoRequest, NoOwner, NoCompletion, NoError

ObjectKey == [user : User, content : Content, nonce : Nonce]

\* Idempotency keys of the two jobs an object can have.
JobKey == [kind : {"upload", "retired"}, object : ObjectKey]
UploadJob(k) == [kind |-> "upload", object |-> k]
RetiredJobShared(k) == UploadJob(k)
RetiredJob(k) == [kind |-> "retired", object |-> k]

CleanupOf(k) == [lane |-> k, priority |-> 10, max_attempts |-> MaxAttempts]

ASSUME StoreAssumption ==
  /\ UploadWindow \in Nat
  /\ Grace \in Nat
  /\ UploadWindow < Grace
  /\ RetireDelay \in Nat
  /\ {RetryDelay, CleanupLease, BatchLimit} \subseteq Nat \ {0}
  /\ MaxAttempts \in 1..100
  /\ MaxLag \in Nat

ASSUME AbsenceAssumption ==
  /\ NoObject \notin ObjectKey
  /\ NoJob \notin JobKey
  /\ NoRequest \notin {CleanupOf(k) : k \in ObjectKey}
  /\ NoOwner \notin Invocation
  /\ NoCompletion # "avatar-cleanup"
  /\ NoError \notin {"network", "storage", "rate_limited", "auth", "not_found",
                     "invalid_payload", "parse_changed"}

VARIABLES
  active,    \* accounts that are not deleted
  avatar,    \* avatar[u]: storage_key in user_avatars
  jobs,      \* the table jobs
  objects,   \* the bucket
  upload,    \* upload[k]: how far the request that uploads k has come
  window,    \* window[k]: how long it may still have effects
  deleting,  \* objects some handler has asked the store to delete
  batch      \* batch[b]: the cleanup request of owner b

vars == <<active, avatar, jobs, objects, upload, window, deleting, batch>>

Queue ==
  INSTANCE JobQueue WITH
    Key <- JobKey, Lane <- ObjectKey,
    Source <- {"avatar_cleanup"}, SourceOf <- [k \in ObjectKey |-> "avatar_cleanup"],
    ScheduledLane <- {}, Request <- {CleanupOf(k) : k \in ObjectKey},
    Owner <- Invocation, Completion <- {"avatar-cleanup"}, Category <- {"network"},
    LeaseMs <- {CleanupLease}, DelayMs <- {Grace, RetireDelay, RetryDelay},
    Limit <- {BatchLimit}

\* A batch: the leased jobs it has not begun, the one it works on, and what it
\* knows about the object of that one.
Verdict == {"none", "unreferenced", "referenced", "deleted", "failed"}
Batch == [todo : SUBSET JobKey, job : JobKey \cup {NoJob}, verdict : Verdict]
Idle == [todo |-> {}, job |-> NoJob, verdict |-> "none"]

TypeOK ==
  /\ active \subseteq User
  /\ avatar \in [User -> ObjectKey \cup {NoObject}]
  /\ Queue!TypeOK
  /\ objects \subseteq ObjectKey
  /\ upload \in [ObjectKey -> {"none", "queued", "stored", "failed", "committed"}]
  /\ window \in [ObjectKey -> 0..UploadWindow]
  /\ deleting \subseteq ObjectKey
  /\ batch \in [Invocation -> Batch]

Init ==
  /\ active = User
  /\ avatar = [u \in User |-> NoObject]
  /\ Queue!Init
  /\ objects = {}
  /\ upload = [k \in ObjectKey |-> "none"]
  /\ window = [k \in ObjectKey |-> 0]
  /\ deleting = {}
  /\ batch = [b \in Invocation |-> Idle]

\* enqueue_job, which answers with the existing row when the key has one.
Enqueue(j, due) ==
  IF jobs[j].status = "absent"
  THEN Queue!EnqueueJob(j, CleanupOf(j.object), due)
  ELSE UNCHANGED jobs

InUse(k) == \E u \in User : avatar[u] = k

-----------------------------------------------------------------------------
(* PUT /v1/me/avatar.                                                      *)

\* avatar_storage_key: the random part makes every key new.
KeyOfContent(k) == window[k] = 0
NewKey(k) == upload[k] = "none"

\* queue_uncommitted_avatar_cleanup.  The account was active when the request
\* was authenticated and may be deleted by now.  The handler may stop after
\* this and every later step: an error, its deadline, the end of the instance.
BeginUpload(k) ==
  /\ NewKey(k)
  /\ Enqueue(UploadJob(k), Grace)
  /\ upload' = [upload EXCEPT ![k] = "queued"]
  /\ window' = [window EXCEPT ![k] = UploadWindow]
  /\ UNCHANGED <<active, avatar, objects, deleting, batch>>

\* The write takes effect, and the handler learns it or does not.
StoreObject(k) ==
  /\ upload[k] = "queued"
  /\ window[k] > 0
  /\ objects' = objects \cup {k}
  /\ \E answer \in {"stored", "failed"} : upload' = [upload EXCEPT ![k] = answer]
  /\ UNCHANGED <<active, avatar, jobs, window, deleting, batch>>

\* set_avatar_metadata, one transaction; for a deleted account it fails.
CommitUnlocked(k) ==
  /\ upload[k] = "stored"
  /\ window[k] > 0
  /\ avatar' = [avatar EXCEPT ![k.user] = k]
  /\ IF avatar[k.user] \in ObjectKey \ {k}
     THEN Enqueue(RetiredJob(avatar[k.user]), RetireDelay)
     ELSE UNCHANGED jobs
  /\ upload' = [upload EXCEPT ![k] = "committed"]
  /\ UNCHANGED <<active, objects, window, deleting, batch>>
CommitAvatar(k) ==
  /\ upload[k] = "stored"
  /\ window[k] > 0
  /\ k.user \in active
  /\ avatar' = [avatar EXCEPT ![k.user] = k]
  /\ IF avatar[k.user] \in ObjectKey \ {k}
     THEN Enqueue(RetiredJob(avatar[k.user]), RetireDelay)
     ELSE UNCHANGED jobs
  /\ upload' = [upload EXCEPT ![k] = "committed"]
  /\ UNCHANGED <<active, objects, window, deleting, batch>>

-----------------------------------------------------------------------------
(* DELETE /v1/me/avatar and DELETE /v1/me.                                 *)

\* Metadata and retirement in one transaction, then the handler asks the
\* store to delete the object; that request may be lost or arrive late.
RemoveThenRead(u) ==
  /\ avatar[u] # NoObject
  /\ avatar' = [avatar EXCEPT ![u] = NoObject]
  /\ Enqueue(RetiredJob(avatar[u]), RetireDelay)
  /\ deleting' = deleting \cup {avatar'[u]}
RemoveAvatar(u) ==
  /\ avatar[u] # NoObject
  /\ avatar' = [avatar EXCEPT ![u] = NoObject]
  /\ Enqueue(RetiredJob(avatar[u]), RetireDelay)
  /\ deleting' = deleting \cup {avatar[u]}

DeleteAvatar(u) ==
  /\ RemoveAvatar(u)
  /\ UNCHANGED <<active, objects, upload, window, batch>>

DeleteMe(u) ==
  /\ u \in active
  /\ active' = active \ {u}
  /\ RemoveAvatar(u) \/ (avatar[u] = NoObject /\ UNCHANGED <<avatar, jobs, deleting>>)
  /\ UNCHANGED <<objects, upload, window, batch>>

\* Such a request takes effect.
DirectDelete(k) ==
  /\ k \in deleting
  /\ objects' = objects \ {k}
  /\ deleting' = deleting \ {k}
  /\ UNCHANGED <<active, avatar, jobs, upload, window, batch>>

-----------------------------------------------------------------------------
(* POST /internal/v1/avatar-cleanup.                                       *)

\* The owner of a batch is random: b stands for a new one once nothing is
\* left of the old.
NewOwner(b) == batch[b] = Idle /\ \A j \in JobKey : jobs[j].owner # b

LeaseBatch(b) ==
  /\ NewOwner(b)
  /\ \E now \in Queue!Reading :
       Queue!LeaseJobs(b, {"avatar_cleanup"}, BatchLimit, CleanupLease, now, {})
  /\ batch' = [batch EXCEPT ![b].todo = {j \in JobKey : jobs'[j].owner = b}]
  /\ UNCHANGED <<active, avatar, objects, upload, window, deleting>>

\* avatar_storage_key_in_use.  When the lookup fails the batch goes on to the
\* next job and leaves this lease to expire.
LookUp(b, j) ==
  /\ batch[b].job = NoJob
  /\ j \in batch[b].todo
  /\ batch' = [batch EXCEPT ![b] =
       [todo |-> @.todo \ {j}, job |-> j,
        verdict |-> IF InUse(j.object) THEN "referenced" ELSE "unreferenced"]]
  /\ UNCHANGED <<active, avatar, jobs, objects, upload, window, deleting>>

SkipJob(b, j) ==
  /\ batch[b].job = NoJob
  /\ j \in batch[b].todo
  /\ batch' = [batch EXCEPT ![b].todo = @ \ {j}]
  /\ UNCHANGED <<active, avatar, jobs, objects, upload, window, deleting>>

\* The deletion succeeds, or the batch sees an error, whether or not the
\* object is gone.
DeleteObject(b) ==
  /\ batch[b].verdict = "unreferenced"
  /\ \/ /\ objects' = objects \ {batch[b].job.object}
        /\ \E answer \in {"deleted", "failed"} : batch' = [batch EXCEPT ![b].verdict = answer]
     \/ /\ batch' = [batch EXCEPT ![b].verdict = "failed"]
        /\ UNCHANGED objects
  /\ UNCHANGED <<active, avatar, jobs, upload, window, deleting>>

DeletionIgnored(v) == v \in {"referenced", "deleted", "failed"}
DeletionOk(v) == v \in {"referenced", "deleted"}

\* complete_job or fail_job; either is refused when the lease is lost, and the
\* batch goes on to the next job.
FinishJob(b) ==
  LET j == batch[b].job
      v == batch[b].verdict
      record(now) ==
        IF DeletionOk(v)
        THEN Queue!CompleteJob(j, b, "avatar-cleanup", now)
        ELSE Queue!FailJob(j, b, "network", RetryDelay, now)
  IN  /\ v \in {"referenced", "deleted", "failed"}
      /\ \E now \in Queue!Reading :
           IF Queue!LiveLease(jobs[j], b, now) THEN record(now) ELSE UNCHANGED jobs
      /\ batch' = [batch EXCEPT ![b].job = NoJob, ![b].verdict = "none"]
      /\ UNCHANGED <<active, avatar, objects, upload, window, deleting>>

\* The deadline of the batch, or the end of its instance.
StopBatch(b) ==
  /\ batch[b] # Idle
  /\ batch' = [batch EXCEPT ![b] = Idle]
  /\ UNCHANGED <<active, avatar, jobs, objects, upload, window, deleting>>

-----------------------------------------------------------------------------

Tick ==
  /\ Queue!Tick
  /\ window' = [k \in ObjectKey |-> IF window[k] > 0 THEN window[k] - 1 ELSE 0]
  /\ UNCHANGED <<active, avatar, objects, upload, deleting, batch>>

Upload(k) == BeginUpload(k) \/ StoreObject(k) \/ CommitAvatar(k)

Remove == \E u \in User : DeleteAvatar(u) \/ DeleteMe(u)

Work(b) ==
  \/ \E j \in JobKey : LookUp(b, j) \/ SkipJob(b, j)
  \/ DeleteObject(b)
  \/ FinishJob(b)

Next ==
  \/ \E k \in ObjectKey : Upload(k) \/ DirectDelete(k)
  \/ Remove
  \/ \E b \in Invocation : LeaseBatch(b) \/ Work(b) \/ StopBatch(b)
  \/ Tick

Spec == Init /\ [][Next]_vars

\* The cleanup is requested every five minutes by a new owner, and no batch
\* outlives its deadline.  Nothing else is assumed: every deletion may fail
\* and every batch may be cut off.
Fairness ==
  /\ WF_vars(Tick)
  /\ WF_vars(\E b \in Invocation : LeaseBatch(b))
  /\ \A b \in Invocation : WF_vars(Work(b) \/ StopBatch(b))

FairSpec == Spec /\ Fairness

-----------------------------------------------------------------------------
(* Correctness.                                                            *)

\* An account never refers to an object that is not in the store: no cleanup
\* job, direct deletion or abandoned upload, however late, takes away the
\* object of a committed avatar.
ReferencedIsStored == \A u \in User : avatar[u] # NoObject => avatar[u] \in objects

\* Jobs that will still look at object k: not yet leased, or held by a batch
\* that has not seen it referenced.
WillVisit(j) ==
  /\ jobs[j].status \in {"pending", "leased"}
  /\ ~\E b \in Invocation : batch[b].job = j /\ batch[b].verdict = "referenced"

GaveUp(j) == jobs[j].status = "dead" /\ jobs[j].attempts = MaxAttempts

\* An object no account refers to is never forgotten: from the moment its
\* upload can no longer be committed, or its avatar is replaced or deleted,
\* some cleanup job will visit it, unless one has used up its attempts.
OrphansAreKnown ==
  \A k \in objects :
    ~InUse(k) /\ (upload[k] = "committed" \/ window[k] = 0) =>
      \E j \in {UploadJob(k), RetiredJob(k)} : WillVisit(j) \/ GaveUp(j)

\* A deleted account keeps no avatar, even if an upload of it was under way.
DeletedKeepsNoAvatar == \A u \in User \ active : avatar[u] = NoObject

\* Orphans go away: an unreferenced object is deleted, or its cleanup gave up
\* after MaxAttempts attempts.  (Its upload may also commit it.)
OrphansGoAway ==
  \A k \in ObjectKey :
    k \in objects /\ ~InUse(k) ~>
      k \notin objects \/ InUse(k) \/ GaveUp(UploadJob(k)) \/ GaveUp(RetiredJob(k))
=============================================================================
