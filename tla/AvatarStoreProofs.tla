-------------------------- MODULE AvatarStoreProofs --------------------------
(***************************************************************************)
(* Proofs about AvatarStore for every set of accounts, contents, object    *)
(* keys and batches, and every choice of delays in which the cleanup job   *)
(* of an upload falls due after the upload has ended.                      *)
(***************************************************************************)
EXTENDS AvatarStore, TLAPS

\* The row that queue_uncommitted_avatar_cleanup inserted for k, of any age.
WaitingRow(k) ==
  [status : {"pending"}, req : {CleanupOf(k)}, attempts : {0}, due : Int,
   owner : {NoOwner}, expires : Int, completion : {NoCompletion}, error : {NoError}]

\* While the upload of k may still commit, its cleanup job waits, and it is
\* not due on any clock.
CleanupWaits(k) ==
  window[k] > 0 =>
    /\ jobs[UploadJob(k)] \in WaitingRow(k)
    /\ jobs[UploadJob(k)].due > window[k]

\* The upload of k has begun, and it can no longer commit.
Ended(k) == upload[k] # "none" /\ (window[k] = 0 \/ upload[k] = "committed")

Types ==
  /\ avatar \in [User -> ObjectKey \cup {NoObject}]
  /\ jobs = [j \in JobKey |-> jobs[j]]
  /\ objects \subseteq ObjectKey
  /\ upload \in [ObjectKey -> {"none", "queued", "stored", "failed", "committed"}]
  /\ window \in [ObjectKey -> Nat]
  /\ deleting \subseteq ObjectKey
  /\ batch \in [Invocation -> Batch]

\* Each key is used once: what is known of it before its upload begins.
Unused ==
  \A k \in ObjectKey :
    upload[k] = "none" => window[k] = 0 /\ jobs[UploadJob(k)].status = "absent"

Uploading ==
  \A k \in ObjectKey :
    /\ CleanupWaits(k)
    /\ upload[k] = "stored" /\ window[k] > 0 => k \in objects
    /\ jobs[RetiredJob(k)].status # "absent" => upload[k] = "committed"

Referenced ==
  \A u \in User : avatar[u] # NoObject =>
    /\ avatar[u].user = u
    /\ avatar[u] \in objects
    /\ upload[avatar[u]] = "committed"
    /\ avatar[u] \notin deleting

\* Whatever a handler or a batch has decided to delete stays unreferenced.
Doomed ==
  /\ \A k \in deleting : upload[k] = "committed" /\ ~InUse(k)
  /\ \A b \in Invocation :
       /\ \A j \in batch[b].todo : Ended(j.object)
       /\ batch[b].job # NoJob => Ended(batch[b].job.object)
       /\ batch[b].verdict = "unreferenced" =>
            batch[b].job # NoJob /\ ~InUse(batch[b].job.object)

Inv == Types /\ Unused /\ Uploading /\ Referenced /\ Doomed

-----------------------------------------------------------------------------
(* What the operations of the queue leave alone.                           *)

\* The keys of the two jobs of an object, and of two objects, are different.
LEMMA JobKeys ==
  ASSUME NEW k \in ObjectKey
  PROVE  /\ UploadJob(k) \in JobKey
         /\ RetiredJob(k) \in JobKey
         /\ UploadJob(k).object = k
         /\ RetiredJob(k).object = k
         /\ \A l \in ObjectKey : UploadJob(k) # RetiredJob(l)
         /\ \A l \in ObjectKey : UploadJob(k) = UploadJob(l) => k = l
         /\ \A l \in ObjectKey : RetiredJob(k) = RetiredJob(l) => k = l
  BY DEF JobKey, UploadJob, RetiredJob

\* A job is one of the two jobs of its object.
LEMMA JobIsOneOfTwo ==
  ASSUME NEW j \in JobKey
  PROVE  j.object \in ObjectKey /\ (j = UploadJob(j.object) \/ j = RetiredJob(j.object))
  BY DEF JobKey, UploadJob, RetiredJob

\* An enqueue inserts the row of its key or finds it, and touches no other.
LEMMA EnqueueEffect ==
  ASSUME Types, NEW j \in JobKey, NEW due, Enqueue(j, due)
  PROVE  /\ jobs' = [i \in JobKey |-> jobs'[i]]
         /\ \A i \in JobKey \ {j} : jobs'[i] = jobs[i]
         /\ jobs[j].status # "absent" => jobs'[j] = jobs[j]
         /\ jobs[j].status = "absent" => jobs'[j] = Queue!NewRow(CleanupOf(j.object), due)
  BY DEF Types, Enqueue, Queue!EnqueueJob

\* An enqueue inserts a waiting row, due when it is told.
LEMMA NewRowWaits ==
  ASSUME NEW k \in ObjectKey, NEW due \in Int
  PROVE  /\ Queue!NewRow(CleanupOf(k), due) \in WaitingRow(k)
         /\ Queue!NewRow(CleanupOf(k), due).due = due
<1>1. Queue!Past \in Int
  BY StoreAssumption DEF Queue!Past
<1>2. Queue!NewRow(CleanupOf(k), due) \in WaitingRow(k)
  BY <1>1 DEF Queue!NewRow, Queue!Absent, WaitingRow
<1>. QED
  BY <1>2 DEF Queue!NewRow, Queue!Absent

\* A waiting row is pending and has an attempt left.
LEMMA WaitingRowFacts ==
  ASSUME NEW k \in ObjectKey, NEW row \in WaitingRow(k)
  PROVE  /\ row.status = "pending"
         /\ row.due \in Int
         /\ ~Queue!Exhausted(row)
<1>1. row.attempts = 0 /\ row.req = CleanupOf(k) /\ row.status = "pending" /\ row.due \in Int
  BY DEF WaitingRow
<1>2. CleanupOf(k).max_attempts >= 1 /\ CleanupOf(k).max_attempts \in Nat
  BY StoreAssumption DEF CleanupOf
<1>. QED
  BY <1>1, <1>2 DEF Queue!Exhausted

\* A poll leaves alone the rows that are not active, and the pending rows that
\* are not due.
LEMMA PollEffect ==
  ASSUME Types, NEW b \in Invocation, NEW now \in Queue!Reading,
         Queue!LeaseJobs(b, {"avatar_cleanup"}, BatchLimit, CleanupLease, now, {})
  PROVE  /\ jobs' = [i \in JobKey |-> jobs'[i]]
         /\ \A j \in JobKey : jobs[j].status \notin {"pending", "leased"} => jobs'[j] = jobs[j]
         /\ \A j \in JobKey :
              jobs[j].status = "pending" /\ ~Queue!Exhausted(jobs[j])
                /\ ~(jobs[j].due <= now) => jobs'[j] = jobs[j]
<1> DEFINE table == Queue!Recycled(now)
           free == Queue!Claimable(table, {"avatar_cleanup"}, now)
                     \ {k \in {} : table[k] = jobs[k]}
<1>1. PICK S \in Queue!Batches(table, free, BatchLimit) :
        jobs' = [k \in JobKey |->
                  IF k \in S THEN Queue!Leased(table[k], b, now + CleanupLease) ELSE table[k]]
  BY DEF Queue!LeaseJobs
<1>2. \A j \in S : table[j].status = "pending" /\ table[j].due <= now
  BY DEF Queue!Batches, Queue!Claimable
<1>3. ASSUME NEW j \in JobKey,
             \/ jobs[j].status \notin {"pending", "leased"}
             \/ jobs[j].status = "pending" /\ ~Queue!Exhausted(jobs[j])
      PROVE  table[j] = jobs[j]
  BY <1>3 DEF Queue!Recycled, Queue!LeaseExpired
<1>. QED
  BY <1>1, <1>2, <1>3

-----------------------------------------------------------------------------
(* The invariant holds initially, and every action preserves it.           *)

\* Empty stores and idle batches.
LEMMA InitInv == Init => Inv
<1> SUFFICES ASSUME Init PROVE Inv
  OBVIOUS
<1>1. Types
  BY StoreAssumption DEF Init, Types, Queue!Init, Batch, Idle, Verdict
<1>2. \A j \in JobKey : jobs[j].status = "absent"
  BY DEF Init, Queue!Init, Queue!Absent
<1>3. Unused /\ Uploading
  BY <1>1, <1>2, JobKeys DEF Init, Unused, Uploading, CleanupWaits
<1>4. Referenced
  BY DEF Init, Referenced
<1>5. Doomed
  BY DEF Init, Doomed, Idle
<1>. QED
  BY <1>1, <1>3, <1>4, <1>5 DEF Inv

\* A new upload: its job is queued before anything else happens to its key.
LEMMA BeginUploadInv ==
  ASSUME Inv, NEW k \in ObjectKey, BeginUpload(k)
  PROVE  Inv'
<1> USE DEF Inv
<1>1. /\ upload[k] = "none"
      /\ upload' = [upload EXCEPT ![k] = "queued"]
      /\ window' = [window EXCEPT ![k] = UploadWindow]
      /\ UNCHANGED <<active, avatar, objects, deleting, batch>>
      /\ Enqueue(UploadJob(k), Grace)
  BY DEF BeginUpload, NewKey
<1>2. window[k] = 0 /\ jobs[UploadJob(k)].status = "absent"
  BY <1>1 DEF Unused
<1>3. /\ jobs' = [i \in JobKey |-> jobs'[i]]
      /\ \A i \in JobKey \ {UploadJob(k)} : jobs'[i] = jobs[i]
      /\ jobs'[UploadJob(k)] = Queue!NewRow(CleanupOf(k), Grace)
  BY <1>1, <1>2, EnqueueEffect, JobKeys
<1>4. Types'
  BY <1>1, <1>3, StoreAssumption DEF Types
<1>5. /\ upload'[k] = "queued"
      /\ window'[k] = UploadWindow
      /\ \A l \in ObjectKey \ {k} : upload'[l] = upload[l] /\ window'[l] = window[l]
  BY <1>1 DEF Types
<1>6. Unused'
  BY <1>3, <1>5, JobKeys DEF Unused
<1>7. Uploading'
  <2>1. CleanupWaits(k)'
    BY <1>3, <1>5, NewRowWaits, StoreAssumption DEF CleanupWaits
  <2>2. \A l \in ObjectKey \ {k} : CleanupWaits(l)'
    BY <1>3, <1>5, JobKeys DEF Uploading, CleanupWaits
  <2>3. \A l \in ObjectKey : jobs'[RetiredJob(l)] = jobs[RetiredJob(l)]
    BY <1>3, JobKeys
  <2>. QED
    BY <1>1, <1>5, <2>1, <2>2, <2>3 DEF Uploading
<1>8. Referenced'
  BY <1>1, <1>5 DEF Referenced, Types
<1>9. Doomed'
  <2>1. \A l \in ObjectKey : Ended(l) => Ended(l)'
    BY <1>1, <1>5 DEF Ended
  <2>2. \A b \in Invocation : \A j \in batch[b].todo : j.object \in ObjectKey
    BY JobIsOneOfTwo DEF Types, Batch
  <2>3. \A b \in Invocation : batch[b].job # NoJob => batch[b].job.object \in ObjectKey
    BY JobIsOneOfTwo DEF Types, Batch
  <2>. QED
    BY <1>1, <1>5, <2>1, <2>2, <2>3 DEF Doomed, InUse
<1>. QED
  BY <1>4, <1>6, <1>7, <1>8, <1>9

\* The objects a batch holds are objects.
LEMMA BatchObjects ==
  ASSUME Types, NEW b \in Invocation
  PROVE  /\ \A j \in batch[b].todo : j \in JobKey /\ j.object \in ObjectKey
         /\ batch[b].job # NoJob => batch[b].job \in JobKey /\ batch[b].job.object \in ObjectKey
  BY JobIsOneOfTwo DEF Types, Batch

\* The object appears; a late answer to the handler changes nothing else.
LEMMA StoreObjectInv ==
  ASSUME Inv, NEW k \in ObjectKey, StoreObject(k)
  PROVE  Inv'
<1> USE DEF Inv
<1>1. PICK answer \in {"stored", "failed"} : upload' = [upload EXCEPT ![k] = answer]
  BY DEF StoreObject
<1>2. /\ upload[k] = "queued"
      /\ window[k] > 0
      /\ objects' = objects \cup {k}
      /\ UNCHANGED <<active, avatar, jobs, window, deleting, batch>>
  BY DEF StoreObject
<1>3. /\ upload'[k] = answer
      /\ \A l \in ObjectKey \ {k} : upload'[l] = upload[l]
  BY <1>1 DEF Types
<1>4. Types'
  BY <1>1, <1>2 DEF Types
<1>5. Unused'
  BY <1>2, <1>3 DEF Unused
<1>6. Uploading'
  BY <1>2, <1>3 DEF Uploading, CleanupWaits
<1>7. Referenced'
  BY <1>2, <1>3 DEF Referenced, Types
<1>8. Doomed'
  <2>1. \A l \in ObjectKey : Ended(l) => Ended(l)'
    BY <1>2, <1>3 DEF Ended, Types
  <2>. QED
    BY <1>2, <1>3, <2>1, BatchObjects DEF Doomed, InUse, Types
<1>. QED
  BY <1>4, <1>5, <1>6, <1>7, <1>8

\* Retiring a committed object keeps every fact about the table.
LEMMA RetireTable ==
  ASSUME Types, Unused, Uploading, NEW k \in ObjectKey, upload[k] = "committed",
         Enqueue(RetiredJob(k), RetireDelay)
  PROVE  /\ jobs' = [i \in JobKey |-> jobs'[i]]
         /\ \A l \in ObjectKey : jobs'[UploadJob(l)] = jobs[UploadJob(l)]
         /\ \A l \in ObjectKey :
              jobs'[RetiredJob(l)].status # "absent" => upload[l] = "committed"
<1>1. /\ jobs' = [i \in JobKey |-> jobs'[i]]
      /\ \A i \in JobKey \ {RetiredJob(k)} : jobs'[i] = jobs[i]
  BY EnqueueEffect, JobKeys
<1>2. \A l \in ObjectKey \ {k} : jobs'[RetiredJob(l)] = jobs[RetiredJob(l)]
  BY <1>1, JobKeys
<1>. QED
  BY <1>1, <1>2, JobKeys DEF Uploading

\* The avatar changes hands in one transaction.
LEMMA CommitAvatarInv ==
  ASSUME Inv, NEW k \in ObjectKey, CommitAvatar(k)
  PROVE  Inv'
<1> USE DEF Inv
<1>1. /\ upload[k] = "stored"
      /\ window[k] > 0
      /\ avatar' = [avatar EXCEPT ![k.user] = k]
      /\ upload' = [upload EXCEPT ![k] = "committed"]
      /\ UNCHANGED <<active, objects, window, deleting, batch>>
  BY DEF CommitAvatar
<1>2. k.user \in User
  BY DEF ObjectKey
<1>3. /\ jobs' = [i \in JobKey |-> jobs'[i]]
      /\ \A l \in ObjectKey : jobs'[UploadJob(l)] = jobs[UploadJob(l)]
      /\ \A l \in ObjectKey :
           jobs'[RetiredJob(l)].status # "absent" => upload[l] = "committed"
  <2>1. CASE avatar[k.user] \in ObjectKey \ {k}
    <3>1. Enqueue(RetiredJob(avatar[k.user]), RetireDelay)
      BY <2>1 DEF CommitAvatar
    <3>2. upload[avatar[k.user]] = "committed"
      BY <1>2, <2>1, AbsenceAssumption DEF Referenced
    <3>. QED
      BY <2>1, <3>1, <3>2, RetireTable
  <2>2. CASE avatar[k.user] \notin ObjectKey \ {k}
    BY <2>2 DEF CommitAvatar, Types, Uploading
  <2>. QED
    BY <2>1, <2>2
<1>4. /\ upload'[k] = "committed"
      /\ avatar'[k.user] = k
      /\ \A l \in ObjectKey \ {k} : upload'[l] = upload[l]
      /\ \A u \in User \ {k.user} : avatar'[u] = avatar[u]
  BY <1>1, <1>2 DEF Types
<1>5. Types'
  BY <1>1, <1>2, <1>3 DEF Types
<1>6. Unused'
  BY <1>1, <1>3, <1>4 DEF Unused
<1>7. Uploading'
  BY <1>1, <1>3, <1>4 DEF Uploading, CleanupWaits
<1>8. k \in objects /\ k \notin deleting
  BY <1>1 DEF Uploading, Doomed
<1>9. Referenced'
  BY <1>1, <1>2, <1>4, <1>8 DEF Referenced, Types
<1>10. Doomed'
  <2>1. \A l \in ObjectKey : Ended(l) => Ended(l)' /\ l # k
    BY <1>1, <1>4 DEF Ended, Types
  <2>2. \A l \in ObjectKey \ {k} : ~InUse(l) => ~InUse(l)'
    BY <1>2, <1>4 DEF InUse
  <2>3. \A l \in deleting : l \in ObjectKey \ {k}
    BY <1>8 DEF Types
  <2>. QED
    BY <1>1, <1>4, <2>1, <2>2, <2>3, BatchObjects DEF Doomed
<1>. QED
  BY <1>5, <1>6, <1>7, <1>9, <1>10

\* What DELETE /v1/me/avatar and DELETE /v1/me do to an avatar.
LEMMA RemoveAvatarInv ==
  ASSUME Inv, NEW u \in User, RemoveAvatar(u),
         UNCHANGED <<objects, upload, window, batch>>
  PROVE  Inv'
<1> USE DEF Inv
<1> DEFINE k == avatar[u]
<1>1. /\ avatar' = [avatar EXCEPT ![u] = NoObject]
      /\ Enqueue(RetiredJob(k), RetireDelay)
      /\ deleting' = deleting \cup {k}
      /\ k \in ObjectKey
      /\ k.user = u
      /\ upload[k] = "committed"
  BY DEF RemoveAvatar, Types, Referenced
<1>2. /\ jobs' = [i \in JobKey |-> jobs'[i]]
      /\ \A l \in ObjectKey : jobs'[UploadJob(l)] = jobs[UploadJob(l)]
      /\ \A l \in ObjectKey :
           jobs'[RetiredJob(l)].status # "absent" => upload[l] = "committed"
  BY <1>1, RetireTable
<1>3. /\ avatar'[u] = NoObject
      /\ \A v \in User \ {u} : avatar'[v] = avatar[v]
  BY <1>1 DEF Types
<1>4. Types'
  BY <1>1, <1>2 DEF Types
<1>5. Unused' /\ Uploading'
  BY <1>2 DEF Unused, Uploading, CleanupWaits
<1>6. Referenced'
  BY <1>1, <1>3 DEF Referenced
<1>7. Doomed'
  <2>1. \A l \in ObjectKey : InUse(l)' => InUse(l) /\ l # k
    BY <1>1, <1>3, AbsenceAssumption DEF InUse, Referenced
  <2>2. \A l \in ObjectKey : Ended(l) => Ended(l)'
    BY DEF Ended
  <2>. QED
    BY <1>1, <2>1, <2>2, BatchObjects DEF Doomed, Types
<1>. QED
  BY <1>4, <1>5, <1>6, <1>7

\* A deletion requested by a handler, however late it takes effect.
LEMMA DirectDeleteInv ==
  ASSUME Inv, NEW k \in ObjectKey, DirectDelete(k)
  PROVE  Inv'
<1> USE DEF Inv
<1>1. /\ objects' = objects \ {k}
      /\ deleting' = deleting \ {k}
      /\ UNCHANGED <<active, avatar, jobs, upload, window, batch>>
      /\ upload[k] = "committed"
      /\ ~InUse(k)
  BY DEF DirectDelete, Doomed
<1>2. Types' /\ Unused'
  BY <1>1 DEF Types, Unused
<1>3. Uploading'
  BY <1>1 DEF Uploading, CleanupWaits
<1>4. Referenced'
  BY <1>1 DEF Referenced, InUse
<1>5. Doomed'
  BY <1>1 DEF Doomed, Ended, InUse
<1>. QED
  BY <1>2, <1>3, <1>4, <1>5

\* A batch is granted no job of an upload that may still commit.
LEMMA LeaseBatchInv ==
  ASSUME Inv, NEW b \in Invocation, LeaseBatch(b)
  PROVE  Inv'
<1> USE DEF Inv
<1>1. PICK now \in Queue!Reading :
        Queue!LeaseJobs(b, {"avatar_cleanup"}, BatchLimit, CleanupLease, now, {})
  BY DEF LeaseBatch
<1>2. /\ \A j \in JobKey : jobs[j].owner # b
      /\ batch[b] = Idle
      /\ batch' = [batch EXCEPT ![b].todo = {j \in JobKey : jobs'[j].owner = b}]
      /\ UNCHANGED <<active, avatar, objects, upload, window, deleting>>
  BY DEF LeaseBatch, NewOwner
<1>3. /\ jobs' = [i \in JobKey |-> jobs'[i]]
      /\ \A j \in JobKey : jobs[j].status \notin {"pending", "leased"} => jobs'[j] = jobs[j]
      /\ \A j \in JobKey :
           jobs[j].status = "pending" /\ ~Queue!Exhausted(jobs[j])
             /\ ~(jobs[j].due <= now) => jobs'[j] = jobs[j]
  BY <1>1, PollEffect
<1>4. now \in Int /\ now <= 0
  BY StoreAssumption DEF Queue!Reading, Queue!Past
<1>5. ASSUME NEW k \in ObjectKey, window[k] > 0
      PROVE  jobs'[UploadJob(k)] = jobs[UploadJob(k)]
  <2>1. jobs[UploadJob(k)] \in WaitingRow(k) /\ jobs[UploadJob(k)].due > window[k]
    BY <1>5 DEF Uploading, CleanupWaits
  <2>2. ~(jobs[UploadJob(k)].due <= now)
    BY <1>4, <1>5, <2>1, WaitingRowFacts DEF Types
  <2>. QED
    BY <1>3, <2>1, <2>2, WaitingRowFacts, JobKeys
<1>6. \A k \in ObjectKey :
        jobs'[RetiredJob(k)].status # "absent" => upload[k] = "committed"
  BY <1>3, JobKeys DEF Uploading
<1>7. Types'
  <2>1. batch'[b] \in Batch
    BY <1>2 DEF Types, Batch, Idle
  <2>. QED
    BY <1>2, <1>3, <2>1 DEF Types
<1>8. Unused'
  BY <1>2, <1>3, JobKeys DEF Unused
<1>9. Uploading'
  BY <1>2, <1>5, <1>6 DEF Uploading, CleanupWaits
<1>10. Referenced'
  BY <1>2 DEF Referenced
<1>11. Doomed'
  <2>1. ASSUME NEW j \in JobKey, jobs'[j].owner = b
        PROVE  Ended(j.object)
    <3>1. jobs'[j] # jobs[j] /\ jobs[j].status \in {"pending", "leased"}
      BY <1>2, <1>3, <2>1
    <3>2. CASE j = UploadJob(j.object)
      <4>1. upload[j.object] # "none"
        BY <3>1, <3>2, JobIsOneOfTwo DEF Unused
      <4>2. ~(window[j.object] > 0)
        BY <1>5, <3>1, <3>2, JobIsOneOfTwo
      <4>. QED
        BY <4>1, <4>2, JobIsOneOfTwo DEF Ended, Types
    <3>3. CASE j = RetiredJob(j.object)
      BY <3>1, <3>3, JobIsOneOfTwo DEF Uploading, Ended
    <3>. QED
      BY <3>2, <3>3, JobIsOneOfTwo
  <2>2. /\ batch'[b].todo = {j \in JobKey : jobs'[j].owner = b}
        /\ batch'[b].job = NoJob
        /\ batch'[b].verdict = "none"
        /\ \A c \in Invocation \ {b} : batch'[c] = batch[c]
    BY <1>2 DEF Types, Idle
  <2>. QED
    BY <1>2, <2>1, <2>2 DEF Doomed, Ended, InUse
<1>. QED
  BY <1>7, <1>8, <1>9, <1>10, <1>11

\* An object found unreferenced after its upload has ended stays so.
LEMMA LookUpInv ==
  ASSUME Inv, NEW b \in Invocation, NEW j \in JobKey, LookUp(b, j)
  PROVE  Inv'
<1> USE DEF Inv
<1> DEFINE next == [todo |-> batch[b].todo \ {j}, job |-> j,
                    verdict |-> IF InUse(j.object) THEN "referenced" ELSE "unreferenced"]
<1>1. /\ j \in batch[b].todo
      /\ batch' = [batch EXCEPT ![b] = next]
      /\ UNCHANGED <<active, avatar, jobs, objects, upload, window, deleting>>
  BY DEF LookUp
<1>2. next \in Batch
  BY DEF Types, Batch, Verdict
<1>3. batch'[b] = next /\ \A c \in Invocation \ {b} : batch'[c] = batch[c]
  BY <1>1 DEF Types
<1>4. Types' /\ Unused' /\ Uploading' /\ Referenced'
  BY <1>1, <1>2 DEF Types, Unused, Uploading, CleanupWaits, Referenced
<1>5. Doomed'
  <2>1. Ended(j.object)
    BY <1>1 DEF Doomed
  <2>2. j # NoJob
    BY AbsenceAssumption
  <2>. QED
    BY <1>1, <1>3, <2>1, <2>2 DEF Doomed, Ended, InUse
<1>. QED
  BY <1>4, <1>5

\* A batch that forgets what it was to do, or part of it.
LEMMA BatchForgets ==
  ASSUME Inv, NEW b \in Invocation, NEW next \in Batch,
         batch' = [batch EXCEPT ![b] = next],
         next.todo \subseteq batch[b].todo,
         next.job \in {NoJob, batch[b].job},
         next.verdict # "unreferenced",
         UNCHANGED <<avatar, upload, window, deleting>>
  PROVE  Doomed'
<1> USE DEF Inv
<1>1. batch'[b] = next /\ \A c \in Invocation \ {b} : batch'[c] = batch[c]
  BY DEF Types
<1>. QED
  BY <1>1 DEF Doomed, Ended, InUse

\* A failed lookup leaves the job to its lease.
LEMMA SkipJobInv ==
  ASSUME Inv, NEW b \in Invocation, NEW j \in JobKey, SkipJob(b, j)
  PROVE  Inv'
<1> USE DEF Inv
<1> DEFINE next == [batch[b] EXCEPT !.todo = @ \ {j}]
<1>1. /\ batch[b].job = NoJob
      /\ batch' = [batch EXCEPT ![b] = next]
      /\ UNCHANGED <<active, avatar, jobs, objects, upload, window, deleting>>
  BY DEF SkipJob
<1>2. batch[b] \in Batch /\ next \in Batch
  BY DEF Types, Batch
<1>3. next.todo \subseteq batch[b].todo /\ next.job = batch[b].job
      /\ next.verdict = batch[b].verdict
  BY <1>2 DEF Batch
<1>4. next.verdict # "unreferenced"
  BY <1>1, <1>3 DEF Doomed
<1>5. Types' /\ Unused' /\ Uploading' /\ Referenced'
  BY <1>1, <1>2 DEF Types, Unused, Uploading, CleanupWaits, Referenced
<1>. QED
  BY <1>1, <1>2, <1>3, <1>4, <1>5, BatchForgets

\* The batch deletes an object only if it is still unreferenced and cannot be
\* referenced any more.
LEMMA DeleteObjectInv ==
  ASSUME Inv, NEW b \in Invocation, DeleteObject(b)
  PROVE  Inv'
<1> USE DEF Inv
<1> DEFINE k == batch[b].job.object
<1>1. PICK answer \in {"deleted", "failed"} : batch' = [batch EXCEPT ![b].verdict = answer]
  BY DEF DeleteObject
<1>2. /\ objects' = objects \/ objects' = objects \ {k}
      /\ UNCHANGED <<active, avatar, jobs, upload, window, deleting>>
  BY DEF DeleteObject
<1>3. k \in ObjectKey /\ Ended(k) /\ ~InUse(k)
  BY BatchObjects DEF DeleteObject, Doomed
<1> DEFINE next == [batch[b] EXCEPT !.verdict = answer]
<1>4. batch[b] \in Batch /\ next \in Batch
  BY DEF Types, Batch, Verdict
<1>5. next.todo = batch[b].todo /\ next.job = batch[b].job /\ next.verdict = answer
  BY <1>4 DEF Batch
<1>6. Doomed'
  BY <1>1, <1>2, <1>4, <1>5, BatchForgets
<1>7. Types' /\ Unused'
  BY <1>1, <1>2, <1>4 DEF Types, Unused
<1>8. Uploading'
  <2>1. \A l \in ObjectKey : upload[l] = "stored" /\ window[l] > 0 => l \in objects'
    <3>1. ASSUME NEW l \in ObjectKey, upload[l] = "stored", window[l] > 0
          PROVE  l \in objects /\ l # k
      BY <1>3, <3>1 DEF Uploading, Ended
    <3>. QED
      BY <1>2, <3>1
  <2>2. \A l \in ObjectKey : CleanupWaits(l)'
    BY <1>2 DEF Uploading, CleanupWaits
  <2>. QED
    BY <1>2, <2>1, <2>2 DEF Uploading
<1>9. Referenced'
  BY <1>2, <1>3 DEF Referenced, InUse
<1>. QED
  BY <1>6, <1>7, <1>8, <1>9

\* Recording a result touches leased rows only.
LEMMA FinishJobInv ==
  ASSUME Inv, NEW b \in Invocation, FinishJob(b)
  PROVE  Inv'
<1> USE DEF Inv
<1> DEFINE j == batch[b].job
           next == [batch[b] EXCEPT !.job = NoJob, !.verdict = "none"]
<1>1. /\ batch' = [batch EXCEPT ![b].job = NoJob, ![b].verdict = "none"]
      /\ UNCHANGED <<active, avatar, objects, upload, window, deleting>>
      /\ \E now \in Queue!Reading :
           \/ Queue!CompleteJob(j, b, "avatar-cleanup", now)
           \/ Queue!FailJob(j, b, "network", RetryDelay, now)
           \/ UNCHANGED jobs
  BY DEF FinishJob
<1>2. /\ jobs' = [i \in JobKey |-> jobs'[i]]
      /\ \A i \in JobKey : jobs[i].status # "leased" => jobs'[i] = jobs[i]
  <2>1. CASE UNCHANGED jobs
    BY <2>1 DEF Types
  <2>2. ASSUME NEW now \in Queue!Reading, Queue!CompleteJob(j, b, "avatar-cleanup", now)
        PROVE  <1>2
    BY <2>2 DEF Types, Queue!CompleteJob, Queue!LiveLease
  <2>3. ASSUME NEW now \in Queue!Reading, Queue!FailJob(j, b, "network", RetryDelay, now)
        PROVE  <1>2
    BY <2>3 DEF Types, Queue!FailJob, Queue!LiveLease
  <2>. QED
    BY <1>1, <2>1, <2>2, <2>3
<1>3. batch[b] \in Batch /\ next \in Batch
  BY DEF Types, Batch, Verdict
<1>4. batch' = [batch EXCEPT ![b] = next]
  BY <1>1 DEF Types
<1>5. next.todo = batch[b].todo /\ next.job = NoJob /\ next.verdict = "none"
  BY <1>3 DEF Batch
<1>6. Doomed'
  BY <1>1, <1>3, <1>4, <1>5, BatchForgets
<1>7. Types'
  BY <1>1, <1>2, <1>3, <1>4 DEF Types
<1>10. Unused'
  <2>1. ASSUME NEW k \in ObjectKey, upload[k] = "none"
        PROVE  jobs'[UploadJob(k)] = jobs[UploadJob(k)]
    BY <1>2, <2>1, JobKeys DEF Unused
  <2>. QED
    BY <1>1, <2>1 DEF Unused
<1>8. Uploading'
  <2>1. ASSUME NEW k \in ObjectKey, window[k] > 0
        PROVE  jobs'[UploadJob(k)] = jobs[UploadJob(k)]
    BY <1>2, <2>1, WaitingRowFacts, JobKeys DEF Uploading, CleanupWaits
  <2>2. \A k \in ObjectKey :
          jobs'[RetiredJob(k)].status # "absent" => upload[k] = "committed"
    BY <1>2, JobKeys DEF Uploading
  <2>. QED
    BY <1>1, <2>1, <2>2 DEF Uploading, CleanupWaits
<1>9. Referenced'
  BY <1>1 DEF Referenced
<1>. QED
  BY <1>6, <1>7, <1>8, <1>9, <1>10

\* A batch cut off between any two steps has decided nothing.
LEMMA StopBatchInv ==
  ASSUME Inv, NEW b \in Invocation, StopBatch(b)
  PROVE  Inv'
<1> USE DEF Inv
<1>1. /\ batch' = [batch EXCEPT ![b] = Idle]
      /\ UNCHANGED <<active, avatar, jobs, objects, upload, window, deleting>>
  BY DEF StopBatch
<1>2. Idle \in Batch
  BY DEF Idle, Batch, Verdict
<1>3. Doomed'
  BY <1>1, <1>2, BatchForgets DEF Idle
<1>. QED
  BY <1>1, <1>2, <1>3 DEF Types, Unused, Uploading, CleanupWaits, Referenced

\* A waiting row comes one unit closer to its due time.
LEMMA WaitingRowAges ==
  ASSUME NEW k \in ObjectKey, NEW row \in WaitingRow(k), row.due > 0
  PROVE  /\ Queue!Aged(row) \in WaitingRow(k)
         /\ Queue!Aged(row).due = row.due - 1
<1>1. Queue!Past \in Int /\ Queue!Past <= 0
  BY StoreAssumption DEF Queue!Past
<1>2. row.due \in Int /\ row.expires \in Int
  BY DEF WaitingRow
<1>3. Queue!Older(row.due) = row.due - 1 /\ Queue!Older(row.expires) \in Int
  BY <1>1, <1>2 DEF Queue!Older
<1>4. Queue!Older(row.due) \in Int
  BY <1>2, <1>3
<1>5. Queue!Aged(row) \in WaitingRow(k)
  BY <1>3, <1>4 DEF Queue!Aged, WaitingRow
<1>6. Queue!Aged(row).due = Queue!Older(row.due)
  BY DEF Queue!Aged, WaitingRow
<1>. QED
  BY <1>3, <1>5, <1>6

\* Ageing keeps the status of a row.
LEMMA AgedStatus ==
  ASSUME NEW row
  PROVE  Queue!Aged(row).status = row.status
  BY DEF Queue!Aged

\* The cleanup job of an upload falls due after the upload has ended.
LEMMA TickInv ==
  ASSUME Inv, Tick
  PROVE  Inv'
<1> USE DEF Inv
<1>1. /\ jobs' = [j \in JobKey |-> Queue!Aged(jobs[j])]
      /\ window' = [k \in ObjectKey |-> IF window[k] > 0 THEN window[k] - 1 ELSE 0]
      /\ UNCHANGED <<active, avatar, objects, upload, deleting, batch>>
  BY DEF Tick, Queue!Tick
<1>2. \A k \in ObjectKey : window[k] \in Nat
  BY DEF Types
<1>3. Types'
  BY <1>1, <1>2 DEF Types
<1>4. \A j \in JobKey : jobs'[j].status = jobs[j].status
  BY <1>1, AgedStatus
<1>5. Unused'
  BY <1>1, <1>4, JobKeys DEF Unused
<1>6. Uploading'
  <2>1. ASSUME NEW k \in ObjectKey, window'[k] > 0
        PROVE  CleanupWaits(k)'
    <3>1. window[k] > 0 /\ window'[k] = window[k] - 1
      BY <1>1, <1>2, <2>1
    <3>2. jobs[UploadJob(k)] \in WaitingRow(k) /\ jobs[UploadJob(k)].due > window[k]
      BY <3>1 DEF Uploading, CleanupWaits
    <3>3. jobs'[UploadJob(k)] = Queue!Aged(jobs[UploadJob(k)])
      BY <1>1, JobKeys
    <3>4. jobs[UploadJob(k)].due > 0 /\ jobs[UploadJob(k)].due - 1 > window'[k]
      BY <1>2, <3>1, <3>2, WaitingRowFacts
    <3>. QED
      BY <3>2, <3>3, <3>4, WaitingRowAges DEF CleanupWaits
  <2>2. \A k \in ObjectKey : CleanupWaits(k)'
    BY <2>1 DEF CleanupWaits
  <2>3. \A k \in ObjectKey : window'[k] > 0 => window[k] > 0
    BY <1>1, <1>2
  <2>. QED
    BY <1>1, <1>4, <2>2, <2>3, JobKeys DEF Uploading
<1>7. Referenced'
  BY <1>1 DEF Referenced
<1>8. Doomed'
  <2>1. \A k \in ObjectKey : Ended(k) => Ended(k)'
    BY <1>1 DEF Ended
  <2>. QED
    BY <1>1, <2>1, BatchObjects DEF Doomed, InUse
<1>. QED
  BY <1>3, <1>5, <1>6, <1>7, <1>8

-----------------------------------------------------------------------------
(* The theorems.                                                           *)

\* Every step preserves the invariant.
LEMMA NextInv == Inv /\ [Next]_vars => Inv'
<1> SUFFICES ASSUME Inv, [Next]_vars
             PROVE  Inv'
  OBVIOUS
<1>1. ASSUME NEW u \in User, DeleteMe(u)
      PROVE  Inv'
  <2>1. CASE RemoveAvatar(u)
    BY <1>1, <2>1, RemoveAvatarInv DEF DeleteMe
  <2>2. CASE avatar[u] = NoObject /\ UNCHANGED <<avatar, jobs, deleting>>
    BY <1>1, <2>2 DEF DeleteMe, Inv, Types, Unused, Uploading, CleanupWaits, Referenced,
                      Doomed, Ended, InUse
  <2>. QED
    BY <1>1, <2>1, <2>2 DEF DeleteMe
<1>2. CASE UNCHANGED vars
  BY <1>2 DEF vars, Inv, Types, Unused, Uploading, CleanupWaits, Referenced, Doomed, Ended, InUse
<1>3. CASE Remove
  BY <1>1, <1>3, RemoveAvatarInv DEF Remove, DeleteAvatar
<1>4. ASSUME NEW k \in ObjectKey, Upload(k) \/ DirectDelete(k)
      PROVE  Inv'
  BY <1>4, BeginUploadInv, StoreObjectInv, CommitAvatarInv, DirectDeleteInv DEF Upload
<1>5. ASSUME NEW b \in Invocation, LeaseBatch(b) \/ Work(b) \/ StopBatch(b)
      PROVE  Inv'
  BY <1>5, LeaseBatchInv, LookUpInv, SkipJobInv, DeleteObjectInv, FinishJobInv, StopBatchInv
     DEF Work
<1>. QED
  BY <1>2, <1>3, <1>4, <1>5, TickInv DEF Next

\* Whatever uploads, deletions and cleanup batches do, in any order, the
\* invariant holds.
THEOREM Invariance == Spec => []Inv
  BY InitInv, NextInv, PTL DEF Spec

\* An account never refers to an object that is gone from the store: the grace
\* period of the upload job and the reference check of the cleanup batch
\* protect every committed avatar, with any number of accounts and batches.
THEOREM CommittedAvatarsAreStored == Spec => []ReferencedIsStored
<1>1. Inv => ReferencedIsStored
  BY DEF Inv, Referenced, ReferencedIsStored
<1>. QED
  BY <1>1, Invariance, PTL

\* An account deleted while an upload of it is under way ends up with no avatar
\* all the same: set_avatar_metadata and delete_account lock the account row.
THEOREM DeletedAccountsKeepNoAvatar == Spec => []DeletedKeepsNoAvatar
<1>1. Init => DeletedKeepsNoAvatar
  BY DEF Init, DeletedKeepsNoAvatar
<1>2. Inv /\ DeletedKeepsNoAvatar /\ [Next]_vars => DeletedKeepsNoAvatar'
  <2> SUFFICES ASSUME Inv, DeletedKeepsNoAvatar, [Next]_vars
               PROVE  DeletedKeepsNoAvatar'
    OBVIOUS
  <2>0. avatar \in [User -> ObjectKey \cup {NoObject}]
    BY DEF Inv, Types
  <2>1. ASSUME NEW k \in ObjectKey, CommitAvatar(k)
        PROVE  DeletedKeepsNoAvatar'
    BY <2>0, <2>1 DEF CommitAvatar, DeletedKeepsNoAvatar
  <2>2. ASSUME NEW u \in User, DeleteAvatar(u) \/ DeleteMe(u)
        PROVE  DeletedKeepsNoAvatar'
    BY <2>0, <2>2 DEF DeleteAvatar, DeleteMe, RemoveAvatar, DeletedKeepsNoAvatar
  <2>3. CASE UNCHANGED <<active, avatar>>
    BY <2>3 DEF DeletedKeepsNoAvatar
  <2>4. \/ UNCHANGED <<active, avatar>>
        \/ \E k \in ObjectKey : CommitAvatar(k)
        \/ \E u \in User : DeleteAvatar(u) \/ DeleteMe(u)
    BY DEF Next, vars, Upload, BeginUpload, StoreObject, DirectDelete, Remove, LeaseBatch,
           Work, LookUp, SkipJob, DeleteObject, FinishJob, StopBatch, Tick
  <2>. QED
    BY <2>1, <2>2, <2>3, <2>4
<1>. QED
  BY <1>1, <1>2, Invariance, PTL DEF Spec

-----------------------------------------------------------------------------
(* The rows of the cleanup jobs.                                           *)

\* A cleanup job asks for its own object, and its attempts are exact: this is
\* what JobQueue!AttemptsAccounted says of it.
CleanupRow(j, row) ==
  /\ row \in Queue!Row
  /\ row.status # "absent" => row.req = CleanupOf(j.object)
  /\ row.status = "pending" => row.attempts < MaxAttempts
  /\ row.status = "leased" => row.attempts \in 1..MaxAttempts
  /\ row.status = "dead" => row.attempts = MaxAttempts

Rows == \A j \in JobKey : CleanupRow(j, jobs[j])

Known(j) == jobs[j].status # "absent"

\* What a step that records no result of a batch does to the table.
RowsKept ==
  \A j \in JobKey :
    /\ CleanupRow(j, jobs'[j])
    /\ Known(j) => Known(j)'
    /\ jobs'[j].status = "completed" => jobs[j].status = "completed"

\* The fields of a row of the table.
LEMMA RowFields ==
  ASSUME NEW row \in Queue!Row
  PROVE  /\ row.status \in {"absent", "pending", "leased", "completed", "dead"}
         /\ row.attempts \in Nat
         /\ row.due \in Int
         /\ row.expires \in Int
  BY DEF Queue!Row, Queue!Status

\* Instants are integers.
LEMMA Instants ==
  /\ Queue!Past \in Int
  /\ \A now \in Queue!Reading : now \in Int
  BY StoreAssumption DEF Queue!Past, Queue!Reading

\* The budget of a cleanup job is MaxAttempts.
LEMMA Budget ==
  ASSUME NEW j \in JobKey, NEW row, CleanupRow(j, row), row.status # "absent"
  PROVE  Queue!Exhausted(row) <=> row.attempts >= MaxAttempts
  BY DEF CleanupRow, Queue!Exhausted, CleanupOf

\* The row of an enqueue.
LEMMA NewRowRow ==
  ASSUME NEW j \in JobKey, NEW due \in Int
  PROVE  /\ CleanupRow(j, Queue!NewRow(CleanupOf(j.object), due))
         /\ Queue!NewRow(CleanupOf(j.object), due).status = "pending"
<1> DEFINE row == Queue!NewRow(CleanupOf(j.object), due)
<1>1. /\ row.status = "pending"
      /\ row.req = CleanupOf(j.object)
      /\ row.attempts = 0
  BY DEF Queue!NewRow, Queue!Absent
<1>2. row \in Queue!Row
  BY Instants, JobIsOneOfTwo DEF Queue!NewRow, Queue!Absent, Queue!Row, Queue!Status
<1>. QED
  BY <1>1, <1>2, StoreAssumption DEF CleanupRow

\* Taking a lease away changes the status, the owner and the expiry only.
LEMMA UnleasedRow ==
  ASSUME NEW row \in Queue!Row, NEW status \in Queue!Status
  PROVE  /\ Queue!Unlease(row, status) \in Queue!Row
         /\ Queue!Unlease(row, status).status = status
         /\ Queue!Unlease(row, status).req = row.req
         /\ Queue!Unlease(row, status).attempts = row.attempts
  BY Instants DEF Queue!Unlease, Queue!Row

\* The head of a poll: an expired lease goes back or dies, nothing else moves.
LEMMA RecycledRow ==
  ASSUME NEW j \in JobKey, NEW now \in Queue!Reading, CleanupRow(j, jobs[j])
  PROVE  /\ CleanupRow(j, Queue!Recycled(now)[j])
         /\ Queue!Recycled(now)[j].status = "absent" <=> ~Known(j)
         /\ Queue!Recycled(now)[j].status = "completed" => jobs[j].status = "completed"
<1> DEFINE row == jobs[j]
           recycled == Queue!Recycled(now)[j]
<1>1. row \in Queue!Row
  BY DEF CleanupRow
<1>2. recycled =
        IF Queue!LeaseExpired(row, now) \/ row.status = "pending"
        THEN IF Queue!Exhausted(row) THEN Queue!Unlease(row, "dead")
             ELSE IF row.status = "leased" THEN Queue!Unlease(row, "pending") ELSE row
        ELSE row
  BY DEF Queue!Recycled
<1>3. CASE row.status = "leased"
  <2>1. /\ Queue!Exhausted(row) <=> row.attempts >= MaxAttempts
        /\ row.attempts \in 1..MaxAttempts
        /\ row.req = CleanupOf(j.object)
    BY <1>3, Budget DEF CleanupRow
  <2>2. \/ recycled = row
        \/ recycled = Queue!Unlease(row, "dead") /\ row.attempts >= MaxAttempts
        \/ recycled = Queue!Unlease(row, "pending") /\ ~(row.attempts >= MaxAttempts)
    BY <1>2, <1>3, <2>1
  <2>. QED
    BY <1>1, <1>3, <2>1, <2>2, UnleasedRow, StoreAssumption
       DEF CleanupRow, Queue!Status, Known
<1>4. CASE row.status = "pending"
  <2>1. ~Queue!Exhausted(row)
    BY <1>1, <1>4, Budget, RowFields, StoreAssumption DEF CleanupRow
  <2>. QED
    BY <1>2, <1>4, <2>1 DEF Known
<1>5. CASE row.status \notin {"pending", "leased"}
  BY <1>2, <1>5 DEF Queue!LeaseExpired, Known
<1>. QED
  BY <1>3, <1>4, <1>5

\* A lease costs a pending job one attempt, which it has.
LEMMA LeasedRow ==
  ASSUME NEW j \in JobKey, NEW row, CleanupRow(j, row), row.status = "pending",
         NEW b \in Invocation, NEW expires \in Int
  PROVE  /\ CleanupRow(j, Queue!Leased(row, b, expires))
         /\ Queue!Leased(row, b, expires).status = "leased"
<1> DEFINE leased == Queue!Leased(row, b, expires)
<1>1. /\ row \in Queue!Row
      /\ row.attempts \in Nat
      /\ row.attempts < MaxAttempts
      /\ row.req = CleanupOf(j.object)
  BY RowFields DEF CleanupRow
<1>2. row.attempts + 1 \in Nat
  BY <1>1
<1>3. \A n \in Nat :
        /\ [row EXCEPT !.status = "leased", !.owner = b, !.expires = expires, !.attempts = n]
             \in Queue!Row
        /\ [row EXCEPT !.status = "leased", !.owner = b, !.expires = expires,
                       !.attempts = n].attempts = n
  BY <1>1 DEF Queue!Row, Queue!Status
<1>4. /\ leased \in Queue!Row
      /\ leased.attempts = row.attempts + 1
  BY <1>2, <1>3 DEF Queue!Leased
<1>5. leased.status = "leased" /\ leased.req = row.req
  BY <1>1 DEF Queue!Leased, Queue!Row
<1>. QED
  BY <1>1, <1>4, <1>5, StoreAssumption DEF CleanupRow

\* complete_job and fail_job end the lease of one row; the error is transient.
LEMMA EndedRow ==
  ASSUME NEW j \in JobKey, NEW row, CleanupRow(j, row), row.status = "leased",
         NEW due \in Int
  PROVE  /\ CleanupRow(j, Queue!Completed(row, "avatar-cleanup"))
         /\ Queue!Completed(row, "avatar-cleanup").status = "completed"
         /\ CleanupRow(j, IF Queue!FatalFailure(row, "network")
                          THEN Queue!Buried(row, "network")
                          ELSE Queue!Retried(row, "network", due))
         /\ (IF Queue!FatalFailure(row, "network")
             THEN Queue!Buried(row, "network")
             ELSE Queue!Retried(row, "network", due)).status \in {"dead", "pending"}
<1>1. /\ row \in Queue!Row
      /\ row.attempts \in 1..MaxAttempts
      /\ row.req = CleanupOf(j.object)
      /\ Queue!Exhausted(row) <=> row.attempts >= MaxAttempts
  BY Budget DEF CleanupRow
<1>2. Queue!FatalFailure(row, "network") <=> row.attempts >= MaxAttempts
  BY <1>1 DEF Queue!FatalFailure, Queue!PermanentCategory
<1>3. ASSUME NEW status \in {"completed", "dead", "pending"}
      PROVE  LET lost == Queue!Unlease(row, status) IN
             /\ lost \in Queue!Row
             /\ lost.status = status
             /\ lost.req = CleanupOf(j.object)
             /\ lost.attempts = row.attempts
  BY <1>1, UnleasedRow DEF Queue!Status
<1>4. LET row2 == Queue!Completed(row, "avatar-cleanup") IN
      row2 \in Queue!Row /\ row2.status = "completed" /\ row2.req = CleanupOf(j.object)
  BY <1>3 DEF Queue!Completed, Queue!Row
<1>5. LET row2 == Queue!Buried(row, "network") IN
      /\ row2 \in Queue!Row
      /\ row2.status = "dead"
      /\ row2.req = CleanupOf(j.object)
      /\ row2.attempts = row.attempts
  BY <1>3 DEF Queue!Buried, Queue!Row
<1>6. LET row2 == Queue!Retried(row, "network", due) IN
      /\ row2 \in Queue!Row
      /\ row2.status = "pending"
      /\ row2.req = CleanupOf(j.object)
      /\ row2.attempts = row.attempts
  BY <1>3 DEF Queue!Retried, Queue!Row
<1>7. CASE row.attempts >= MaxAttempts
  BY <1>1, <1>2, <1>4, <1>5, <1>7, StoreAssumption DEF CleanupRow
<1>8. CASE ~(row.attempts >= MaxAttempts)
  BY <1>1, <1>2, <1>4, <1>6, <1>8, StoreAssumption DEF CleanupRow
<1>. QED
  BY <1>7, <1>8

\* Time moves the instants of a row.
LEMMA AgedRow ==
  ASSUME NEW j \in JobKey, NEW row, CleanupRow(j, row)
  PROVE  /\ CleanupRow(j, Queue!Aged(row))
         /\ Queue!Aged(row).status = row.status
<1>1. row \in Queue!Row /\ row.due \in Int /\ row.expires \in Int
  BY RowFields DEF CleanupRow
<1>2. Queue!Older(row.due) \in Int /\ Queue!Older(row.expires) \in Int
  BY <1>1, Instants DEF Queue!Older
<1>3. Queue!Aged(row) \in Queue!Row
  BY <1>1, <1>2 DEF Queue!Aged, Queue!Row
<1>4. /\ Queue!Aged(row).status = row.status
      /\ Queue!Aged(row).req = row.req
      /\ Queue!Aged(row).attempts = row.attempts
  BY <1>1 DEF Queue!Aged, Queue!Row
<1>. QED
  BY <1>3, <1>4 DEF CleanupRow

\* A table that does not change keeps its rows.
LEMMA SameRows ==
  ASSUME Rows, UNCHANGED jobs
  PROVE  RowsKept
  BY DEF Rows, RowsKept, Known

\* An enqueue adds a row or nothing, and the row of its key is there after it.
LEMMA EnqueueRows ==
  ASSUME Types, Rows, NEW j \in JobKey, NEW due \in Int, Enqueue(j, due)
  PROVE  RowsKept /\ Known(j)'
<1>1. CASE Known(j)
  BY <1>1, SameRows DEF Enqueue, Known
<1>2. CASE ~Known(j)
  BY <1>2, EnqueueEffect, NewRowRow DEF Rows, RowsKept, Known
<1>. QED
  BY <1>1, <1>2

\* A poll never drops a job or completes one.
LEMMA PollRows ==
  ASSUME Types, Rows, NEW b \in Invocation, NEW now \in Queue!Reading,
         Queue!LeaseJobs(b, {"avatar_cleanup"}, BatchLimit, CleanupLease, now, {})
  PROVE  RowsKept
<1> DEFINE table == Queue!Recycled(now)
           free == Queue!Claimable(table, {"avatar_cleanup"}, now)
                     \ {k \in {} : table[k] = jobs[k]}
<1>1. PICK S \in Queue!Batches(table, free, BatchLimit) :
        jobs' = [k \in JobKey |->
                  IF k \in S THEN Queue!Leased(table[k], b, now + CleanupLease) ELSE table[k]]
  BY DEF Queue!LeaseJobs
<1>2. \A j \in S : table[j].status = "pending"
  BY DEF Queue!Batches, Queue!Claimable
<1>3. now + CleanupLease \in Int
  BY Instants, StoreAssumption
<1>4. ASSUME NEW j \in JobKey
      PROVE  /\ CleanupRow(j, jobs'[j])
             /\ Known(j) => Known(j)'
             /\ jobs'[j].status = "completed" => jobs[j].status = "completed"
  <2>1. /\ CleanupRow(j, table[j])
        /\ table[j].status = "absent" <=> ~Known(j)
        /\ table[j].status = "completed" => jobs[j].status = "completed"
    BY RecycledRow DEF Rows
  <2>2. CASE j \in S
    <3>1. jobs'[j] = Queue!Leased(table[j], b, now + CleanupLease)
      BY <1>1, <2>2
    <3>2. table[j].status = "pending"
      BY <1>2, <2>2
    <3>. QED
      BY <1>3, <2>1, <3>1, <3>2, LeasedRow DEF Known
  <2>3. CASE j \notin S
    BY <1>1, <2>1, <2>3 DEF Known
  <2>. QED
    BY <2>2, <2>3
<1>. QED
  BY <1>4 DEF RowsKept

-----------------------------------------------------------------------------
(* No orphan is forgotten.                                                 *)

\* An object has a retired job once it has been an avatar and is one no more.
Retirement ==
  \A k \in ObjectKey : Known(RetiredJob(k)) <=> upload[k] = "committed" /\ ~InUse(k)

\* Every upload that has begun has its cleanup job, and only such an upload
\* can have put an object into the store.
Begun ==
  \A k \in ObjectKey :
    /\ upload[k] # "none" => Known(UploadJob(k))
    /\ k \in objects => upload[k] # "none"

\* What a batch holds is in the table; it finds an object referenced only on
\* behalf of the upload's job, and what it has deleted is gone.
Held ==
  \A b \in Invocation :
    /\ \A j \in batch[b].todo : Known(j)
    /\ batch[b].verdict # "none" => batch[b].job # NoJob
    /\ batch[b].job # NoJob => Known(batch[b].job)
    /\ batch[b].verdict = "referenced" =>
         /\ batch[b].job = UploadJob(batch[b].job.object)
         /\ upload[batch[b].job.object] = "committed"
    /\ batch[b].verdict = "deleted" => batch[b].job.object \notin objects

\* A cleanup job that is completed has found its object referenced, or has
\* deleted it; the retired job never finds it referenced.
Cleaned ==
  \A k \in objects :
    /\ jobs[RetiredJob(k)].status # "completed"
    /\ jobs[UploadJob(k)].status = "completed" => upload[k] = "committed"

WindowsShort == \A k \in ObjectKey : window[k] \in 0..UploadWindow

CleanupInv == Rows /\ Retirement /\ Begun /\ Held /\ Cleaned /\ WindowsShort

\* The table is empty and nothing is stored.
LEMMA InitCleanup == Init => CleanupInv
<1> SUFFICES ASSUME Init PROVE CleanupInv
  OBVIOUS
<1>1. /\ jobs = [j \in JobKey |-> Queue!Absent]
      /\ objects = {}
      /\ upload = [k \in ObjectKey |-> "none"]
      /\ batch = [b \in Invocation |-> Idle]
      /\ window = [k \in ObjectKey |-> 0]
  BY DEF Init, Queue!Init
<1>2. Queue!Absent \in Queue!Row /\ Queue!Absent.status = "absent"
  BY Instants DEF Queue!Absent, Queue!Row, Queue!Status
<1>3. Rows
  BY <1>1, <1>2 DEF Rows, CleanupRow
<1>4. Retirement /\ Begun
  BY <1>1, <1>2, JobKeys DEF Retirement, Begun, Known
<1>5. Held
  BY <1>1 DEF Held, Idle
<1>6. Cleaned /\ WindowsShort
  BY <1>1, StoreAssumption DEF Cleaned, WindowsShort
<1>. QED
  BY <1>3, <1>4, <1>5, <1>6 DEF CleanupInv

\* A step that records no result cannot spoil what the batches hold, unless it
\* puts back an object one of them has deleted.
LEMMA HeldKept ==
  ASSUME Types, Held, RowsKept, UNCHANGED batch,
         \A k \in ObjectKey : upload[k] = "committed" => upload'[k] = "committed",
         \A b \in Invocation : batch[b].verdict = "deleted" => batch[b].job.object \notin objects'
  PROVE  Held'
  BY BatchObjects DEF Held, RowsKept, Known

\* The same of the completed jobs.
LEMMA CleanedKept ==
  ASSUME Types, Cleaned, RowsKept, objects' \subseteq objects,
         \A k \in ObjectKey : upload[k] = "committed" => upload'[k] = "committed"
  PROVE  Cleaned'
  BY JobKeys DEF Cleaned, RowsKept, Types

\* The same of the jobs of the uploads.
LEMMA BegunKept ==
  ASSUME Types, Begun, RowsKept, objects' \subseteq objects,
         \A k \in ObjectKey : upload'[k] = "none" <=> upload[k] = "none"
  PROVE  Begun'
  BY JobKeys DEF Begun, RowsKept, Types

\* A new upload.
LEMMA BeginUploadCleanup ==
  ASSUME Inv, CleanupInv, NEW k \in ObjectKey, BeginUpload(k)
  PROVE  CleanupInv'
<1> USE DEF Inv, CleanupInv
<1>1. /\ upload[k] = "none"
      /\ upload' = [upload EXCEPT ![k] = "queued"]
      /\ window' = [window EXCEPT ![k] = UploadWindow]
      /\ UNCHANGED <<active, avatar, objects, deleting, batch>>
      /\ Enqueue(UploadJob(k), Grace)
  BY DEF BeginUpload, NewKey
<1>2. /\ upload'[k] = "queued"
      /\ \A l \in ObjectKey \ {k} : upload'[l] = upload[l]
  BY <1>1 DEF Types
<1>3. RowsKept /\ Known(UploadJob(k))'
  BY <1>1, JobKeys, EnqueueRows, StoreAssumption
<1>4. Rows' /\ Cleaned'
  BY <1>1, <1>2, <1>3, CleanedKept DEF Rows, RowsKept
<1>5. Retirement'
  <2>1. \A l \in ObjectKey : jobs'[RetiredJob(l)] = jobs[RetiredJob(l)]
    BY <1>1, EnqueueEffect, JobKeys
  <2>. QED
    BY <1>1, <1>2, <2>1 DEF Retirement, Known, InUse
<1>6. Begun'
  BY <1>1, <1>2, <1>3, JobKeys DEF Begun, RowsKept
<1>7. Held'
  BY <1>1, <1>2, <1>3, HeldKept DEF Held
<1>8. WindowsShort'
  BY <1>1, StoreAssumption DEF WindowsShort, Types
<1>. QED
  BY <1>4, <1>5, <1>6, <1>7, <1>8

\* The object appears while its cleanup job still waits: no batch has held it,
\* and it has no retired job.
LEMMA StoreObjectCleanup ==
  ASSUME Inv, CleanupInv, NEW k \in ObjectKey, StoreObject(k)
  PROVE  CleanupInv'
<1> USE DEF Inv, CleanupInv
<1>1. PICK answer \in {"stored", "failed"} : upload' = [upload EXCEPT ![k] = answer]
  BY DEF StoreObject
<1>2. /\ upload[k] = "queued"
      /\ window[k] > 0
      /\ objects' = objects \cup {k}
      /\ UNCHANGED <<active, avatar, jobs, window, deleting, batch>>
  BY DEF StoreObject
<1>3. /\ upload'[k] = answer
      /\ \A l \in ObjectKey \ {k} : upload'[l] = upload[l]
  BY <1>1 DEF Types
<1>4. RowsKept
  BY <1>2, SameRows
<1>5. Rows' /\ WindowsShort'
  BY <1>2, <1>4 DEF Rows, RowsKept, WindowsShort
<1>6. Retirement'
  BY <1>2, <1>3 DEF Retirement, Known, InUse
<1>7. Begun'
  BY <1>2, <1>3 DEF Begun, Known
<1>8. Held'
  <2>1. \A b \in Invocation : batch[b].job # NoJob => batch[b].job.object # k
    BY <1>2 DEF Doomed, Ended, Types
  <2>2. \A b \in Invocation : batch[b].verdict = "deleted" => batch[b].job.object \notin objects'
    BY <1>2, <2>1 DEF Held
  <2>. QED
    BY <1>2, <1>3, <1>4, <2>2, HeldKept
<1>9. Cleaned'
  <2>1. jobs[UploadJob(k)].status = "pending"
    BY <1>2, WaitingRowFacts DEF Uploading, CleanupWaits
  <2>2. jobs[RetiredJob(k)].status = "absent"
    BY <1>2 DEF Uploading
  <2>. QED
    BY <1>2, <1>3, <2>1, <2>2 DEF Cleaned, Types
<1>. QED
  BY <1>5, <1>6, <1>7, <1>8, <1>9

\* Retiring k adds its job and no other.
LEMMA RetireRows ==
  ASSUME Types, Rows, NEW k \in ObjectKey, Enqueue(RetiredJob(k), RetireDelay)
  PROVE  /\ RowsKept
         /\ Known(RetiredJob(k))'
         /\ \A l \in ObjectKey \ {k} : jobs'[RetiredJob(l)] = jobs[RetiredJob(l)]
<1>1. RowsKept /\ Known(RetiredJob(k))'
  BY JobKeys, EnqueueRows, StoreAssumption
<1>2. \A l \in ObjectKey \ {k} : jobs'[RetiredJob(l)] = jobs[RetiredJob(l)]
  BY EnqueueEffect, JobKeys
<1>. QED
  BY <1>1, <1>2

\* The old avatar is retired in the transaction that replaces it.
LEMMA CommitAvatarCleanup ==
  ASSUME Inv, CleanupInv, NEW k \in ObjectKey, CommitAvatar(k)
  PROVE  CleanupInv'
<1> USE DEF Inv, CleanupInv
<1>1. /\ upload[k] = "stored"
      /\ avatar' = [avatar EXCEPT ![k.user] = k]
      /\ upload' = [upload EXCEPT ![k] = "committed"]
      /\ UNCHANGED <<active, objects, window, deleting, batch>>
  BY DEF CommitAvatar
<1>2. k.user \in User
  BY DEF ObjectKey
<1>4. PICK old \in ObjectKey \cup {NoObject} : old = avatar[k.user]
  BY <1>2 DEF Types
<1>3. old # k /\ (old # NoObject => old.user = k.user /\ upload[old] = "committed")
  BY <1>1, <1>2, <1>4, AbsenceAssumption DEF Referenced
<1>5. /\ upload'[k] = "committed"
      /\ avatar'[k.user] = k
      /\ \A l \in ObjectKey \ {k} : upload'[l] = upload[l]
      /\ \A u \in User \ {k.user} : avatar'[u] = avatar[u]
  BY <1>1, <1>2 DEF Types
<1>6. /\ RowsKept
      /\ old # NoObject => Known(RetiredJob(old))'
      /\ \A l \in ObjectKey \ {old} : jobs'[RetiredJob(l)] = jobs[RetiredJob(l)]
  <2>1. CASE old # NoObject
    <3>1. Enqueue(RetiredJob(old), RetireDelay)
      BY <1>3, <1>4, <2>1 DEF CommitAvatar
    <3>. QED
      BY <1>4, <2>1, <3>1, RetireRows DEF Known
  <2>2. CASE old = NoObject
    <3>1. UNCHANGED jobs
      BY <1>4, <2>2, AbsenceAssumption DEF CommitAvatar
    <3>. QED
      BY <2>2, <3>1, SameRows
  <2>. QED
    BY <2>1, <2>2
<1>7. Rows' /\ WindowsShort'
  BY <1>1, <1>6 DEF Rows, RowsKept, WindowsShort
<1>8. Retirement'
  <2>1. ASSUME NEW l \in ObjectKey \ {k, old}
        PROVE  InUse(l)' <=> InUse(l)
    BY <1>2, <1>4, <1>5, <2>1 DEF InUse
  <2>2. InUse(k)' /\ ~Known(RetiredJob(k))'
    BY <1>1, <1>2, <1>3, <1>5, <1>6 DEF InUse, Known, Uploading
  <2>3. old # NoObject => ~InUse(old)'
    BY <1>2, <1>3, <1>4, <1>5, AbsenceAssumption DEF InUse, Referenced
  <2>4. old # NoObject => upload'[old] = "committed"
    BY <1>3, <1>4, <1>5
  <2>5. \A l \in ObjectKey \ {k, old} : Known(RetiredJob(l))' <=> Known(RetiredJob(l))
    BY <1>6 DEF Known
  <2>. QED
    BY <1>3, <1>4, <1>5, <1>6, <2>1, <2>2, <2>3, <2>4, <2>5, AbsenceAssumption DEF Retirement
<1>9. Begun' /\ Cleaned'
  BY <1>1, <1>5, <1>6, BegunKept, CleanedKept
<1>10. Held'
  BY <1>1, <1>5, <1>6, HeldKept DEF Held
<1>. QED
  BY <1>7, <1>8, <1>9, <1>10

\* The avatar of a deletion is retired in the transaction that drops it.
LEMMA RemoveAvatarCleanup ==
  ASSUME Inv, CleanupInv, NEW u \in User, RemoveAvatar(u),
         UNCHANGED <<objects, upload, window, batch>>
  PROVE  CleanupInv'
<1> USE DEF Inv, CleanupInv
<1>0. PICK k \in ObjectKey : k = avatar[u]
  BY DEF RemoveAvatar, Types
<1>1. /\ avatar' = [avatar EXCEPT ![u] = NoObject]
      /\ Enqueue(RetiredJob(k), RetireDelay)
      /\ k.user = u
      /\ upload[k] = "committed"
  BY <1>0 DEF RemoveAvatar, Types, Referenced
<1>2. /\ avatar'[u] = NoObject
      /\ \A v \in User \ {u} : avatar'[v] = avatar[v]
  BY <1>1 DEF Types
<1>3. /\ RowsKept
      /\ Known(RetiredJob(k))'
      /\ \A l \in ObjectKey \ {k} : jobs'[RetiredJob(l)] = jobs[RetiredJob(l)]
  BY <1>1, RetireRows DEF Known
<1>4. Rows' /\ WindowsShort'
  BY <1>3 DEF Rows, RowsKept, WindowsShort
<1>5. Retirement'
  <2>1. \A l \in ObjectKey \ {k} : InUse(l)' <=> InUse(l)
    BY <1>0, <1>1, <1>2, AbsenceAssumption DEF InUse
  <2>2. ~InUse(k)'
    BY <1>0, <1>1, <1>2, AbsenceAssumption DEF InUse, Referenced
  <2>. QED
    BY <1>1, <1>3, <2>1, <2>2 DEF Retirement, Known
<1>6. Begun' /\ Cleaned'
  BY <1>3, BegunKept, CleanedKept
<1>7. Held'
  BY <1>3, HeldKept DEF Held
<1>. QED
  BY <1>4, <1>5, <1>6, <1>7

\* A deletion asked for by a handler takes away an object and nothing else.
LEMMA DirectDeleteCleanup ==
  ASSUME Inv, CleanupInv, NEW k \in ObjectKey, DirectDelete(k)
  PROVE  CleanupInv'
<1> USE DEF Inv, CleanupInv
<1>1. /\ objects' = objects \ {k}
      /\ UNCHANGED <<active, avatar, jobs, upload, window, batch>>
  BY DEF DirectDelete
<1>2. RowsKept
  BY <1>1, SameRows
<1>3. Rows' /\ Retirement' /\ WindowsShort'
  BY <1>1 DEF Rows, Retirement, WindowsShort, Known, InUse
<1>4. Begun' /\ Cleaned'
  BY <1>1, <1>2, BegunKept, CleanedKept
<1>5. Held'
  BY <1>1, <1>2, HeldKept DEF Held
<1>. QED
  BY <1>3, <1>4, <1>5

\* The rows change but no store does: what every batch but b holds is kept.
LEMMA RowsOnly ==
  ASSUME Inv, CleanupInv, RowsKept, UNCHANGED <<avatar, objects, upload>>,
         \A k \in ObjectKey : window'[k] \in 0..UploadWindow,
         \A k \in ObjectKey : Known(RetiredJob(k))' => Known(RetiredJob(k))
  PROVE  Rows' /\ Retirement' /\ Begun' /\ Cleaned' /\ WindowsShort'
<1> USE DEF Inv, CleanupInv
<1>1. Rows' /\ WindowsShort'
  BY DEF Rows, RowsKept, WindowsShort
<1>2. Retirement'
  BY JobKeys DEF Retirement, RowsKept, Known, InUse
<1>3. Begun' /\ Cleaned'
  BY BegunKept, CleanedKept
<1>. QED
  BY <1>1, <1>2, <1>3

\* A poll hands out jobs that are in the table.
LEMMA LeaseBatchCleanup ==
  ASSUME Inv, CleanupInv, NEW b \in Invocation, LeaseBatch(b)
  PROVE  CleanupInv'
<1> USE DEF Inv, CleanupInv
<1>1. PICK now \in Queue!Reading :
        Queue!LeaseJobs(b, {"avatar_cleanup"}, BatchLimit, CleanupLease, now, {})
  BY DEF LeaseBatch
<1>2. /\ \A j \in JobKey : jobs[j].owner # b
      /\ batch' = [batch EXCEPT ![b].todo = {j \in JobKey : jobs'[j].owner = b}]
      /\ batch[b] = Idle
      /\ UNCHANGED <<active, avatar, objects, upload, window, deleting>>
  BY DEF LeaseBatch, NewOwner
<1>3. RowsKept
  BY <1>1, PollRows
<1>4. \A j \in JobKey : jobs[j].status \notin {"pending", "leased"} => jobs'[j] = jobs[j]
  BY <1>1, PollEffect
<1>5. \A k \in ObjectKey : Known(RetiredJob(k))' => Known(RetiredJob(k))
  BY <1>4, JobKeys DEF Known
<1>6. Rows' /\ Retirement' /\ Begun' /\ Cleaned' /\ WindowsShort'
  BY <1>2, <1>3, <1>5, RowsOnly DEF WindowsShort
<1>7. Held'
  <2>1. \A j \in JobKey : jobs'[j].owner = b => Known(j)'
    BY <1>2, <1>3, <1>4 DEF RowsKept, Known
  <2>2. /\ batch'[b].todo = {j \in JobKey : jobs'[j].owner = b}
        /\ batch'[b].job = NoJob
        /\ batch'[b].verdict = "none"
        /\ \A c \in Invocation \ {b} : batch'[c] = batch[c]
    BY <1>2 DEF Types, Idle
  <2>. QED
    BY <1>2, <1>3, <2>1, <2>2, BatchObjects DEF Held, RowsKept, Known
<1>. QED
  BY <1>6, <1>7

\* A retired job never finds its object referenced.
LEMMA LookUpCleanup ==
  ASSUME Inv, CleanupInv, NEW b \in Invocation, NEW j \in JobKey, LookUp(b, j)
  PROVE  CleanupInv'
<1> USE DEF Inv, CleanupInv
<1> DEFINE next == [todo |-> batch[b].todo \ {j}, job |-> j,
                    verdict |-> IF InUse(j.object) THEN "referenced" ELSE "unreferenced"]
<1>1. /\ j \in batch[b].todo
      /\ batch' = [batch EXCEPT ![b] = next]
      /\ UNCHANGED <<active, avatar, jobs, objects, upload, window, deleting>>
  BY DEF LookUp
<1>2. batch'[b] = next /\ \A c \in Invocation \ {b} : batch'[c] = batch[c]
  BY <1>1 DEF Types
<1>3. Rows' /\ Retirement' /\ Begun' /\ Cleaned' /\ WindowsShort'
  BY <1>1 DEF Rows, Retirement, Begun, Cleaned, WindowsShort, Known, InUse
<1>4. Known(j) /\ j.object \in ObjectKey
  BY <1>1, JobIsOneOfTwo DEF Held
<1>5. InUse(j.object) => j = UploadJob(j.object) /\ upload[j.object] = "committed"
  <2> SUFFICES ASSUME InUse(j.object)
               PROVE  j = UploadJob(j.object) /\ upload[j.object] = "committed"
    OBVIOUS
  <2>1. j # RetiredJob(j.object)
    BY <1>4 DEF Retirement
  <2>2. upload[j.object] = "committed"
    BY <1>4, AbsenceAssumption DEF InUse, Referenced
  <2>. QED
    BY <2>1, <2>2, JobIsOneOfTwo
<1>6. Held'
  BY <1>1, <1>2, <1>4, <1>5, AbsenceAssumption DEF Held, Known
<1>. QED
  BY <1>3, <1>6

\* A batch that forgets a job, or all it has, still holds known jobs.
LEMMA HeldForgets ==
  ASSUME Types, Held, NEW b \in Invocation, NEW next \in Batch,
         batch' = [batch EXCEPT ![b] = next],
         next.todo \subseteq batch[b].todo,
         next.job \in {NoJob, batch[b].job},
         \/ next.verdict = "none"
         \/ next.job = batch[b].job /\ next.verdict = batch[b].verdict,
         UNCHANGED <<jobs, objects, upload>>
  PROVE  Held'
<1>1. batch'[b] = next /\ \A c \in Invocation \ {b} : batch'[c] = batch[c]
  BY DEF Types
<1>. QED
  BY <1>1 DEF Held, Known

\* A failed lookup.
LEMMA SkipJobCleanup ==
  ASSUME Inv, CleanupInv, NEW b \in Invocation, NEW j \in JobKey, SkipJob(b, j)
  PROVE  CleanupInv'
<1> USE DEF Inv, CleanupInv
<1> DEFINE next == [batch[b] EXCEPT !.todo = @ \ {j}]
<1>1. /\ batch' = [batch EXCEPT ![b] = next]
      /\ UNCHANGED <<active, avatar, jobs, objects, upload, window, deleting>>
  BY DEF SkipJob
<1>2. /\ next \in Batch
      /\ next.todo \subseteq batch[b].todo
      /\ next.job = batch[b].job
      /\ next.verdict = batch[b].verdict
  BY DEF Types, Batch
<1>3. Held'
  BY <1>1, <1>2, HeldForgets
<1>. QED
  BY <1>1, <1>3 DEF Rows, Retirement, Begun, Cleaned, WindowsShort, Known, InUse

\* The batch knows that the object is gone, or it does not know.
LEMMA DeleteObjectCleanup ==
  ASSUME Inv, CleanupInv, NEW b \in Invocation, DeleteObject(b)
  PROVE  CleanupInv'
<1> USE DEF Inv, CleanupInv
<1>1. PICK answer \in {"deleted", "failed"} :
        /\ batch' = [batch EXCEPT ![b].verdict = answer]
        /\ objects' \subseteq objects
        /\ answer = "deleted" => objects' = objects \ {batch[b].job.object}
  BY DEF DeleteObject
<1>2. /\ batch[b].verdict = "unreferenced"
      /\ UNCHANGED <<active, avatar, jobs, upload, window, deleting>>
  BY DEF DeleteObject
<1>3. RowsKept
  BY <1>2, SameRows
<1>4. Rows' /\ Retirement' /\ WindowsShort'
  BY <1>2 DEF Rows, Retirement, WindowsShort, Known, InUse
<1>5. Begun' /\ Cleaned'
  BY <1>1, <1>2, <1>3, BegunKept, CleanedKept
<1>6. Held'
  <2>1. /\ batch'[b].todo = batch[b].todo
        /\ batch'[b].job = batch[b].job
        /\ batch'[b].verdict = answer
        /\ \A c \in Invocation \ {b} : batch'[c] = batch[c]
    BY <1>1 DEF Types, Batch
  <2>. QED
    BY <1>1, <1>2, <2>1 DEF Held, Known
<1>. QED
  BY <1>4, <1>5, <1>6

\* What recording a result does to the table: the row of the job is completed,
\* or it goes back or dies, or nothing happens because the lease is lost.
LEMMA FinishRows ==
  ASSUME Inv, CleanupInv, NEW b \in Invocation, FinishJob(b)
  PROVE  \A j \in JobKey :
           /\ CleanupRow(j, jobs'[j])
           /\ Known(j)' <=> Known(j)
           /\ jobs'[j].status = "completed" =>
                \/ jobs[j].status = "completed"
                \/ batch[b].job = j /\ batch[b].verdict \in {"referenced", "deleted"}
<1> USE DEF Inv, CleanupInv
<1>1. PICK now \in Queue!Reading :
        \/ /\ Queue!CompleteJob(batch[b].job, b, "avatar-cleanup", now)
           /\ batch[b].verdict \in {"referenced", "deleted"}
        \/ Queue!FailJob(batch[b].job, b, "network", RetryDelay, now)
        \/ UNCHANGED jobs
  BY DEF FinishJob, DeletionOk
<1>2. PICK i \in JobKey \cup {NoJob} : i = batch[b].job
  BY DEF Types, Batch
<1>3. \A j \in JobKey : CleanupRow(j, jobs[j])
  BY DEF Rows
<1>4. now + RetryDelay \in Int
  BY Instants, StoreAssumption
<1>5. CASE UNCHANGED jobs
  BY <1>3, <1>5 DEF Known
<1>6. CASE /\ Queue!CompleteJob(i, b, "avatar-cleanup", now)
           /\ batch[b].verdict \in {"referenced", "deleted"}
  <2>1. /\ jobs[i].status = "leased"
        /\ jobs' = [jobs EXCEPT ![i] = Queue!Completed(jobs[i], "avatar-cleanup")]
    BY <1>6 DEF Queue!CompleteJob, Queue!LiveLease
  <2>2. \A j \in JobKey \ {i} : jobs'[j] = jobs[j]
    BY <2>1 DEF Types
  <2>3. i \in JobKey => jobs'[i] = Queue!Completed(jobs[i], "avatar-cleanup")
    BY <2>1 DEF Types
  <2>4. i \in JobKey =>
          /\ CleanupRow(i, Queue!Completed(jobs[i], "avatar-cleanup"))
          /\ Queue!Completed(jobs[i], "avatar-cleanup").status = "completed"
    BY <1>3, <1>4, <2>1, EndedRow
  <2>5. i \in JobKey => CleanupRow(i, jobs'[i]) /\ jobs'[i].status = "completed"
    BY <2>3, <2>4
  <2>. QED
    BY <1>2, <1>3, <1>6, <2>1, <2>2, <2>5 DEF Known
<1>7. CASE Queue!FailJob(i, b, "network", RetryDelay, now)
  <2> DEFINE row == IF Queue!FatalFailure(jobs[i], "network")
                    THEN Queue!Buried(jobs[i], "network")
                    ELSE Queue!Retried(jobs[i], "network", now + RetryDelay)
  <2>1. /\ jobs[i].status = "leased"
        /\ jobs' = [jobs EXCEPT ![i] = row]
    BY <1>7 DEF Queue!FailJob, Queue!LiveLease
  <2>2. \A j \in JobKey \ {i} : jobs'[j] = jobs[j]
    BY <2>1 DEF Types
  <2>3. i \in JobKey => jobs'[i] = row
    BY <2>1 DEF Types
  <2>4. i \in JobKey => CleanupRow(i, row) /\ row.status \in {"dead", "pending"}
    BY <1>3, <1>4, <2>1, EndedRow
  <2>5. i \in JobKey => CleanupRow(i, jobs'[i]) /\ jobs'[i].status \in {"dead", "pending"}
    BY <2>3, <2>4
  <2>. QED
    BY <1>2, <1>3, <2>1, <2>2, <2>5 DEF Known
<1>. QED
  BY <1>1, <1>2, <1>5, <1>6, <1>7

\* A job is completed only on the strength of what its batch has seen.
LEMMA FinishJobCleanup ==
  ASSUME Inv, CleanupInv, NEW b \in Invocation, FinishJob(b)
  PROVE  CleanupInv'
<1> USE DEF Inv, CleanupInv
<1> DEFINE next == [batch[b] EXCEPT !.job = NoJob, !.verdict = "none"]
<1>1. /\ batch' = [batch EXCEPT ![b].job = NoJob, ![b].verdict = "none"]
      /\ UNCHANGED <<active, avatar, objects, upload, window, deleting>>
  BY DEF FinishJob
<1>2. \A j \in JobKey :
        /\ CleanupRow(j, jobs'[j])
        /\ Known(j)' <=> Known(j)
        /\ jobs'[j].status = "completed" =>
             \/ jobs[j].status = "completed"
             \/ batch[b].job = j /\ batch[b].verdict \in {"referenced", "deleted"}
  BY FinishRows
<1>3. Rows' /\ WindowsShort'
  BY <1>1, <1>2 DEF Rows, WindowsShort
<1>4. Retirement' /\ Begun'
  BY <1>1, <1>2, JobKeys DEF Retirement, Begun, InUse, Types
<1>5. Held'
  <2>1. /\ batch'[b].todo = batch[b].todo
        /\ batch'[b].job = NoJob
        /\ batch'[b].verdict = "none"
        /\ \A c \in Invocation \ {b} : batch'[c] = batch[c]
    BY <1>1 DEF Types, Batch
  <2>2. \A c \in Invocation : \A i \in batch[c].todo \cup {batch[c].job} :
          i # NoJob => jobs'[i].status # "absent"
    <3>1. \A i \in JobKey : jobs[i].status # "absent" => jobs'[i].status # "absent"
      BY <1>2 DEF Known
    <3>2. \A c \in Invocation : \A i \in batch[c].todo \cup {batch[c].job} :
            i # NoJob => i \in JobKey /\ jobs[i].status # "absent"
      BY BatchObjects DEF Held, Known
    <3>. QED
      BY <3>1, <3>2
  <2>3. \A c \in Invocation : \A i \in batch[c].todo : i # NoJob
    BY BatchObjects, AbsenceAssumption
  <2>4. UNCHANGED <<objects, upload>>
    BY <1>1
  <2>5. ASSUME NEW c \in Invocation
        PROVE  /\ \A j \in batch'[c].todo : jobs'[j].status # "absent"
               /\ batch'[c].verdict # "none" => batch'[c].job # NoJob
               /\ batch'[c].job # NoJob => jobs'[batch'[c].job].status # "absent"
               /\ batch'[c].verdict = "referenced" =>
                    /\ batch'[c].job = UploadJob(batch'[c].job.object)
                    /\ upload[batch'[c].job.object] = "committed"
               /\ batch'[c].verdict = "deleted" => batch'[c].job.object \notin objects
    <3>1. CASE c = b
      BY <2>1, <2>2, <2>3, <3>1
    <3>2. CASE c # b
      BY <2>1, <2>2, <2>3, <3>2 DEF Held
    <3>. QED
      BY <3>1, <3>2
  <2>. QED
    BY <2>4, <2>5 DEF Held, Known
<1>6. Cleaned'
  <2>1. ASSUME NEW k \in objects, jobs'[RetiredJob(k)].status = "completed"
        PROVE  FALSE
    <3>1. k \in ObjectKey /\ jobs[RetiredJob(k)].status # "completed"
      BY DEF Types, Cleaned
    <3>2. batch[b].job = RetiredJob(k) /\ batch[b].verdict \in {"referenced", "deleted"}
      BY <1>2, <2>1, <3>1, JobKeys
    <3>. QED
      BY <3>1, <3>2, JobKeys DEF Held
  <2>2. ASSUME NEW k \in objects, jobs'[UploadJob(k)].status = "completed"
        PROVE  upload[k] = "committed"
    <3>1. k \in ObjectKey
      BY DEF Types
    <3>2. CASE jobs[UploadJob(k)].status = "completed"
      BY <3>2 DEF Cleaned
    <3>3. CASE batch[b].job = UploadJob(k) /\ batch[b].verdict \in {"referenced", "deleted"}
      BY <3>1, <3>3, JobKeys DEF Held
    <3>. QED
      BY <1>2, <2>2, <3>1, <3>2, <3>3, JobKeys
  <2>. QED
    BY <1>1, <2>1, <2>2 DEF Cleaned
<1>. QED
  BY <1>3, <1>4, <1>5, <1>6

\* A batch that is cut off leaves its jobs to their leases.
LEMMA StopBatchCleanup ==
  ASSUME Inv, CleanupInv, NEW b \in Invocation, StopBatch(b)
  PROVE  CleanupInv'
<1> USE DEF Inv, CleanupInv
<1>1. /\ batch' = [batch EXCEPT ![b] = Idle]
      /\ UNCHANGED <<active, avatar, jobs, objects, upload, window, deleting>>
  BY DEF StopBatch
<1>2. /\ Idle \in Batch
      /\ Idle.todo \subseteq batch[b].todo
      /\ Idle.job = NoJob
      /\ Idle.verdict = "none"
  BY DEF Idle, Batch, Verdict
<1>3. Held'
  BY <1>1, <1>2, HeldForgets
<1>. QED
  BY <1>1, <1>3 DEF Rows, Retirement, Begun, Cleaned, WindowsShort, Known, InUse

\* Time passes.
LEMMA TickCleanup ==
  ASSUME Inv, CleanupInv, Tick
  PROVE  CleanupInv'
<1> USE DEF Inv, CleanupInv
<1>1. /\ jobs' = [j \in JobKey |-> Queue!Aged(jobs[j])]
      /\ window' = [k \in ObjectKey |-> IF window[k] > 0 THEN window[k] - 1 ELSE 0]
      /\ UNCHANGED <<active, avatar, objects, upload, deleting, batch>>
  BY DEF Tick, Queue!Tick
<1>2. \A j \in JobKey : CleanupRow(j, jobs'[j]) /\ jobs'[j].status = jobs[j].status
  BY <1>1, AgedRow DEF Rows
<1>3. RowsKept
  BY <1>2 DEF RowsKept, Known
<1>4. \A k \in ObjectKey : window'[k] \in 0..UploadWindow
  BY <1>1, StoreAssumption DEF WindowsShort
<1>5. Rows' /\ Retirement' /\ Begun' /\ Cleaned' /\ WindowsShort'
  BY <1>1, <1>2, <1>3, <1>4, RowsOnly, JobKeys DEF Known
<1>6. Held'
  BY <1>1, <1>3, HeldKept DEF Held
<1>. QED
  BY <1>5, <1>6

\* Every step preserves what is known of the cleanup jobs.
LEMMA NextCleanup == Inv /\ CleanupInv /\ [Next]_vars => CleanupInv'
<1> SUFFICES ASSUME Inv, CleanupInv, [Next]_vars
             PROVE  CleanupInv'
  OBVIOUS
<1>1. ASSUME NEW u \in User, DeleteAvatar(u) \/ DeleteMe(u)
      PROVE  CleanupInv'
  <2>1. CASE RemoveAvatar(u)
    BY <1>1, <2>1, RemoveAvatarCleanup DEF DeleteAvatar, DeleteMe
  <2>2. CASE ~RemoveAvatar(u)
    <3>1. UNCHANGED <<avatar, jobs, deleting, objects, upload, window, batch>>
      BY <1>1, <2>2 DEF DeleteAvatar, DeleteMe
    <3>. QED
      BY <3>1 DEF CleanupInv, Rows, Retirement, Begun, Held, Cleaned, WindowsShort, Known, InUse
  <2>. QED
    BY <2>1, <2>2
<1>2. CASE UNCHANGED vars
  BY <1>2 DEF vars, CleanupInv, Rows, Retirement, Begun, Held, Cleaned, WindowsShort, Known, InUse
<1>3. CASE Remove
  BY <1>1, <1>3 DEF Remove
<1>4. ASSUME NEW k \in ObjectKey, Upload(k) \/ DirectDelete(k)
      PROVE  CleanupInv'
  BY <1>4, BeginUploadCleanup, StoreObjectCleanup, CommitAvatarCleanup, DirectDeleteCleanup
     DEF Upload
<1>5. ASSUME NEW b \in Invocation, LeaseBatch(b) \/ Work(b) \/ StopBatch(b)
      PROVE  CleanupInv'
  BY <1>5, LeaseBatchCleanup, LookUpCleanup, SkipJobCleanup, DeleteObjectCleanup,
     FinishJobCleanup, StopBatchCleanup
     DEF Work
<1>. QED
  BY <1>2, <1>3, <1>4, <1>5, TickCleanup DEF Next

\* The cleanup jobs account for every object, whatever is cut off or fails.
THEOREM CleanupInvariance == Spec => []CleanupInv
  BY Invariance, InitCleanup, NextCleanup, PTL DEF Spec

\* Every variable keeps its type; the rows are those of the queue.
THEOREM TypeCorrect == Spec => []TypeOK
<1>1. Init => active \subseteq User
  BY DEF Init
<1>2. active \subseteq User /\ [Next]_vars => (active \subseteq User)'
  BY DEF Next, vars, Upload, BeginUpload, StoreObject, CommitAvatar, DirectDelete, Remove,
         DeleteAvatar, DeleteMe, LeaseBatch, Work, LookUp, SkipJob, DeleteObject, FinishJob,
         StopBatch, Tick
<1>3. Inv /\ CleanupInv /\ active \subseteq User => TypeOK
  <2> SUFFICES ASSUME Inv, CleanupInv, active \subseteq User
               PROVE  TypeOK
    OBVIOUS
  <2>1. Queue!TypeOK
    BY DEF Inv, Types, CleanupInv, Rows, CleanupRow, Queue!TypeOK
  <2>2. window \in [ObjectKey -> 0..UploadWindow]
    BY DEF Inv, Types, CleanupInv, WindowsShort
  <2>. QED
    BY <2>1, <2>2 DEF Inv, Types, TypeOK
<1>. QED
  BY <1>1, <1>2, <1>3, Invariance, CleanupInvariance, PTL DEF Spec

\* An object no account refers to is never forgotten: its upload's job looks at
\* it again once the upload is over, its retired job once it is replaced or
\* deleted, and neither is completed before the object is gone.
THEOREM OrphansStayKnown == Spec => []OrphansAreKnown
<1>1. Inv /\ CleanupInv => OrphansAreKnown
  <2> SUFFICES ASSUME Inv, CleanupInv, NEW k \in objects, ~InUse(k),
                      upload[k] = "committed" \/ window[k] = 0
               PROVE  \E j \in {UploadJob(k), RetiredJob(k)} : WillVisit(j) \/ GaveUp(j)
    BY DEF OrphansAreKnown
  <2> USE DEF Inv, CleanupInv
  <2>1. k \in ObjectKey /\ upload[k] # "none"
    BY DEF Types, Begun
  <2>2. \A j \in JobKey :
          Known(j) /\ jobs[j].status # "completed" =>
            jobs[j].status \in {"pending", "leased"} \/ GaveUp(j)
    BY RowFields DEF Rows, CleanupRow, Known, GaveUp
  <2>3. CASE upload[k] = "committed"
    <3>1. Known(RetiredJob(k)) /\ jobs[RetiredJob(k)].status # "completed"
      BY <2>1, <2>3 DEF Retirement, Cleaned
    <3>2. ~\E b \in Invocation : batch[b].job = RetiredJob(k) /\ batch[b].verdict = "referenced"
      BY <2>1, JobKeys DEF Held
    <3>. QED
      BY <2>1, <2>2, <3>1, <3>2, JobKeys DEF WillVisit
  <2>4. CASE upload[k] # "committed"
    <3>1. Known(UploadJob(k)) /\ jobs[UploadJob(k)].status # "completed"
      BY <2>1, <2>4 DEF Begun, Cleaned
    <3>2. ~\E b \in Invocation : batch[b].job = UploadJob(k) /\ batch[b].verdict = "referenced"
      BY <2>1, <2>4, JobKeys DEF Held
    <3>. QED
      BY <2>1, <2>2, <3>1, <3>2, JobKeys DEF WillVisit
  <2>. QED
    BY <2>3, <2>4
<1>. QED
  BY <1>1, Invariance, CleanupInvariance, PTL

\* The values the store gives the constants of the queue are values the queue
\* allows.
LEMMA QueueConstants == Queue!QueueAssumption /\ Queue!NullAssumption
<1>1. {CleanupOf(k) : k \in ObjectKey}
        \subseteq [lane : ObjectKey, priority : Int, max_attempts : 1..100]
  BY StoreAssumption DEF CleanupOf
<1>2. Queue!QueueAssumption
  BY <1>1, StoreAssumption
     DEF Queue!QueueAssumption, Queue!TransientCategory, Queue!PermanentCategory
<1>3. Queue!NullAssumption
  BY AbsenceAssumption
     DEF Queue!NullAssumption, Queue!TransientCategory, Queue!PermanentCategory
<1>. QED
  BY <1>2, <1>3

\* An enqueue of the store is an enqueue the queue knows, or finds its key.
LEMMA EnqueueIsProduce ==
  ASSUME NEW j \in JobKey, NEW due \in {Grace, RetireDelay, RetryDelay}, Enqueue(j, due)
  PROVE  Queue!Produce \/ UNCHANGED jobs
<1>1. CleanupOf(j.object) \in {CleanupOf(k) : k \in ObjectKey}
  BY JobIsOneOfTwo
<1>2. CASE Queue!EnqueueJob(j, CleanupOf(j.object), due)
  BY <1>1, <1>2 DEF Queue!Produce
<1>. QED
  BY <1>2 DEF Enqueue

\* The store moves the jobs by the operations of the queue and in no other
\* way, with arguments the queue accepts: whatever holds of every run of
\* JobQueue (JobQueueProofs) holds of its jobs.
THEOREM MovesJobsThroughTheQueue == Spec => Queue!Spec
<1>1. Init => Queue!Init
  BY DEF Init
<1>2. Inv /\ CleanupInv /\ [Next]_vars => [Queue!Next]_(Queue!vars)
  <2> SUFFICES ASSUME Inv, CleanupInv, [Next]_vars
               PROVE  Queue!Next \/ UNCHANGED jobs
    BY DEF Queue!vars
  <2>1. ASSUME NEW k \in ObjectKey, Upload(k)
        PROVE  Queue!Produce \/ UNCHANGED jobs
    <3>1. CASE BeginUpload(k)
      BY <3>1, JobKeys, EnqueueIsProduce DEF BeginUpload
    <3>2. CASE StoreObject(k)
      BY <3>2 DEF StoreObject
    <3>3. CASE CommitAvatar(k)
      <4>1. PICK old : old = avatar[k.user]
        OBVIOUS
      <4>2. CASE old \in ObjectKey \ {k}
        <5>1. Enqueue(RetiredJob(old), RetireDelay)
          BY <3>3, <4>1, <4>2 DEF CommitAvatar
        <5>. QED
          BY <4>2, <5>1, JobKeys, EnqueueIsProduce
      <4>3. CASE old \notin ObjectKey \ {k}
        BY <3>3, <4>1, <4>3 DEF CommitAvatar
      <4>. QED
        BY <4>2, <4>3
    <3>. QED
      BY <2>1, <3>1, <3>2, <3>3 DEF Upload
  <2>2. ASSUME NEW u \in User, DeleteAvatar(u) \/ DeleteMe(u)
        PROVE  Queue!Produce \/ UNCHANGED jobs
    <3>1. CASE RemoveAvatar(u)
      <4>1. PICK k : k = avatar[u]
        OBVIOUS
      <4>2. k \in ObjectKey /\ Enqueue(RetiredJob(k), RetireDelay)
        BY <3>1, <4>1 DEF RemoveAvatar, Inv, Types
      <4>. QED
        BY <4>2, JobKeys, EnqueueIsProduce
    <3>2. CASE ~RemoveAvatar(u)
      BY <2>2, <3>2 DEF DeleteAvatar, DeleteMe
    <3>. QED
      BY <3>1, <3>2
  <2>3. ASSUME NEW b \in Invocation, LeaseBatch(b)
        PROVE  Queue!Poll
    <3>1. {"avatar_cleanup"} \in Queue!Wanted
      BY DEF Queue!Wanted
    <3>. QED
      BY <2>3, <3>1 DEF LeaseBatch, Queue!Poll
  <2>4. ASSUME NEW b \in Invocation, FinishJob(b)
        PROVE  Queue!Finish \/ UNCHANGED jobs
    <3>1. batch[b].job \in JobKey
      BY <2>4 DEF FinishJob, Inv, Types, Batch, CleanupInv, Held
    <3>2. RetryDelay \in {Grace, RetireDelay, RetryDelay} \ {0}
      BY StoreAssumption
    <3>. QED
      BY <2>4, <3>1, <3>2 DEF FinishJob, Queue!Finish
  <2>5. ASSUME NEW b \in Invocation,
               StopBatch(b) \/ DeleteObject(b) \/ \E j \in JobKey : LookUp(b, j) \/ SkipJob(b, j)
        PROVE  UNCHANGED jobs
    BY <2>5 DEF StopBatch, DeleteObject, LookUp, SkipJob
  <2>6. CASE Tick
    BY <2>6 DEF Tick, Queue!Next
  <2>7. CASE \E k \in ObjectKey : DirectDelete(k)
    BY <2>7 DEF DirectDelete
  <2>8. CASE UNCHANGED vars
    BY <2>8 DEF vars
  <2>9. CASE \E b \in Invocation : LeaseBatch(b) \/ Work(b) \/ StopBatch(b)
    BY <2>3, <2>4, <2>5, <2>9 DEF Work, Queue!Next
  <2>. QED
    BY <2>1, <2>2, <2>6, <2>7, <2>8, <2>9 DEF Next, Remove, Queue!Next
<1>. QED
  BY <1>1, <1>2, Invariance, CleanupInvariance, PTL DEF Spec, Queue!Spec
=============================================================================
