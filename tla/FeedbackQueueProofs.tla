------------------------- MODULE FeedbackQueueProofs -------------------------
(***************************************************************************)
(* Proofs about FeedbackQueue for every set of accounts and any number of  *)
(* entries and stray requests.                                             *)
(***************************************************************************)
EXTENDS FeedbackQueue, TLAPS

\* What runFlush does to the queue q between two awaits: entries are marked as
\* attempted, or dropped.
Marked(e) == [e EXCEPT !.submissionAttempted = TRUE]
Moved(q, r) ==
  \A k \in Key :
    \/ r[k] = q[k]
    \/ Present(q, k) /\ r[k] = Marked(q[k])
    \/ Droppable(q, k) /\ r[k] = NoEntry

FlushSteps == {"idle", "post", "posting", "posted", "undo", "undoing", "undone"}

Types ==
  /\ TypeOK
  /\ flush.step # "idle" => flush.as \in User
  /\ \A k \in Key : call[k].step # "none" => call[k].as \in User

\* Where the request for k may have got to, apart from the running flush.
Recorded(k) == \E r \in rows : r.key = k
StrayPost(k) == \E m \in stray : m.kind = "post" /\ m.key = k
MayBeActive(k) == Active(k) \/ (~Recorded(k) /\ StrayPost(k))

\* The next flush of the entry's owner sends a request for it.
ReplayedEntry(e) ==
  /\ e # NoEntry
  /\ \/ e.feedbackId = NoFeedback /\ (e.cancelled => e.submissionAttempted)
     \/ e.feedbackId # NoFeedback /\ e.undone /\ e.syncError = "undo_pending"

\* What an entry e, in memory or in storage, says of its feedback: it was asked for
\* (a), is older than a week (aged), has a row (recorded), may get one from a stray
\* post (underway), and may be active (active).
EntryOk(e, a, aged, recorded, underway, active) ==
  /\ a = "nothing" => e = NoEntry
  /\ e # NoEntry /\ ~e.submissionAttempted => ~recorded /\ ~underway
  /\ e # NoEntry /\ e.feedbackId # NoFeedback => recorded
  /\ a = "keep" =>
       /\ e # NoEntry => ~e.cancelled /\ ~e.undone
       /\ recorded \/ (e # NoEntry /\ e.feedbackId = NoFeedback)
  /\ a = "undo" =>
       /\ e # NoEntry => e.cancelled \/ e.undone
       /\ ~aged /\ active => ReplayedEntry(e)
Ok(e, k) ==
  EntryOk(e, asked[k], k \in old, Recorded(k), StrayPost(k), MayBeActive(k))

\* A post whose answer is not known, whatever is known by now of the user's wish.
InDoubt(e) == e # NoEntry /\ e.feedbackId = NoFeedback /\ e.submissionAttempted

Waiting ==
  flush.step # "idle" =>
    /\ queue[flush.at].ownerUserId = flush.as
    /\ Posting => InDoubt(queue[flush.at]) /\ InDoubt(disk[flush.at])
    /\ flush.step = "posted" => [user |-> flush.as, key |-> flush.at] \in rows
    /\ ~Posting => asked[flush.at] \notin {"nothing", "keep"}
    /\ flush.step = "undone" => [user |-> flush.as, key |-> flush.at] \in undoneBy

\* Nothing undoes feedback the user has not asked to undo.
Asked(k) ==
  /\ call[k].step # "none" => asked[k] \notin {"nothing", "keep"}
  /\ call[k].step = "undone" => [user |-> call[k].as, key |-> k] \in undoneBy
  /\ \A m \in stray : m.key = k => asked[k] # "nothing" /\ (m.kind = "undo" => asked[k] # "keep")
  /\ \A r \in rows : r.key = k => asked[k] # "nothing"
  /\ \A r \in undoneBy : r.key = k => asked[k] # "keep"

\* Every trace of k names the account u: an entry e, and what is on the network and
\* at the server.
OwnerIs(u, e) == e # NoEntry => e.ownerUserId = u
TracesOf(u, k) ==
  /\ call[k].step # "none" => call[k].as = u
  /\ \A m \in stray : m.key = k => m.user = u
  /\ \A r \in rows : r.key = k => r.user = u

KeyInv(k) ==
  /\ Ok(queue[k], k) /\ Ok(disk[k], k)
  /\ Asked(k)
  /\ \E u \in User \cup {Nobody} : OwnerIs(u, queue[k]) /\ OwnerIs(u, disk[k]) /\ TracesOf(u, k)

Inv == Types /\ Waiting /\ \A k \in Key : KeyInv(k)

LEMMA KeyFact == /\ Key \subseteq Nat /\ 0 \notin Key
                 /\ \A k \in Key : k + 1 \in Nat
  BY ClientAssumption DEF Key

\* The updates of one entry keep its type.
LEMMA EntryFact ==
  ASSUME NEW e \in PendingFeedback
  PROVE  /\ e # NoEntry
         /\ e.ownerUserId \in User /\ e.ownerUserId # Nobody
         /\ Marked(e) \in PendingFeedback
         /\ \A b \in BOOLEAN : [e EXCEPT !.cancelled = b] \in PendingFeedback
         /\ \A s \in SyncError : [e EXCEPT !.syncError = s] \in PendingFeedback
         /\ \A s \in SyncError : \A b \in BOOLEAN :
              /\ [e EXCEPT !.undone = b, !.syncError = s] \in PendingFeedback
              /\ [e EXCEPT !.syncError = s, !.cancelled = b] \in PendingFeedback
         /\ \A id \in Feedback : Posted(e, id) \in PendingFeedback
  BY ClientAssumption, NoEntryAssumption DEF PendingFeedback, Marked, Posted, SyncError

LEMMA PresentFact ==
  ASSUME NEW q \in Queues, NEW k \in Key, Present(q, k)
  PROVE  q[k] \in PendingFeedback
  BY DEF Queues, Present

LEMMA UpdateFact ==
  ASSUME NEW q \in Queues, NEW k \in Key, NEW e \in PendingFeedback
  PROVE  /\ [q EXCEPT ![k] = e] \in Queues
         /\ Set(q, k, e) \in Queues
         /\ \A j \in Key : Present(q, j) => Present([q EXCEPT ![k] = e], j)
         /\ \A j \in Key : Present(q, j) <=> Present(Set(q, k, e), j)
  BY NoEntryAssumption DEF Queues, Set, Present

\* Where a flush gets to from the entries q, of which saved is in storage: its end, or
\* the next post or undo on behalf of u.
Reaches(u, q, saved) ==
  /\ queue' \in Queues /\ Moved(q, queue')
  /\ disk' = queue' \/ (disk' = saved /\ queue' = q)
  /\ \/ flush' = IdleFlush /\ disk' = queue'
     \/ /\ flush'.at \in Key /\ flush' = [at |-> flush'.at, step |-> flush'.step, as |-> u]
        /\ BelongsTo(u, q, flush'.at)
        /\ Present(queue', flush'.at)
        /\ \/ /\ flush'.step = "post"
              /\ NeedsPost(u, q, flush'.at)
              /\ queue'[flush'.at] = Marked(q[flush'.at])
              /\ disk' = queue'
           \/ /\ flush'.step = "undo"
              /\ NeedsUndo(u, q, flush'.at)
              /\ queue' = q

LEMMA EndFlushEffect ==
  ASSUME NEW u, NEW q \in Queues, NEW saved, EndFlush(q)
  PROVE  Reaches(u, q, saved)
<1>1. queue' = Prune(q) /\ disk' = queue' /\ flush' = IdleFlush
  BY DEF EndFlush
<1>2. queue' \in Queues
  BY <1>1 DEF Prune, Queues
<1>3. Moved(q, queue')
  BY <1>1 DEF Moved, Prune
<1>. QED
  BY <1>1, <1>2, <1>3 DEF Reaches

LEMMA ProceedEffect ==
  ASSUME NEW u, NEW q \in Queues, NEW saved \in Queues, NEW i \in Nat,
         Proceed(u, q, saved, i)
  PROVE  Reaches(u, q, saved)
<1> DEFINE Needs(k) == NeedsPost(u, q, k) \/ NeedsUndo(u, q, k)
           First(k) == k >= i /\ Needs(k) /\ \A j \in i..(k - 1) : ~Needs(j)
<1>1. CASE EndFlush(q)
  BY <1>1, EndFlushEffect
<1>2. CASE \E k \in Key :
             /\ First(k) /\ NeedsPost(u, q, k)
             /\ queue' = [q EXCEPT ![k].submissionAttempted = TRUE]
             /\ disk' = queue'
             /\ flush' = [at |-> k, step |-> "post", as |-> u]
  <2>1. PICK k \in Key :
             /\ NeedsPost(u, q, k)
             /\ queue' = [q EXCEPT ![k].submissionAttempted = TRUE]
             /\ disk' = queue'
             /\ flush' = [at |-> k, step |-> "post", as |-> u]
    BY <1>2
  <2>2. BelongsTo(u, q, k) /\ Present(q, k) /\ q[k] \in PendingFeedback
    BY <2>1, PresentFact DEF NeedsPost, BelongsTo
  <2>3. queue' = [q EXCEPT ![k] = Marked(q[k])]
    BY <2>1 DEF Marked
  <2>4. queue' \in Queues /\ Present(queue', k)
    BY <2>2, <2>3, EntryFact, UpdateFact
  <2>5. queue'[k] = Marked(q[k]) /\ \A j \in Key \ {k} : queue'[j] = q[j]
    BY <2>3 DEF Queues
  <2>6. Moved(q, queue')
    BY <2>2, <2>5 DEF Moved
  <2>. QED
    BY <2>1, <2>2, <2>4, <2>5, <2>6 DEF Reaches
<1>3. CASE \E k \in Key :
             /\ First(k) /\ NeedsUndo(u, q, k)
             /\ queue' = q /\ disk' = saved
             /\ flush' = [at |-> k, step |-> "undo", as |-> u]
  <2>1. PICK k \in Key :
             /\ NeedsUndo(u, q, k)
             /\ queue' = q /\ disk' = saved
             /\ flush' = [at |-> k, step |-> "undo", as |-> u]
    BY <1>3
  <2>. QED
    BY <2>1 DEF NeedsUndo, BelongsTo, Moved, Reaches
<1>. QED
  BY <1>1, <1>2, <1>3 DEF Proceed

\* A flush that is started, or joined.
LEMMA FlushEffect ==
  ASSUME NEW u, NEW q, NEW saved, Flush(u, q, saved)
  PROVE  \/ flush.step = "idle" /\ Proceed(u, q, saved, 1)
         \/ flush.step # "idle" /\ queue' = q /\ disk' = saved /\ flush' = flush
  BY DEF Flush

LEMMA MarkedFact ==
  ASSUME NEW e \in PendingFeedback
  PROVE  /\ Marked(e).submissionAttempted
         /\ Marked(e).ownerUserId = e.ownerUserId /\ Marked(e).feedbackId = e.feedbackId
         /\ Marked(e).cancelled = e.cancelled /\ Marked(e).undone = e.undone
         /\ Marked(e).syncError = e.syncError
  BY DEF Marked, PendingFeedback

\* Marking and dropping entries, as a flush does, keeps them right.
LEMMA MovedOk ==
  ASSUME NEW e \in PendingFeedback, NEW a, NEW aged, NEW recorded, NEW underway, NEW active,
         EntryOk(e, a, aged, recorded, underway, active)
  PROVE  /\ EntryOk(Marked(e), a, aged, recorded, underway, active)
         /\ aged /\ (e.cancelled \/ (e.feedbackId # NoFeedback /\ e.syncError = "none"))
              => EntryOk(NoEntry, a, aged, recorded, underway, active)
<1>1. EntryOk(Marked(e), a, aged, recorded, underway, active)
  BY EntryFact, MarkedFact DEF EntryOk, ReplayedEntry
<1>2. ASSUME aged, e.cancelled \/ (e.feedbackId # NoFeedback /\ e.syncError = "none")
      PROVE  EntryOk(NoEntry, a, aged, recorded, underway, active)
  BY <1>2, EntryFact DEF EntryOk, ReplayedEntry
<1>. QED
  BY <1>1, <1>2

\* After the synchronous run of a flush that starts from right entries q and saved.
LEMMA ReachedInv ==
  ASSUME NEW u \in User \cup {Nobody}, NEW q \in Queues, NEW saved \in Queues,
         Reaches(u, q, saved), old' = old,
         \A k \in Key :
           /\ EntryOk(q[k], asked'[k], k \in old, Recorded(k)', StrayPost(k)', MayBeActive(k)')
           /\ EntryOk(saved[k], asked'[k], k \in old, Recorded(k)', StrayPost(k)', MayBeActive(k)')
           /\ Asked(k)'
           /\ \E w \in User \cup {Nobody} : OwnerIs(w, q[k]) /\ OwnerIs(w, saved[k]) /\ TracesOf(w, k)'
  PROVE  /\ queue' \in Queues /\ disk' \in Queues
         /\ flush' \in [at : Key \cup {0}, step : Steps, as : User \cup {Nobody}]
         /\ flush'.step # "idle" =>
              flush'.at \in Key /\ Present(queue', flush'.at) /\ flush'.as \in User
         /\ Waiting'
         /\ \A k \in Key : KeyInv(k)'
<1> DEFINE Right(e, k) ==
      EntryOk(e, asked'[k], k \in old, Recorded(k)', StrayPost(k)', MayBeActive(k)')
<1>1. /\ queue' \in Queues /\ Moved(q, queue')
      /\ disk' = queue' \/ (disk' = saved /\ queue' = q)
      /\ \/ flush' = IdleFlush /\ disk' = queue'
         \/ /\ flush'.at \in Key /\ flush' = [at |-> flush'.at, step |-> flush'.step, as |-> u]
            /\ BelongsTo(u, q, flush'.at)
            /\ Present(queue', flush'.at)
            /\ \/ /\ flush'.step = "post"
                  /\ NeedsPost(u, q, flush'.at)
                  /\ queue'[flush'.at] = Marked(q[flush'.at])
                  /\ disk' = queue'
               \/ /\ flush'.step = "undo"
                  /\ NeedsUndo(u, q, flush'.at)
                  /\ queue' = q
  BY DEF Reaches
<1>2. ASSUME NEW k \in Key
      PROVE  Right(queue'[k], k) /\ \A w \in User \cup {Nobody} : OwnerIs(w, q[k]) => OwnerIs(w, queue'[k])
  <2>1. CASE queue'[k] = q[k]
    BY <2>1
  <2>2. CASE Present(q, k) /\ queue'[k] = Marked(q[k])
    <3>1. q[k] \in PendingFeedback
      BY <2>2, PresentFact
    <3>2. Right(queue'[k], k)
      BY <2>2, <3>1, MovedOk
    <3>. QED
      BY <2>2, <3>1, <3>2, EntryFact, MarkedFact DEF OwnerIs
  <2>3. CASE Droppable(q, k) /\ queue'[k] = NoEntry
    <3>1. q[k] \in PendingFeedback
      BY <2>3, PresentFact DEF Droppable
    <3>2. Right(queue'[k], k)
      BY <2>3, <3>1, MovedOk DEF Recorded, StrayPost, MayBeActive, Active, Droppable
    <3>. QED
      BY <2>3, <3>2 DEF OwnerIs
  <2>. QED
    BY <1>1, <2>1, <2>2, <2>3 DEF Moved
<1>3. \A k \in Key :
        /\ Right(disk'[k], k)
        /\ \E w \in User \cup {Nobody} : OwnerIs(w, queue'[k]) /\ OwnerIs(w, disk'[k]) /\ TracesOf(w, k)'
  BY <1>1, <1>2
<1>4. \A k \in Key : KeyInv(k)'
  BY <1>2, <1>3 DEF KeyInv, Ok
<1>5. /\ disk' \in Queues
      /\ flush' \in [at : Key \cup {0}, step : Steps, as : User \cup {Nobody}]
      /\ flush'.step # "idle" =>
           flush'.at \in Key /\ Present(queue', flush'.at) /\ flush'.as \in User
  BY <1>1 DEF IdleFlush, Steps, BelongsTo
<1>6. Waiting'
  <2>1. CASE flush' = IdleFlush
    BY <2>1 DEF Waiting, IdleFlush
  <2>2. ASSUME NEW k \in Key, flush' = [at |-> k, step |-> "post", as |-> u],
               BelongsTo(u, q, k), NeedsPost(u, q, k),
               queue'[k] = Marked(q[k]), disk' = queue'
        PROVE  Waiting'
    <3>1. q[k] \in PendingFeedback
      BY <2>2, PresentFact DEF BelongsTo
    <3>2. InDoubt(queue'[k]) /\ queue'[k].ownerUserId = u
      BY <2>2, <3>1, EntryFact, MarkedFact DEF InDoubt, NeedsPost, Unposted, BelongsTo
    <3>. QED
      BY <2>2, <3>2 DEF Waiting, Posting, InDoubt
  <2>3. ASSUME NEW k \in Key, flush' = [at |-> k, step |-> "undo", as |-> u],
               NeedsUndo(u, q, k), queue' = q
        PROVE  Waiting'
    <3>1. Present(q, k) /\ q[k].undone /\ q[k].ownerUserId = u
      BY <2>3 DEF NeedsUndo, BelongsTo
    <3>2. asked'[k] \notin {"nothing", "keep"}
      BY <3>1 DEF EntryOk, Present
    <3>. QED
      BY <2>3, <3>1, <3>2 DEF Waiting, Posting
  <2>. QED
    BY <1>1, <2>1, <2>2, <2>3
<1>. QED
  BY <1>1, <1>4, <1>5, <1>6

-----------------------------------------------------------------------------
(* One lemma per action: it preserves the invariant. *)

\* What is known of a key when only the client's own variables change.
LEMMA SameWorld ==
  ASSUME UNCHANGED <<call, stray, rows, undoneBy, old, asked>>, NEW k \in Key
  PROVE  /\ asked'[k] = asked[k] /\ (Recorded(k)' <=> Recorded(k))
         /\ (StrayPost(k)' <=> StrayPost(k)) /\ (MayBeActive(k)' <=> MayBeActive(k))
         /\ (Asked(k)' <=> Asked(k))
         /\ \A w : TracesOf(w, k)' <=> TracesOf(w, k)
  BY DEF Recorded, StrayPost, MayBeActive, Active, Asked, TracesOf

\* Running the loop from where it is, nothing else having changed.
LEMMA ResumeInv ==
  ASSUME Inv, NEW u \in User \cup {Nobody}, NEW i \in Nat, session' \in User \cup {Nobody},
         Proceed(u, queue, disk, i),
         UNCHANGED <<call, stray, rows, undoneBy, old, asked>>
  PROVE  Inv'
<1>1. queue \in Queues /\ disk \in Queues
  BY DEF Inv, Types, TypeOK
<1>2. ASSUME NEW k \in Key
      PROVE  /\ EntryOk(queue[k], asked'[k], k \in old, Recorded(k)', StrayPost(k)', MayBeActive(k)')
             /\ EntryOk(disk[k], asked'[k], k \in old, Recorded(k)', StrayPost(k)', MayBeActive(k)')
             /\ Asked(k)'
             /\ \E w \in User \cup {Nobody} : OwnerIs(w, queue[k]) /\ OwnerIs(w, disk[k]) /\ TracesOf(w, k)'
  <2>1. KeyInv(k)
    BY DEF Inv
  <2>. QED
    BY <2>1, SameWorld DEF KeyInv, Ok, EntryOk
<1>3. /\ queue' \in Queues /\ disk' \in Queues
      /\ flush' \in [at : Key \cup {0}, step : Steps, as : User \cup {Nobody}]
      /\ flush'.step # "idle" =>
           flush'.at \in Key /\ Present(queue', flush'.at) /\ flush'.as \in User
      /\ Waiting'
      /\ \A k \in Key : KeyInv(k)'
  BY <1>1, <1>2, ReachedInv, ProceedEffect
<1>4. Types'
  BY <1>3 DEF Inv, Types, TypeOK, Present
<1>. QED
  BY <1>3, <1>4 DEF Inv

LEMMA UnchangedInv ==
  ASSUME Inv, session' \in User \cup {Nobody},
         UNCHANGED <<queue, disk, flush, call, stray, rows, undoneBy, old, asked>>
  PROVE  Inv'
<1>1. Types' /\ Waiting'
  BY DEF Inv, Types, TypeOK, Present, Waiting, Posting
<1>2. ASSUME NEW k \in Key PROVE KeyInv(k)'
  <2>1. KeyInv(k)
    BY DEF Inv
  <2>. QED
    BY <2>1, SameWorld DEF KeyInv, Ok, EntryOk
<1>. QED
  BY <1>1, <1>2 DEF Inv

\* A new account, with or without a flush.
LEMMA SignInInv ==
  ASSUME Inv, NEW u \in User, SignIn(u)
  PROVE  Inv'
<1>1. session' = u /\ UNCHANGED <<call, stray, rows, undoneBy, old, asked>>
  BY DEF SignIn
<1>2. Flush(u, queue, disk)
  BY DEF SignIn
<1>3. CASE Proceed(u, queue, disk, 1)
  BY <1>1, <1>3, ResumeInv
<1>4. CASE queue' = queue /\ disk' = disk /\ flush' = flush
  BY <1>1, <1>4, UnchangedInv
<1>. QED
  BY <1>2, <1>3, <1>4, FlushEffect

LEMMA FlushNowInv ==
  ASSUME Inv, FlushNow
  PROVE  Inv'
<1>1. session \in User \cup {Nobody}
  BY DEF Inv, Types, TypeOK
<1>2. Proceed(session, queue, disk, 1)
  BY FlushEffect DEF FlushNow
<1>. QED
  BY <1>1, <1>2, ResumeInv DEF FlushNow

LEMMA SignOutInv ==
  ASSUME Inv, SignOut
  PROVE  Inv'
  BY UnchangedInv DEF SignOut

\* The entry a flush waits for.
LEMMA FlushEntry ==
  ASSUME Inv, flush.step # "idle"
  PROVE  /\ flush.at \in Key /\ flush.at + 1 \in Nat /\ flush.as \in User
         /\ queue[flush.at] \in PendingFeedback
         /\ KeyInv(flush.at)
  BY PresentFact, KeyFact DEF Inv, Types, TypeOK

LEMMA RowFact ==
  ASSUME NEW r \in Feedback
  PROVE  r = [user |-> r.user, key |-> r.key]
  BY DEF Feedback

\* An undone row is the only row of its key.
LEMMA UndoneIsInactive ==
  ASSUME Inv, NEW k \in Key, NEW u, [user |-> u, key |-> k] \in undoneBy
  PROVE  ~MayBeActive(k)
<1>1. /\ [user |-> u, key |-> k] \in rows
      /\ rows \subseteq Feedback
  BY DEF Inv, Types, TypeOK
<1>2. Recorded(k)
  BY <1>1 DEF Recorded
<1>3. PICK w \in User \cup {Nobody} : TracesOf(w, k)
  BY DEF Inv, KeyInv
<1>4. \A r \in rows : r.key = k => r = [user |-> w, key |-> k]
  BY <1>1, <1>3, RowFact DEF TracesOf
<1>5. [user |-> u, key |-> k] = [user |-> w, key |-> k]
  BY <1>1, <1>4
<1>. QED
  BY <1>2, <1>4, <1>5 DEF MayBeActive, Active

LEMMA SyncFact ==
  ASSUME NEW e \in PendingFeedback, NEW s \in SyncError
  PROVE  LET f == [e EXCEPT !.syncError = s]
         IN  /\ f \in PendingFeedback /\ f.syncError = s
             /\ f.ownerUserId = e.ownerUserId
             /\ f.submissionAttempted = e.submissionAttempted /\ f.feedbackId = e.feedbackId
             /\ f.cancelled = e.cancelled /\ f.undone = e.undone
  BY DEF PendingFeedback

\* A new syncError, unless it forgets an undo that is owed.
LEMMA SyncOk ==
  ASSUME NEW e \in PendingFeedback, NEW a, NEW aged, NEW recorded, NEW underway, NEW active,
         EntryOk(e, a, aged, recorded, underway, active), NEW s \in SyncError,
         e.feedbackId = NoFeedback \/ s = "undo_pending" \/ ~active
  PROVE  EntryOk([e EXCEPT !.syncError = s], a, aged, recorded, underway, active)
<1> DEFINE f == [e EXCEPT !.syncError = s]
<1>1. /\ f \in PendingFeedback /\ f.syncError = s
      /\ f.submissionAttempted = e.submissionAttempted /\ f.feedbackId = e.feedbackId
      /\ f.cancelled = e.cancelled /\ f.undone = e.undone
  BY SyncFact
<1> HIDE DEF f
<1>2. EntryOk(f, a, aged, recorded, underway, active)
  BY <1>1, EntryFact DEF EntryOk, ReplayedEntry
<1>. QED
  BY <1>2 DEF f

\* A flush goes on after it has replaced the entry k by e.
LEMMA ReplaceInv ==
  ASSUME Inv, NEW k \in Key, Present(queue, k),
         NEW e \in PendingFeedback, e.ownerUserId = queue[k].ownerUserId,
         Reaches(session, [queue EXCEPT ![k] = e], disk),
         UNCHANGED <<session, call, rows, undoneBy, old>>,
         stray' \subseteq [kind : {"post", "undo"}, user : User, key : Key],
         asked' \in [Key -> {"nothing", "keep", "undo", "refused"}],
         EntryOk(e, asked'[k], k \in old, Recorded(k)', StrayPost(k)', MayBeActive(k)'),
         \A j \in Key :
           /\ j # k => EntryOk(queue[j], asked'[j], j \in old,
                               Recorded(j)', StrayPost(j)', MayBeActive(j)')
           /\ EntryOk(disk[j], asked'[j], j \in old,
                      Recorded(j)', StrayPost(j)', MayBeActive(j)')
           /\ Asked(j)'
           /\ \A w \in User \cup {Nobody} : OwnerIs(w, queue[j]) /\ TracesOf(w, j) => TracesOf(w, j)'
  PROVE  Inv'
<1> DEFINE q == [queue EXCEPT ![k] = e]
<1>1. /\ queue \in Queues /\ disk \in Queues
      /\ session \in User \cup {Nobody}
  BY DEF Inv, Types, TypeOK
<1>2. q \in Queues /\ q[k] = e /\ \A j \in Key \ {k} : q[j] = queue[j]
  BY <1>1, UpdateFact DEF Queues
<1>3. Reaches(session, q, disk)
  OBVIOUS
<1> HIDE DEF q
<1>4. ASSUME NEW j \in Key
      PROVE  /\ EntryOk(q[j], asked'[j], j \in old, Recorded(j)', StrayPost(j)', MayBeActive(j)')
             /\ EntryOk(disk[j], asked'[j], j \in old, Recorded(j)', StrayPost(j)', MayBeActive(j)')
             /\ Asked(j)'
             /\ \E w \in User \cup {Nobody} : OwnerIs(w, q[j]) /\ OwnerIs(w, disk[j]) /\ TracesOf(w, j)'
  <2>1. \A w : OwnerIs(w, queue[j]) => OwnerIs(w, q[j])
    BY <1>2 DEF OwnerIs, Present
  <2>2. EntryOk(q[j], asked'[j], j \in old, Recorded(j)', StrayPost(j)', MayBeActive(j)')
    BY <1>2
  <2>. QED
    BY <2>1, <2>2 DEF Inv, KeyInv
<1>5. /\ queue' \in Queues /\ disk' \in Queues
      /\ flush' \in [at : Key \cup {0}, step : Steps, as : User \cup {Nobody}]
      /\ flush'.step # "idle" =>
           flush'.at \in Key /\ Present(queue', flush'.at) /\ flush'.as \in User
      /\ Waiting'
      /\ \A j \in Key : KeyInv(j)'
  BY <1>1, <1>2, <1>3, <1>4, ReachedInv
<1>6. Types'
  BY <1>5 DEF Inv, Types, TypeOK, Present
<1>. QED
  BY <1>5, <1>6 DEF Inv

\* The same when the server, the network and the user do nothing.
LEMMA ReplaceOnlyInv ==
  ASSUME Inv, NEW k \in Key, Present(queue, k),
         NEW e \in PendingFeedback, e.ownerUserId = queue[k].ownerUserId, Ok(e, k),
         Reaches(session, [queue EXCEPT ![k] = e], disk),
         UNCHANGED <<session, call, stray, rows, undoneBy, old, asked>>
  PROVE  Inv'
<1>1. /\ stray' \subseteq [kind : {"post", "undo"}, user : User, key : Key]
      /\ asked' \in [Key -> {"nothing", "keep", "undo", "refused"}]
  BY DEF Inv, Types, TypeOK
<1>2. ASSUME NEW j \in Key, NEW f, Ok(f, j)
      PROVE  EntryOk(f, asked'[j], j \in old, Recorded(j)', StrayPost(j)', MayBeActive(j)')
  BY <1>2, SameWorld DEF Ok, EntryOk
<1>3. \A j \in Key : KeyInv(j)
  BY DEF Inv
<1>. QED
  BY <1>1, <1>2, <1>3, ReplaceInv, SameWorld DEF KeyInv

LEMMA UndoAckedInv ==
  ASSUME Inv, UndoAcked
  PROVE  Inv'
<1> DEFINE k == flush.at
           e == [queue[k] EXCEPT !.syncError = "none"]
<1>1. /\ flush.step = "undone"
      /\ Proceed(session, [queue EXCEPT ![k] = e], disk, k + 1)
      /\ UNCHANGED <<session, call, stray, rows, undoneBy, old, asked>>
  BY DEF UndoAcked
<1>2. k \in Key /\ k + 1 \in Nat /\ queue[k] \in PendingFeedback /\ KeyInv(k)
  BY <1>1, FlushEntry
<1>3. e \in PendingFeedback /\ e.ownerUserId = queue[k].ownerUserId
  BY <1>2, SyncFact DEF SyncError
<1>4. ~MayBeActive(k)
  BY <1>1, <1>2, UndoneIsInactive DEF Inv, Waiting
<1>5. Ok(e, k)
  BY <1>2, <1>4, SyncOk DEF KeyInv, Ok, SyncError
<1> HIDE DEF e
<1>6. queue \in Queues /\ disk \in Queues
  BY DEF Inv, Types, TypeOK
<1>7. [queue EXCEPT ![k] = e] \in Queues
  BY <1>2, <1>3, <1>6, UpdateFact
<1>8. Reaches(session, [queue EXCEPT ![k] = e], disk)
  BY <1>1, <1>2, <1>6, <1>7, ProceedEffect
<1>. QED
  BY <1>1, <1>2, <1>3, <1>5, <1>8, ReplaceOnlyInv, EntryFact DEF Present

LEMMA PostedFact ==
  ASSUME NEW e \in PendingFeedback, NEW id \in Feedback
  PROVE  /\ Posted(e, id) \in PendingFeedback /\ Posted(e, id).feedbackId = id
         /\ Posted(e, id).ownerUserId = e.ownerUserId
         /\ Posted(e, id).submissionAttempted = e.submissionAttempted
         /\ Posted(e, id).cancelled = e.cancelled
         /\ Posted(e, id).undone = (e.undone \/ e.cancelled)
         /\ e.undone \/ e.cancelled => Posted(e, id).syncError = "undo_pending"
  BY DEF Posted, PendingFeedback, SyncError

LEMMA PostAckedInv ==
  ASSUME Inv, PostAcked
  PROVE  Inv'
<1> DEFINE k == flush.at
           id == [user |-> flush.as, key |-> k]
           e == Posted(queue[k], id)
<1>1. /\ flush.step = "posted"
      /\ Proceed(session, [queue EXCEPT ![k] = e], disk, k)
      /\ UNCHANGED <<session, call, stray, rows, undoneBy, old, asked>>
  BY DEF PostAcked
<1>2. /\ k \in Key /\ k \in Nat /\ flush.as \in User
      /\ queue[k] \in PendingFeedback /\ KeyInv(k)
  BY <1>1, FlushEntry, KeyFact
<1>3. id \in Feedback /\ id # NoFeedback /\ id \in rows
  BY <1>1, <1>2, AbsenceAssumption DEF Feedback, Inv, Waiting
<1>4. InDoubt(queue[k])
  BY <1>1 DEF Inv, Waiting, Posting
<1>5. Recorded(k)
  BY <1>3 DEF Recorded
<1> HIDE DEF id
<1>6. /\ e \in PendingFeedback /\ e.feedbackId = id
      /\ e.ownerUserId = queue[k].ownerUserId
      /\ e.submissionAttempted = queue[k].submissionAttempted
      /\ e.cancelled = queue[k].cancelled
      /\ e.undone = (queue[k].undone \/ queue[k].cancelled)
      /\ queue[k].undone \/ queue[k].cancelled => e.syncError = "undo_pending"
  BY <1>2, <1>3, PostedFact
<1> HIDE DEF e
<1>7. Ok(e, k)
  <2>1. Ok(queue[k], k) /\ queue[k] # NoEntry /\ e # NoEntry
    BY <1>2, <1>6, EntryFact DEF KeyInv
  <2>. QED
    BY <1>3, <1>4, <1>5, <1>6, <2>1 DEF Ok, EntryOk, ReplayedEntry, InDoubt
<1>8. queue \in Queues /\ disk \in Queues
  BY DEF Inv, Types, TypeOK
<1>9. [queue EXCEPT ![k] = e] \in Queues
  BY <1>2, <1>6, <1>8, UpdateFact
<1>10. Reaches(session, [queue EXCEPT ![k] = e], disk)
  BY <1>1, <1>2, <1>8, <1>9, ProceedEffect
<1>. QED
  BY <1>1, <1>2, <1>6, <1>7, <1>10, ReplaceOnlyInv, EntryFact DEF Present

\* The requests of the flush and of the undo calls.
Request == FlushRequest \cup UNION {CallRequest(k) : k \in Key}

\* A request under way was asked for, by the account it is sent for; a post is in
\* doubt in memory and in storage.
LEMMA RequestFact ==
  ASSUME Inv, NEW m \in Request
  PROVE  /\ m \in [kind : {"post", "undo"}, user : User, key : Key]
         /\ asked[m.key] # "nothing"
         /\ m.kind = "undo" => asked[m.key] # "keep"
         /\ m.kind = "post" => InDoubt(queue[m.key]) /\ InDoubt(disk[m.key])
         /\ \A w : OwnerIs(w, queue[m.key]) /\ TracesOf(w, m.key) => m.user = w
<1>1. CASE flush.step = "posting" /\ m = Post(flush.as, flush.at)
  <2>1. /\ flush.at \in Key /\ flush.as \in User /\ KeyInv(flush.at)
        /\ queue[flush.at].ownerUserId = flush.as
        /\ InDoubt(queue[flush.at]) /\ InDoubt(disk[flush.at])
    BY <1>1, FlushEntry DEF Inv, Waiting, Posting
  <2>2. asked[flush.at] # "nothing"
    BY <2>1 DEF KeyInv, Ok, EntryOk, InDoubt
  <2>. QED
    BY <1>1, <2>1, <2>2 DEF Post, OwnerIs, InDoubt
<1>2. CASE flush.step = "undoing" /\ m = Undoing(flush.as, flush.at)
  <2>1. /\ flush.at \in Key /\ flush.as \in User
        /\ queue[flush.at] \in PendingFeedback
        /\ queue[flush.at].ownerUserId = flush.as
        /\ asked[flush.at] \notin {"nothing", "keep"}
    BY <1>2, FlushEntry DEF Inv, Waiting, Posting
  <2>. QED
    BY <1>2, <2>1, EntryFact DEF Undoing, OwnerIs
<1>3. ASSUME NEW k \in Key, call[k].step = "undoing", m = Undoing(call[k].as, k)
      PROVE  /\ m \in [kind : {"post", "undo"}, user : User, key : Key]
             /\ asked[m.key] # "nothing"
             /\ m.kind = "undo" => asked[m.key] # "keep"
             /\ m.kind = "post" => InDoubt(queue[m.key]) /\ InDoubt(disk[m.key])
             /\ \A w : OwnerIs(w, queue[m.key]) /\ TracesOf(w, m.key) => m.user = w
  BY <1>3 DEF Inv, Types, KeyInv, Asked, TracesOf, Undoing
<1>4. m \in FlushRequest \/ \E k \in Key : m \in CallRequest(k)
  BY DEF Request
<1>5. CASE m \in FlushRequest
  BY <1>1, <1>2, <1>5 DEF FlushRequest
<1>6. CASE \E k \in Key : m \in CallRequest(k)
  BY <1>3, <1>6 DEF CallRequest
<1>. QED
  BY <1>4, <1>5, <1>6

\* Giving up on requests changes nothing that is known of an entry.
LEMMA GiveUpWorld ==
  ASSUME Inv, NEW R, R \subseteq Request, GiveUp(R),
         UNCHANGED <<rows, undoneBy, old, asked>>,
         \A k \in Key : call'[k] = call[k] \/ call'[k] = NoCall,
         NEW j \in Key
  PROVE  /\ stray' \subseteq [kind : {"post", "undo"}, user : User, key : Key]
         /\ EntryOk(queue[j], asked[j], j \in old,
                    Recorded(j)', StrayPost(j)', MayBeActive(j)')
         /\ EntryOk(disk[j], asked[j], j \in old,
                    Recorded(j)', StrayPost(j)', MayBeActive(j)')
         /\ Asked(j)'
         /\ \A w : OwnerIs(w, queue[j]) /\ TracesOf(w, j) => TracesOf(w, j)'
<1>1. PICK late \in SUBSET R : stray' = stray \cup late
  BY DEF GiveUp
<1>2. \A m \in late :
        /\ m \in [kind : {"post", "undo"}, user : User, key : Key]
        /\ asked[m.key] # "nothing"
        /\ m.kind = "undo" => asked[m.key] # "keep"
        /\ m.kind = "post" => InDoubt(queue[m.key]) /\ InDoubt(disk[m.key])
        /\ \A w : OwnerIs(w, queue[m.key]) /\ TracesOf(w, m.key) => m.user = w
  BY <1>1, RequestFact
<1>3. KeyInv(j)
  BY DEF Inv
<1>4. stray' \subseteq [kind : {"post", "undo"}, user : User, key : Key]
  BY <1>1, <1>2 DEF Inv, Types, TypeOK
<1>5. /\ Recorded(j)' <=> Recorded(j)
      /\ Active(j)' <=> Active(j)
      /\ StrayPost(j) => StrayPost(j)'
      /\ StrayPost(j)' /\ ~StrayPost(j) => InDoubt(queue[j]) /\ InDoubt(disk[j])
  BY <1>1, <1>2 DEF Recorded, Active, StrayPost
<1>6. ASSUME NEW e, Ok(e, j), StrayPost(j)' /\ ~StrayPost(j) => InDoubt(e)
      PROVE  EntryOk(e, asked[j], j \in old, Recorded(j)', StrayPost(j)', MayBeActive(j)')
  <2>1. CASE StrayPost(j)' /\ ~StrayPost(j)
    <3>1. InDoubt(e) /\ ReplayedEntry(e) /\ e.submissionAttempted
      BY <1>6, <2>1 DEF InDoubt, ReplayedEntry
    <3>. QED
      BY <1>5, <1>6, <3>1 DEF Ok, EntryOk
  <2>2. CASE StrayPost(j)' <=> StrayPost(j)
    <3>1. MayBeActive(j)' <=> MayBeActive(j)
      BY <1>5, <2>2 DEF MayBeActive
    <3>. QED
      BY <1>5, <1>6, <2>2, <3>1 DEF Ok, EntryOk
  <2>. QED
    BY <1>5, <2>1, <2>2
<1>7. Asked(j)'
  BY <1>1, <1>2, <1>3 DEF KeyInv, Asked, NoCall
<1>8. \A w : OwnerIs(w, queue[j]) /\ TracesOf(w, j) => TracesOf(w, j)'
  BY <1>1, <1>2 DEF TracesOf, NoCall
<1>. QED
  BY <1>3, <1>4, <1>5, <1>6, <1>7, <1>8 DEF KeyInv

LEMMA FlushDisownedInv ==
  ASSUME Inv, FlushDisowned
  PROVE  Inv'
<1> DEFINE k == flush.at
<1>1. /\ flush.step # "idle"
      /\ Proceed(session, queue, disk, k + 1)
      /\ GiveUp(FlushRequest)
      /\ UNCHANGED <<session, call, rows, undoneBy, old, asked>>
  BY DEF FlushDisowned
<1>2. k \in Key /\ k + 1 \in Nat /\ queue[k] \in PendingFeedback
  BY <1>1, FlushEntry
<1>3. /\ queue \in Queues /\ disk \in Queues
      /\ asked' \in [Key -> {"nothing", "keep", "undo", "refused"}]
  BY <1>1 DEF Inv, Types, TypeOK
<1>4. [queue EXCEPT ![k] = queue[k]] = queue
  BY <1>2, <1>3 DEF Queues
<1>5. Reaches(session, queue, disk)
  BY <1>1, <1>2, <1>3, ProceedEffect
<1>6. FlushRequest \subseteq Request
  BY DEF Request
<1>. QED
  BY <1>1, <1>2, <1>3, <1>4, <1>5, <1>6, GiveUpWorld, ReplaceInv, EntryFact DEF Present

LEMMA FlushUnavailableInv ==
  ASSUME Inv, FlushUnavailable
  PROVE  Inv'
<1>0. PICK k \in Key : k = flush.at
  BY FlushEntry DEF FlushUnavailable
<1> DEFINE s == IF Posting THEN "transient" ELSE "undo_pending"
           e == [queue[k] EXCEPT !.syncError = s]
<1>1. /\ flush.step # "idle"
      /\ EndFlush([queue EXCEPT ![k] = e])
      /\ GiveUp(FlushRequest)
      /\ UNCHANGED <<session, call, rows, undoneBy, old, asked>>
  BY <1>0 DEF FlushUnavailable
<1>2. k \in Key /\ queue[k] \in PendingFeedback /\ s \in SyncError
  BY <1>0, <1>1, FlushEntry DEF SyncError
<1>3. /\ queue \in Queues /\ disk \in Queues
      /\ asked' \in [Key -> {"nothing", "keep", "undo", "refused"}]
  BY <1>1 DEF Inv, Types, TypeOK
<1>4. queue[k].feedbackId = NoFeedback \/ s = "undo_pending"
  BY <1>0, <1>1 DEF Inv, Waiting, InDoubt
<1>5. FlushRequest \subseteq Request
  BY DEF Request
<1>10. \A j \in Key :
         /\ stray' \subseteq [kind : {"post", "undo"}, user : User, key : Key]
         /\ EntryOk(queue[j], asked[j], j \in old,
                    Recorded(j)', StrayPost(j)', MayBeActive(j)')
         /\ EntryOk(disk[j], asked[j], j \in old,
                    Recorded(j)', StrayPost(j)', MayBeActive(j)')
         /\ Asked(j)'
         /\ \A w : OwnerIs(w, queue[j]) /\ TracesOf(w, j) => TracesOf(w, j)'
  BY <1>1, <1>5, GiveUpWorld
<1> HIDE DEF s
<1>6. e \in PendingFeedback /\ e.ownerUserId = queue[k].ownerUserId
  BY <1>2, SyncFact
<1>7. EntryOk(e, asked[k], k \in old, Recorded(k)', StrayPost(k)', MayBeActive(k)')
  <2>1. EntryOk(queue[k], asked[k], k \in old, Recorded(k)', StrayPost(k)', MayBeActive(k)')
    BY <1>2, <1>10
  <2>. QED
    BY <1>2, <1>4, <2>1, SyncOk
<1> HIDE DEF e
<1>8. [queue EXCEPT ![k] = e] \in Queues
  BY <1>2, <1>3, <1>6, UpdateFact
<1>9. Reaches(session, [queue EXCEPT ![k] = e], disk)
  BY <1>1, <1>8, EndFlushEffect
<1>. QED
  BY <1>1, <1>2, <1>3, <1>6, <1>7, <1>9, <1>10, ReplaceInv, EntryFact DEF Present

LEMMA RefusedFact ==
  ASSUME NEW e \in PendingFeedback, NEW b \in BOOLEAN
  PROVE  LET f == [e EXCEPT !.syncError = "refused", !.cancelled = @ \/ b]
         IN  /\ f \in PendingFeedback
             /\ f.ownerUserId = e.ownerUserId
             /\ f.submissionAttempted = e.submissionAttempted /\ f.feedbackId = e.feedbackId
             /\ f.cancelled = (e.cancelled \/ b) /\ f.undone = e.undone
  BY DEF PendingFeedback, SyncError

LEMMA FlushRefusedInv ==
  ASSUME Inv, FlushRefused
  PROVE  Inv'
<1>0. PICK k \in Key : k = flush.at
  BY FlushEntry DEF FlushRefused
<1> DEFINE e == [queue[k] EXCEPT !.syncError = "refused", !.cancelled = @ \/ Posting]
<1>1. /\ flush.step # "idle"
      /\ Proceed(session, [queue EXCEPT ![k] = e], disk, k + 1)
      /\ asked' = [asked EXCEPT ![k] = IF Posting /\ @ = "undo" THEN @ ELSE "refused"]
      /\ UNCHANGED <<session, call, stray, rows, undoneBy, old>>
  BY <1>0 DEF FlushRefused
<1>2. k + 1 \in Nat /\ queue[k] \in PendingFeedback
  BY <1>0, <1>1, FlushEntry
<1>3. /\ queue \in Queues /\ disk \in Queues
      /\ stray' \subseteq [kind : {"post", "undo"}, user : User, key : Key]
      /\ asked \in [Key -> {"nothing", "keep", "undo", "refused"}]
  BY <1>1 DEF Inv, Types, TypeOK
<1>4. /\ asked' \in [Key -> {"nothing", "keep", "undo", "refused"}]
      /\ \A j \in Key \ {k} : asked'[j] = asked[j]
      /\ asked'[k] = "refused" \/ (Posting /\ asked'[k] = "undo" /\ asked[k] = "undo")
  BY <1>1, <1>3
<1>5. /\ e \in PendingFeedback
      /\ e.ownerUserId = queue[k].ownerUserId
      /\ e.submissionAttempted = queue[k].submissionAttempted
      /\ e.feedbackId = queue[k].feedbackId
      /\ e.cancelled = (queue[k].cancelled \/ Posting)
  <2>1. Posting \in BOOLEAN
    BY DEF Posting
  <2>. QED
    BY <1>2, <2>1, RefusedFact
<1> HIDE DEF e
<1>6. Posting => InDoubt(queue[k])
  BY <1>0, <1>1 DEF Inv, Waiting
<1>7. \A j \in Key :
        /\ Recorded(j)' <=> Recorded(j)
        /\ StrayPost(j)' <=> StrayPost(j)
        /\ MayBeActive(j)' <=> MayBeActive(j)
        /\ \A w : TracesOf(w, j) => TracesOf(w, j)'
  BY <1>1 DEF Recorded, StrayPost, MayBeActive, Active, TracesOf
<1>8. \A j \in Key : KeyInv(j)
  BY DEF Inv
<1>9. EntryOk(e, asked'[k], k \in old, Recorded(k)', StrayPost(k)', MayBeActive(k)')
  <2>1. /\ Ok(queue[k], k) /\ queue[k] # NoEntry /\ e # NoEntry
    BY <1>2, <1>5, <1>8, EntryFact DEF KeyInv
  <2>. QED
    BY <1>4, <1>5, <1>6, <1>7, <2>1 DEF Ok, EntryOk, ReplayedEntry, InDoubt
<1>10. ASSUME NEW j \in Key
       PROVE  /\ j # k => EntryOk(queue[j], asked'[j], j \in old,
                                  Recorded(j)', StrayPost(j)', MayBeActive(j)')
              /\ EntryOk(disk[j], asked'[j], j \in old,
                         Recorded(j)', StrayPost(j)', MayBeActive(j)')
              /\ Asked(j)'
  <2>1. Ok(queue[j], j) /\ Ok(disk[j], j) /\ Asked(j)
    BY <1>8 DEF KeyInv
  <2>2. Asked(j)'
    BY <1>1, <1>4, <2>1 DEF Asked
  <2>3. EntryOk(disk[j], asked'[j], j \in old, Recorded(j)', StrayPost(j)', MayBeActive(j)')
    BY <1>4, <1>7, <2>1 DEF Ok, EntryOk
  <2>4. j # k => EntryOk(queue[j], asked'[j], j \in old,
                         Recorded(j)', StrayPost(j)', MayBeActive(j)')
    BY <1>4, <1>7, <2>1 DEF Ok, EntryOk
  <2>. QED
    BY <2>2, <2>3, <2>4
<1>11. [queue EXCEPT ![k] = e] \in Queues
  BY <1>3, <1>5, UpdateFact
<1>12. Reaches(session, [queue EXCEPT ![k] = e], disk)
  BY <1>1, <1>2, <1>3, <1>11, ProceedEffect
<1>. QED
  BY <1>1, <1>2, <1>3, <1>4, <1>5, <1>7, <1>9, <1>10, <1>12, ReplaceInv, EntryFact DEF Present

LEMMA RestartInv ==
  ASSUME Inv, Restart
  PROVE  Inv'
<1> DEFINE R == FlushRequest \cup UNION {CallRequest(k) : k \in Key}
<1>1. /\ GiveUp(R)
      /\ call' = [k \in Key |-> NoCall]
      /\ Proceed(session, disk, disk, 1)
      /\ UNCHANGED <<session, rows, undoneBy, old, asked>>
  BY DEF Restart
<1>2. queue \in Queues /\ disk \in Queues /\ session \in User \cup {Nobody}
  BY DEF Inv, Types, TypeOK
<1>3. R \subseteq Request
  BY DEF Request
<1>4. \A k \in Key : call'[k] = call[k] \/ call'[k] = NoCall
  BY <1>1
<1> HIDE DEF R
<1>5. ASSUME NEW j \in Key
      PROVE  /\ stray' \subseteq [kind : {"post", "undo"}, user : User, key : Key]
             /\ EntryOk(disk[j], asked'[j], j \in old,
                        Recorded(j)', StrayPost(j)', MayBeActive(j)')
             /\ Asked(j)'
             /\ \E w \in User \cup {Nobody} : OwnerIs(w, disk[j]) /\ TracesOf(w, j)'
  BY <1>1, <1>3, <1>4, GiveUpWorld DEF Inv, KeyInv
<1>6. Reaches(session, disk, disk)
  BY <1>1, <1>2, ProceedEffect
<1>7. /\ queue' \in Queues /\ disk' \in Queues
      /\ flush' \in [at : Key \cup {0}, step : Steps, as : User \cup {Nobody}]
      /\ flush'.step # "idle" =>
           flush'.at \in Key /\ Present(queue', flush'.at) /\ flush'.as \in User
      /\ Waiting'
      /\ \A j \in Key : KeyInv(j)'
  BY <1>1, <1>2, <1>5, <1>6, ReachedInv
<1>8. stray' \subseteq [kind : {"post", "undo"}, user : User, key : Key]
  BY <1>1, <1>3, <1>4, RequestFact DEF GiveUp, Inv, Types, TypeOK
<1>9. Types'
  BY <1>1, <1>7, <1>8 DEF Inv, Types, TypeOK, Present, NoCall, Steps
<1>. QED
  BY <1>7, <1>9 DEF Inv

\* A new entry is right before and after its first post.
LEMMA SubmitInv ==
  ASSUME Inv, NEW k \in Key, Submit(k)
  PROVE  Inv'
<1> DEFINE e == NewEntry(session)
           q == [queue EXCEPT ![k] = e]
<1>1. /\ session \in User /\ session' = session
      /\ asked[k] = "nothing"
      /\ asked' = [asked EXCEPT ![k] = "keep"]
      /\ Flush(session, q, q)
      /\ UNCHANGED <<call, stray, rows, undoneBy, old>>
  BY DEF Submit, Inv, Types, TypeOK
<1>2. /\ e \in PendingFeedback /\ e # NoEntry
      /\ e.ownerUserId = session /\ e.feedbackId = NoFeedback
      /\ ~e.cancelled /\ ~e.undone
  <2>1. e \in PendingFeedback
    BY <1>1 DEF NewEntry, PendingFeedback, SyncError
  <2>. QED
    BY <2>1, EntryFact DEF NewEntry
<1> HIDE DEF e
<1>3. /\ queue \in Queues /\ disk \in Queues
      /\ stray' \subseteq [kind : {"post", "undo"}, user : User, key : Key]
      /\ asked \in [Key -> {"nothing", "keep", "undo", "refused"}]
  BY <1>1 DEF Inv, Types, TypeOK
<1>4. /\ asked' \in [Key -> {"nothing", "keep", "undo", "refused"}]
      /\ asked'[k] = "keep" /\ \A j \in Key \ {k} : asked'[j] = asked[j]
  BY <1>1, <1>3
<1>5. q \in Queues /\ q[k] = e /\ \A j \in Key \ {k} : q[j] = queue[j]
  BY <1>2, <1>3, UpdateFact DEF Queues
<1> HIDE DEF q
<1>6. \A j \in Key : KeyInv(j)
  BY DEF Inv
<1>7. /\ ~Recorded(k) /\ ~StrayPost(k) /\ ~MayBeActive(k)
      /\ TracesOf(session, k) /\ queue[k] = NoEntry /\ call[k].step = "none"
      /\ \A m \in stray : m.key # k
      /\ \A r \in undoneBy : r.key # k
  BY <1>1, <1>6 DEF KeyInv, Asked, Ok, EntryOk, Recorded, StrayPost, MayBeActive, Active,
                    TracesOf, Inv, Types, TypeOK
<1>8. \A j \in Key :
        /\ Recorded(j)' <=> Recorded(j)
        /\ StrayPost(j)' <=> StrayPost(j)
        /\ MayBeActive(j)' <=> MayBeActive(j)
        /\ \A w : TracesOf(w, j) <=> TracesOf(w, j)'
  BY <1>1 DEF Recorded, StrayPost, MayBeActive, Active, TracesOf
<1>9. ASSUME NEW j \in Key
      PROVE  /\ EntryOk(q[j], asked'[j], j \in old, Recorded(j)', StrayPost(j)', MayBeActive(j)')
             /\ Asked(j)'
             /\ \E w \in User \cup {Nobody} : OwnerIs(w, q[j]) /\ TracesOf(w, j)'
  <2>1. CASE j = k
    <3>2. EntryOk(q[j], asked'[j], j \in old, Recorded(j)', StrayPost(j)', MayBeActive(j)')
      BY <1>2, <1>4, <1>5, <1>7, <1>8, <2>1 DEF EntryOk
    <3>3. Asked(j)'
      BY <1>1, <1>4, <1>7, <2>1 DEF Asked
    <3>. QED
      BY <1>1, <1>2, <1>5, <1>7, <1>8, <2>1, <3>2, <3>3 DEF OwnerIs
  <2>2. CASE j # k
    <3>1. Ok(queue[j], j) /\ Asked(j) /\ \E w \in User \cup {Nobody} : OwnerIs(w, queue[j]) /\ TracesOf(w, j)
      BY <1>6 DEF KeyInv
    <3>2. EntryOk(q[j], asked'[j], j \in old, Recorded(j)', StrayPost(j)', MayBeActive(j)')
      BY <1>4, <1>5, <1>8, <2>2, <3>1 DEF Ok, EntryOk
    <3>3. Asked(j)'
      BY <1>1, <1>4, <2>2, <3>1 DEF Asked
    <3>. QED
      BY <1>5, <1>8, <2>2, <3>1, <3>2, <3>3
  <2>. QED
    BY <2>1, <2>2
<1>10. CASE flush.step = "idle" /\ Proceed(session, q, q, 1)
  <2>1. Reaches(session, q, q)
    BY <1>5, <1>10, ProceedEffect
  <2>2. /\ queue' \in Queues /\ disk' \in Queues
        /\ flush' \in [at : Key \cup {0}, step : Steps, as : User \cup {Nobody}]
        /\ flush'.step # "idle" =>
             flush'.at \in Key /\ Present(queue', flush'.at) /\ flush'.as \in User
        /\ Waiting'
        /\ \A j \in Key : KeyInv(j)'
    BY <1>1, <1>5, <1>9, <2>1, ReachedInv
  <2>3. Types'
    BY <1>1, <1>4, <2>2 DEF Inv, Types, TypeOK, Present
  <2>. QED
    BY <2>2, <2>3 DEF Inv
<1>11. CASE flush.step # "idle" /\ queue' = q /\ disk' = q /\ flush' = flush
  <2>1. flush.at \in Key /\ flush.at # k
    BY <1>7, <1>11, FlushEntry, EntryFact
  <2>2. Types'
    BY <1>1, <1>4, <1>5, <1>11, <2>1 DEF Inv, Types, TypeOK, Present
  <2>4. Waiting'
    BY <1>1, <1>4, <1>5, <1>11, <2>1 DEF Inv, Waiting, Posting
  <2>5. \A j \in Key : KeyInv(j)'
    BY <1>1, <1>9, <1>11 DEF KeyInv, Ok
  <2>. QED
    BY <2>2, <2>4, <2>5 DEF Inv
<1>. QED
  BY <1>1, <1>10, <1>11, FlushEffect

-----------------------------------------------------------------------------
(* The actions that concern one entry, and leave the others alone. *)

\* Nothing is new for the entries other than k.
LEMMA OthersInv ==
  ASSUME Inv, NEW k \in Key, NEW j \in Key \ {k},
         queue'[j] = queue[j], disk'[j] = disk[j] \/ disk'[j] = queue[j],
         call'[j] = call[j], asked'[j] = asked[j], j \in old' <=> j \in old,
         \A m : m \in stray' /\ m.key = j <=> m \in stray /\ m.key = j,
         \A r : r \in rows' /\ r.key = j <=> r \in rows /\ r.key = j,
         \A r : r \in undoneBy' /\ r.key = j => r \in undoneBy,
         \A r : r \in undoneBy => r \in undoneBy'
  PROVE  KeyInv(j)'
<1>1. KeyInv(j)
  BY DEF Inv
<1>2. /\ Recorded(j)' <=> Recorded(j)
      /\ StrayPost(j)' <=> StrayPost(j)
      /\ Active(j)' <=> Active(j)
      /\ \A w : TracesOf(w, j)' <=> TracesOf(w, j)
  BY DEF Recorded, StrayPost, Active, TracesOf
<1>3. MayBeActive(j)' <=> MayBeActive(j)
  BY <1>2 DEF MayBeActive
<1>4. ASSUME NEW e, Ok(e, j)
      PROVE  EntryOk(e, asked'[j], j \in old', Recorded(j)', StrayPost(j)', MayBeActive(j)')
  BY <1>2, <1>3, <1>4 DEF Ok, EntryOk
<1>5. Ok(queue[j], j)' /\ Ok(disk[j], j)'
  BY <1>1, <1>4 DEF KeyInv, Ok
<1>6. Asked(j)'
  BY <1>1 DEF KeyInv, Asked
<1>. QED
  BY <1>1, <1>2, <1>5, <1>6 DEF KeyInv

LEMMA GrowOldInv ==
  ASSUME Inv, NEW k \in Key, GrowOld(k)
  PROVE  Inv'
<1>1. /\ old' = old \cup {k}
      /\ UNCHANGED <<session, queue, disk, flush, call, stray, rows, undoneBy, asked>>
  BY DEF GrowOld
<1>2. Types' /\ Waiting'
  BY <1>1 DEF Inv, Types, TypeOK, Present, Waiting, Posting
<1>3. \A j \in Key \ {k} : KeyInv(j)'
  BY <1>1, OthersInv
<1>4. KeyInv(k)'
  <2>1. KeyInv(k)
    BY DEF Inv
  <2>2. /\ Recorded(k)' <=> Recorded(k)
        /\ StrayPost(k)' <=> StrayPost(k)
        /\ MayBeActive(k)' <=> MayBeActive(k)
        /\ Asked(k)' <=> Asked(k)
        /\ \A w : TracesOf(w, k)' <=> TracesOf(w, k)
    BY <1>1 DEF Recorded, StrayPost, MayBeActive, Active, Asked, TracesOf
  <2>. QED
    BY <1>1, <2>1, <2>2 DEF KeyInv, Ok, EntryOk
<1>. QED
  BY <1>2, <1>3, <1>4 DEF Inv

LEMMA CancelledFact ==
  ASSUME NEW e \in PendingFeedback
  PROVE  LET f == [e EXCEPT !.cancelled = TRUE]
         IN  /\ f \in PendingFeedback /\ f.cancelled /\ f.undone = e.undone
             /\ f.ownerUserId = e.ownerUserId /\ f.feedbackId = e.feedbackId
             /\ f.submissionAttempted = e.submissionAttempted
  BY DEF PendingFeedback

\* An entry of which nothing is known to the server is undone by not posting it; any
\* other has been attempted and is posted again, to be undone.
LEMMA CancelUnpostedInv ==
  ASSUME Inv, NEW k \in Key, CancelUnposted(k)
  PROVE  Inv'
<1> DEFINE e == [queue[k] EXCEPT !.cancelled = TRUE]
<1>1. /\ Present(queue, k) /\ queue[k].feedbackId = NoFeedback
      /\ queue' = [queue EXCEPT ![k] = e] /\ disk' = queue'
      /\ asked' = [asked EXCEPT ![k] = "undo"]
      /\ UNCHANGED <<session, flush, call, stray, rows, undoneBy, old>>
  BY DEF CancelUnposted, Unposted
<1>2. /\ queue \in Queues
      /\ asked \in [Key -> {"nothing", "keep", "undo", "refused"}]
      /\ KeyInv(k)
  BY DEF Inv, Types, TypeOK
<1>3. queue[k] \in PendingFeedback
  BY <1>1, <1>2, PresentFact
<1>4. /\ e \in PendingFeedback /\ e # NoEntry /\ e.cancelled
      /\ e.ownerUserId = queue[k].ownerUserId /\ e.feedbackId = queue[k].feedbackId
      /\ e.submissionAttempted = queue[k].submissionAttempted
  BY <1>3, CancelledFact, EntryFact
<1> HIDE DEF e
<1>5. /\ queue' \in Queues /\ queue'[k] = e /\ disk'[k] = e
      /\ asked' \in [Key -> {"nothing", "keep", "undo", "refused"}] /\ asked'[k] = "undo"
      /\ \A j \in Key \ {k} :
           queue'[j] = queue[j] /\ disk'[j] = queue[j] /\ asked'[j] = asked[j]
      /\ \A j \in Key : Present(queue, j) => Present(queue', j)
  BY <1>1, <1>2, <1>4, UpdateFact DEF Queues
<1>6. Types'
  BY <1>1, <1>5 DEF Inv, Types, TypeOK
<1>7. Waiting'
  <2>1. CASE flush.at = k
    BY <1>1, <1>4, <1>5, <2>1 DEF Inv, Waiting, Posting, InDoubt
  <2>2. CASE flush.at # k /\ flush.step # "idle"
    BY <1>1, <1>5, <2>2, FlushEntry DEF Inv, Waiting, Posting
  <2>3. CASE flush.step = "idle"
    BY <1>1, <2>3 DEF Waiting
  <2>. QED
    BY <2>1, <2>2, <2>3
<1>8. \A j \in Key \ {k} : KeyInv(j)'
  BY <1>1, <1>5, OthersInv
<1>9. KeyInv(k)'
  <2>1. /\ Recorded(k)' <=> Recorded(k)
        /\ StrayPost(k)' <=> StrayPost(k)
        /\ MayBeActive(k)' <=> MayBeActive(k)
        /\ \A w : TracesOf(w, k)' <=> TracesOf(w, k)
    BY <1>1 DEF Recorded, StrayPost, MayBeActive, Active, TracesOf
  <2>2. MayBeActive(k) => Recorded(k) \/ StrayPost(k)
    BY DEF MayBeActive, Active, Recorded
  <2>3. Ok(queue[k], k)' /\ Ok(disk[k], k)'
    BY <1>1, <1>2, <1>3, <1>4, <1>5, <2>1, <2>2, EntryFact
    DEF KeyInv, Ok, EntryOk, ReplayedEntry
  <2>4. Asked(k)'
    BY <1>1, <1>2, <1>5 DEF KeyInv, Asked
  <2>5. PICK w \in User \cup {Nobody} : OwnerIs(w, queue[k]) /\ TracesOf(w, k)
    BY <1>2 DEF KeyInv
  <2>6. OwnerIs(w, queue'[k]) /\ OwnerIs(w, disk'[k])
    BY <1>3, <1>4, <1>5, <2>5, EntryFact DEF OwnerIs
  <2>. QED
    BY <2>1, <2>3, <2>4, <2>5, <2>6 DEF KeyInv
<1>. QED
  BY <1>6, <1>7, <1>8, <1>9 DEF Inv

LEMMA UndoneFact ==
  ASSUME NEW e \in PendingFeedback, NEW b \in BOOLEAN, NEW s \in SyncError
  PROVE  LET f == [e EXCEPT !.undone = b, !.syncError = s]
         IN  /\ f \in PendingFeedback /\ f.undone = b /\ f.syncError = s
             /\ f.cancelled = e.cancelled
             /\ f.ownerUserId = e.ownerUserId /\ f.feedbackId = e.feedbackId
             /\ f.submissionAttempted = e.submissionAttempted
  BY DEF PendingFeedback

\* An undo call, or its end, writes the entry e (or nothing) for k in memory and
\* storage; the server and the network have not moved, a request given up apart.
LEMMA WriteInv ==
  ASSUME Inv, NEW k \in Key, NEW e \in PendingFeedback \cup {NoEntry},
         e # NoEntry <=> Present(queue, k),
         e # NoEntry => /\ e.ownerUserId = queue[k].ownerUserId
                        /\ e.feedbackId = queue[k].feedbackId
                        /\ e.submissionAttempted = queue[k].submissionAttempted,
         queue' = [queue EXCEPT ![k] = e], disk' = queue',
         UNCHANGED <<session, flush, stray, rows, undoneBy, old>>,
         call' \in [Key -> [step : Steps, as : User \cup {Nobody}]],
         call'[k].step # "none" => call'[k].as \in User,
         \A j \in Key \ {k} : call'[j] = call[j],
         asked' \in [Key -> {"nothing", "keep", "undo", "refused"}],
         \A j \in Key \ {k} : asked'[j] = asked[j],
         EntryOk(e, asked'[k], k \in old, Recorded(k), StrayPost(k), MayBeActive(k)),
         Asked(k)',
         asked[k] = "keep" \/ asked'[k] # "keep", asked'[k] # "nothing" \/ asked[k] = "nothing",
         \A w : TracesOf(w, k) /\ OwnerIs(w, queue[k]) /\ call'[k].step # "none" => call'[k].as = w
  PROVE  Inv'
<1>1. queue \in Queues /\ KeyInv(k)
  BY DEF Inv, Types, TypeOK
<1>2. /\ queue' \in Queues /\ queue'[k] = e /\ disk'[k] = e
      /\ \A j \in Key \ {k} : queue'[j] = queue[j] /\ disk'[j] = queue[j]
      /\ \A j \in Key : Present(queue, j) => Present(queue', j)
  BY <1>1 DEF Queues, Present
<1>3. Types'
  BY <1>2 DEF Inv, Types, TypeOK
<1>4. Waiting'
  <2>1. CASE flush.step # "idle" /\ flush.at = k
    BY <1>2, <2>1 DEF Inv, Types, TypeOK, Present, Waiting, Posting, InDoubt
  <2>2. CASE flush.step # "idle" /\ flush.at # k
    BY <1>2, <2>2, FlushEntry DEF Inv, Waiting, Posting
  <2>3. CASE flush.step = "idle"
    BY <2>3 DEF Waiting
  <2>. QED
    BY <2>1, <2>2, <2>3
<1>5. \A j \in Key \ {k} : KeyInv(j)'
  BY <1>2, OthersInv
<1>6. KeyInv(k)'
  <2>1. /\ Recorded(k)' <=> Recorded(k)
        /\ StrayPost(k)' <=> StrayPost(k)
        /\ MayBeActive(k)' <=> MayBeActive(k)
    BY DEF Recorded, StrayPost, MayBeActive, Active
  <2>2. Ok(queue[k], k)' /\ Ok(disk[k], k)'
    BY <1>2, <2>1 DEF Ok, EntryOk
  <2>3. PICK w \in User \cup {Nobody} : OwnerIs(w, queue[k]) /\ TracesOf(w, k)
    BY <1>1 DEF KeyInv
  <2>4. OwnerIs(w, queue'[k]) /\ OwnerIs(w, disk'[k])
    BY <1>2, <2>3 DEF OwnerIs, Present
  <2>5. TracesOf(w, k)'
    BY <2>3 DEF TracesOf
  <2>. QED
    BY <2>2, <2>4, <2>5 DEF KeyInv
<1>. QED
  BY <1>3, <1>4, <1>5, <1>6 DEF Inv

LEMMA BeginUndoInv ==
  ASSUME Inv, NEW k \in Key, BeginUndo(k)
  PROVE  Inv'
<1> DEFINE e == [queue[k] EXCEPT !.undone = TRUE, !.syncError = "undo_pending"]
<1>1. /\ BelongsTo(session, queue, k) /\ queue[k].feedbackId # NoFeedback
      /\ queue' = [queue EXCEPT ![k] = e] /\ disk' = queue'
      /\ call' = [call EXCEPT ![k] = [step |-> "undo", as |-> session]]
      /\ asked' = [asked EXCEPT ![k] = "undo"]
      /\ UNCHANGED <<session, flush, stray, rows, undoneBy, old>>
  BY DEF BeginUndo, Undoable, Unposted, BelongsTo
<1>2. /\ queue \in Queues
      /\ asked \in [Key -> {"nothing", "keep", "undo", "refused"}]
      /\ call \in [Key -> [step : Steps, as : User \cup {Nobody}]]
      /\ session \in User
      /\ KeyInv(k)
  BY <1>1 DEF Inv, Types, TypeOK, BelongsTo
<1>3. queue[k] \in PendingFeedback /\ Present(queue, k) /\ queue[k] # NoEntry
  BY <1>1, <1>2, PresentFact DEF BelongsTo, Present
<1>4. /\ e \in PendingFeedback /\ e # NoEntry /\ e.undone /\ e.syncError = "undo_pending"
      /\ e.ownerUserId = queue[k].ownerUserId /\ e.feedbackId = queue[k].feedbackId
      /\ e.submissionAttempted = queue[k].submissionAttempted
  BY <1>3, UndoneFact, EntryFact DEF SyncError
<1> HIDE DEF e
<1>5. /\ call' \in [Key -> [step : Steps, as : User \cup {Nobody}]]
      /\ call'[k] = [step |-> "undo", as |-> session]
      /\ \A j \in Key \ {k} : call'[j] = call[j]
      /\ asked' \in [Key -> {"nothing", "keep", "undo", "refused"}] /\ asked'[k] = "undo"
      /\ \A j \in Key \ {k} : asked'[j] = asked[j]
  BY <1>1, <1>2 DEF Steps
<1>6. EntryOk(e, asked'[k], k \in old, Recorded(k), StrayPost(k), MayBeActive(k))
  BY <1>1, <1>2, <1>3, <1>4, <1>5 DEF KeyInv, Ok, EntryOk, ReplayedEntry
<1>7. Asked(k)'
  BY <1>1, <1>2, <1>5 DEF KeyInv, Asked
<1>8. \A w : OwnerIs(w, queue[k]) => call'[k].as = w
  BY <1>1, <1>3, <1>5 DEF OwnerIs, BelongsTo
<1>. QED
  BY <1>1, <1>2, <1>3, <1>4, <1>5, <1>6, <1>7, <1>8, WriteInv

\* The entry after a call has ended: what Set writes.
LEMMA SetFact ==
  ASSUME NEW q \in Queues, NEW k \in Key, NEW e,
         Present(q, k) => e \in PendingFeedback
  PROVE  LET f == IF Present(q, k) THEN e ELSE NoEntry
         IN  /\ Set(q, k, e) = [q EXCEPT ![k] = f]
             /\ f \in PendingFeedback \cup {NoEntry}
             /\ f # NoEntry <=> Present(q, k)
  BY EntryFact DEF Set, Present, Queues

LEMMA CallAckedInv ==
  ASSUME Inv, NEW k \in Key, CallAcked(k)
  PROVE  Inv'
<1> DEFINE e == [queue[k] EXCEPT !.syncError = "none"]
           f == IF Present(queue, k) THEN e ELSE NoEntry
<1>1. /\ call[k].step = "undone"
      /\ queue' = Set(queue, k, e) /\ disk' = queue'
      /\ call' = [call EXCEPT ![k] = NoCall]
      /\ UNCHANGED <<session, flush, stray, rows, undoneBy, old, asked>>
  BY DEF CallAcked
<1>2. /\ queue \in Queues
      /\ asked \in [Key -> {"nothing", "keep", "undo", "refused"}]
      /\ call \in [Key -> [step : Steps, as : User \cup {Nobody}]]
      /\ KeyInv(k)
  BY DEF Inv, Types, TypeOK
<1>3. Present(queue, k) => queue[k] \in PendingFeedback
  BY <1>2, PresentFact
<1>4. Present(queue, k) =>
        /\ e \in PendingFeedback
        /\ e.ownerUserId = queue[k].ownerUserId /\ e.feedbackId = queue[k].feedbackId
        /\ e.submissionAttempted = queue[k].submissionAttempted
  BY <1>3, SyncFact DEF SyncError
<1>5. ~MayBeActive(k)
  BY <1>1, <1>2, UndoneIsInactive DEF KeyInv, Asked
<1>6. EntryOk(f, asked[k], k \in old, Recorded(k), StrayPost(k), MayBeActive(k))
  <2>1. CASE Present(queue, k)
    BY <1>2, <1>3, <1>5, <2>1, SyncOk DEF KeyInv, Ok, SyncError
  <2>2. CASE ~Present(queue, k)
    BY <1>2, <2>2 DEF KeyInv, Ok, Present
  <2>. QED
    BY <2>1, <2>2
<1> HIDE DEF e
<1>7. /\ queue' = [queue EXCEPT ![k] = f]
      /\ f \in PendingFeedback \cup {NoEntry}
      /\ f # NoEntry <=> Present(queue, k)
  BY <1>1, <1>2, <1>4, SetFact
<1>8. f # NoEntry => /\ f.ownerUserId = queue[k].ownerUserId
                     /\ f.feedbackId = queue[k].feedbackId
                     /\ f.submissionAttempted = queue[k].submissionAttempted
  BY <1>4
<1> HIDE DEF f
<1>9. /\ call' \in [Key -> [step : Steps, as : User \cup {Nobody}]]
      /\ call'[k].step = "none"
      /\ \A j \in Key \ {k} : call'[j] = call[j]
  BY <1>1, <1>2 DEF NoCall, Steps
<1>10. Asked(k)'
  BY <1>1, <1>2, <1>9 DEF KeyInv, Asked
<1>. QED
  BY <1>1, <1>2, <1>6, <1>7, <1>8, <1>9, <1>10, WriteInv

LEMMA CallRefusedInv ==
  ASSUME Inv, NEW k \in Key, CallRefused(k)
  PROVE  Inv'
<1> DEFINE e == [queue[k] EXCEPT !.undone = FALSE, !.syncError = "refused"]
           f == IF Present(queue, k) THEN e ELSE NoEntry
<1>1. /\ call[k].step # "none"
      /\ queue' = Set(queue, k, e) /\ disk' = queue'
      /\ call' = [call EXCEPT ![k] = NoCall]
      /\ asked' = [asked EXCEPT ![k] = "refused"]
      /\ UNCHANGED <<session, flush, stray, rows, undoneBy, old>>
  BY DEF CallRefused
<1>2. /\ queue \in Queues
      /\ asked \in [Key -> {"nothing", "keep", "undo", "refused"}]
      /\ call \in [Key -> [step : Steps, as : User \cup {Nobody}]]
      /\ KeyInv(k)
  BY DEF Inv, Types, TypeOK
<1>3. Present(queue, k) => queue[k] \in PendingFeedback
  BY <1>2, PresentFact
<1>4. Present(queue, k) =>
        /\ e \in PendingFeedback
        /\ e.ownerUserId = queue[k].ownerUserId /\ e.feedbackId = queue[k].feedbackId
        /\ e.submissionAttempted = queue[k].submissionAttempted
  BY <1>3, UndoneFact DEF SyncError
<1> HIDE DEF e
<1>5. /\ queue' = [queue EXCEPT ![k] = f]
      /\ f \in PendingFeedback \cup {NoEntry}
      /\ f # NoEntry <=> Present(queue, k)
  BY <1>1, <1>2, <1>4, SetFact
<1>6. f # NoEntry => /\ f.ownerUserId = queue[k].ownerUserId
                     /\ f.feedbackId = queue[k].feedbackId
                     /\ f.submissionAttempted = queue[k].submissionAttempted
  BY <1>4
<1> HIDE DEF f
<1>7. /\ call' \in [Key -> [step : Steps, as : User \cup {Nobody}]]
      /\ call'[k].step = "none"
      /\ \A j \in Key \ {k} : call'[j] = call[j]
      /\ asked' \in [Key -> {"nothing", "keep", "undo", "refused"}] /\ asked'[k] = "refused"
      /\ \A j \in Key \ {k} : asked'[j] = asked[j]
  BY <1>1, <1>2 DEF NoCall, Steps
<1>8. EntryOk(f, asked'[k], k \in old, Recorded(k), StrayPost(k), MayBeActive(k))
  BY <1>2, <1>5, <1>6, <1>7 DEF KeyInv, Ok, EntryOk, Present
<1>9. Asked(k)'
  BY <1>1, <1>2, <1>7 DEF KeyInv, Asked
<1>. QED
  BY <1>1, <1>2, <1>5, <1>6, <1>7, <1>8, <1>9, WriteInv

LEMMA CallUnavailableInv ==
  ASSUME Inv, NEW k \in Key, CallUnavailable(k)
  PROVE  Inv'
<1>1. /\ disk' = queue /\ GiveUp(CallRequest(k))
      /\ call' = [call EXCEPT ![k] = NoCall]
      /\ UNCHANGED <<session, queue, flush, rows, undoneBy, old, asked>>
  BY DEF CallUnavailable
<1>2. CallRequest(k) \subseteq Request
  BY DEF Request
<1>3. /\ call' \in [Key -> [step : Steps, as : User \cup {Nobody}]]
      /\ \A j \in Key : call'[j] = call[j] \/ call'[j] = NoCall
  BY <1>1 DEF Inv, Types, TypeOK, NoCall, Steps
<1>4. \A j \in Key :
        /\ stray' \subseteq [kind : {"post", "undo"}, user : User, key : Key]
        /\ EntryOk(queue[j], asked[j], j \in old,
                   Recorded(j)', StrayPost(j)', MayBeActive(j)')
        /\ Asked(j)'
        /\ \A w : OwnerIs(w, queue[j]) /\ TracesOf(w, j) => TracesOf(w, j)'
  BY <1>1, <1>2, <1>3, GiveUpWorld
<1>5. Types'
  BY <1>1, <1>3, <1>4 DEF Inv, Types, TypeOK, Present, NoCall
<1>6. Waiting'
  BY <1>1 DEF Inv, Waiting, Posting
<1>7. \A j \in Key : \E w \in User \cup {Nobody} : OwnerIs(w, queue[j]) /\ TracesOf(w, j)
  BY DEF Inv, KeyInv
<1>8. \A j \in Key : KeyInv(j)'
  BY <1>1, <1>4, <1>7 DEF KeyInv, Ok
<1>. QED
  BY <1>5, <1>6, <1>8 DEF Inv

\* A request is sent by the account that asked for it.
LEMMA FlushSendsInv ==
  ASSUME Inv, FlushSends
  PROVE  Inv'
<1>1. /\ flush.step \in {"post", "undo"}
      /\ session = flush.as
      /\ flush' = [flush EXCEPT !.step = IF @ = "post" THEN "posting" ELSE "undoing",
                                !.as = session]
      /\ UNCHANGED <<session, queue, disk, call, stray, rows, undoneBy, old, asked>>
  BY DEF FlushSends, SamePrincipal
<1>2. /\ flush \in [at : Key \cup {0}, step : Steps, as : User \cup {Nobody}]
      /\ flush.as \in User
  BY <1>1 DEF Inv, Types, TypeOK
<1>3. /\ flush'.at = flush.at /\ flush'.as = flush.as
      /\ flush'.step = IF flush.step = "post" THEN "posting" ELSE "undoing"
      /\ flush' \in [at : Key \cup {0}, step : Steps, as : User \cup {Nobody}]
  BY <1>1, <1>2 DEF Steps
<1>4. Types'
  BY <1>1, <1>2, <1>3 DEF Inv, Types, TypeOK, Present
<1>5. Waiting'
  BY <1>1, <1>3 DEF Inv, Waiting, Posting
<1>6. ASSUME NEW k \in Key PROVE KeyInv(k)'
  <2>1. KeyInv(k)
    BY DEF Inv
  <2>. QED
    BY <1>1, <2>1, SameWorld DEF KeyInv, Ok, EntryOk
<1>. QED
  BY <1>4, <1>5, <1>6 DEF Inv

LEMMA CallSendsInv ==
  ASSUME Inv, NEW k \in Key, CallSends(k)
  PROVE  Inv'
<1>1. /\ call[k].step = "undo" /\ session = call[k].as
      /\ call' = [call EXCEPT ![k] = [step |-> "undoing", as |-> session]]
      /\ UNCHANGED <<session, queue, disk, flush, stray, rows, undoneBy, old, asked>>
  BY DEF CallSends, SamePrincipal
<1>2. /\ call \in [Key -> [step : Steps, as : User \cup {Nobody}]]
      /\ call[k].as \in User
  BY <1>1 DEF Inv, Types, TypeOK
<1>3. /\ call' \in [Key -> [step : Steps, as : User \cup {Nobody}]]
      /\ call'[k].step = "undoing" /\ call'[k].as = call[k].as
      /\ \A j \in Key \ {k} : call'[j] = call[j]
  BY <1>1, <1>2 DEF Steps
<1>4. Types'
  BY <1>1, <1>2, <1>3 DEF Inv, Types, TypeOK, Present
<1>5. Waiting'
  BY <1>1 DEF Inv, Waiting, Posting
<1>6. \A j \in Key \ {k} : KeyInv(j)'
  BY <1>1, <1>3, OthersInv
<1>7. KeyInv(k)'
  <2>1. KeyInv(k)
    BY DEF Inv
  <2>2. /\ Recorded(k)' <=> Recorded(k)
        /\ StrayPost(k)' <=> StrayPost(k)
        /\ MayBeActive(k)' <=> MayBeActive(k)
    BY <1>1 DEF Recorded, StrayPost, MayBeActive, Active
  <2>3. Ok(queue[k], k)' /\ Ok(disk[k], k)'
    BY <1>1, <2>1, <2>2 DEF KeyInv, Ok, EntryOk
  <2>4. Asked(k)' /\ \A w : TracesOf(w, k) => TracesOf(w, k)'
    BY <1>1, <1>3, <2>1 DEF KeyInv, Asked, TracesOf
  <2>. QED
    BY <1>1, <2>1, <2>3, <2>4 DEF KeyInv
<1>. QED
  BY <1>4, <1>5, <1>6, <1>7 DEF Inv

-----------------------------------------------------------------------------
(* The server's transactions. *)

\* A post that is served was in doubt, or may have been served at any time before:
\* either way its entry, if undone, is replayed; a repetition adds no row.
LEMMA CreateWorld ==
  ASSUME Inv, NEW u \in User, NEW k \in Key, CreateFeedback(u, k),
         UNCHANGED <<session, queue, disk, call, old, asked>>,
         stray' \subseteq stray, \A m \in stray \ stray' : m.key = k,
         StrayPost(k) \/ (InDoubt(queue[k]) /\ InDoubt(disk[k])),
         asked[k] # "nothing",
         \A w : OwnerIs(w, queue[k]) /\ TracesOf(w, k) => u = w
  PROVE  \A j \in Key : KeyInv(j)'
<1>1. rows' = rows \cup {[user |-> u, key |-> k]} /\ undoneBy' = undoneBy
  BY DEF CreateFeedback
<1>2. \A j \in Key \ {k} : KeyInv(j)'
  BY <1>1, OthersInv
<1>3. KeyInv(k)
  BY DEF Inv
<1>4. PICK w \in User \cup {Nobody} : OwnerIs(w, queue[k]) /\ OwnerIs(w, disk[k]) /\ TracesOf(w, k)
  BY <1>3 DEF KeyInv
<1>5. u = w
  BY <1>4
<1>6. Recorded(k)' /\ (MayBeActive(k)' <=> Active(k)')
  <2>1. [user |-> u, key |-> k] \in rows' /\ [user |-> u, key |-> k].key = k
    BY <1>1
  <2>2. Recorded(k)'
    BY <2>1 DEF Recorded
  <2>. QED
    BY <2>2 DEF MayBeActive
<1>7. Recorded(k) => rows' = rows
  <2>1. \A r \in rows : r.key = k => r = [user |-> w, key |-> k]
    BY <1>4, RowFact DEF TracesOf, Inv, Types, TypeOK
  <2>. QED
    BY <1>1, <1>5, <2>1 DEF Recorded
<1>8. Recorded(k) => (MayBeActive(k)' <=> MayBeActive(k))
  BY <1>1, <1>6, <1>7 DEF MayBeActive, Active
<1>9. ~Recorded(k) /\ StrayPost(k) => MayBeActive(k)
  BY DEF MayBeActive
<1>10. ASSUME NEW e, Ok(e, k), StrayPost(k) \/ InDoubt(e)
       PROVE  EntryOk(e, asked[k], k \in old, Recorded(k)', StrayPost(k)', MayBeActive(k)')
  <2>1. e # NoEntry => e.submissionAttempted
    BY <1>10 DEF Ok, EntryOk, InDoubt
  <2>2. asked[k] = "undo" /\ k \notin old /\ MayBeActive(k)' => ReplayedEntry(e)
    BY <1>8, <1>9, <1>10 DEF Ok, EntryOk, InDoubt, ReplayedEntry
  <2>. QED
    BY <1>6, <1>10, <2>1, <2>2 DEF Ok, EntryOk
<1>11. Ok(queue[k], k)' /\ Ok(disk[k], k)'
  BY <1>3, <1>10 DEF KeyInv, Ok
<1>12. Asked(k)' /\ TracesOf(w, k)'
  BY <1>1, <1>3, <1>4, <1>5 DEF KeyInv, Asked, TracesOf
<1>13. KeyInv(k)'
  BY <1>4, <1>11, <1>12 DEF KeyInv
<1>. QED
  BY <1>2, <1>13

\* An undo makes feedback inactive.
LEMMA UndoWorld ==
  ASSUME Inv, NEW u \in User, NEW k \in Key, UndoFeedback(u, k),
         UNCHANGED <<session, queue, disk, old, asked>>,
         stray' \subseteq stray, \A m \in stray \ stray' : m.key = k,
         asked[k] # "keep",
         \A j \in Key \ {k} : call'[j] = call[j],
         call'[k] = call[k] \/ (call'[k].as = call[k].as /\ call[k].step = "undoing"
                                /\ u = call[k].as)
  PROVE  \A j \in Key : KeyInv(j)'
<1>1. /\ undoneBy' = undoneBy \cup {[user |-> u, key |-> k]} /\ rows' = rows
      /\ [user |-> u, key |-> k] \in rows
  BY DEF UndoFeedback
<1>2. \A j \in Key \ {k} : KeyInv(j)'
  BY <1>1, OthersInv
<1>3. KeyInv(k)
  BY DEF Inv
<1>4. /\ Recorded(k)' <=> Recorded(k)
      /\ StrayPost(k)' => StrayPost(k)
      /\ MayBeActive(k)' => MayBeActive(k)
  BY <1>1 DEF Recorded, StrayPost, MayBeActive, Active
<1>5. Ok(queue[k], k)' /\ Ok(disk[k], k)'
  BY <1>3, <1>4 DEF KeyInv, Ok, EntryOk
<1>6. Asked(k)'
  BY <1>1, <1>3 DEF KeyInv, Asked
<1>7. \A w : TracesOf(w, k) => TracesOf(w, k)'
  BY <1>1 DEF TracesOf
<1>8. KeyInv(k)'
  BY <1>3, <1>5, <1>6, <1>7 DEF KeyInv
<1>. QED
  BY <1>2, <1>8

LEMMA ServedTypes ==
  ASSUME Inv, NEW u \in User, NEW k \in Key,
         CreateFeedback(u, k) \/ UndoFeedback(u, k)
  PROVE  rows' \subseteq Feedback /\ undoneBy' \subseteq rows'
  BY DEF CreateFeedback, UndoFeedback, Feedback, Inv, Types, TypeOK

LEMMA ServeFlushInv ==
  ASSUME Inv, ServeFlush
  PROVE  Inv'
<1>1. /\ \/ flush.step = "posting" /\ CreateFeedback(flush.as, flush.at)
         \/ flush.step = "undoing" /\ UndoFeedback(flush.as, flush.at)
      /\ flush' = [flush EXCEPT !.step = IF @ = "posting" THEN "posted" ELSE "undone"]
      /\ UNCHANGED <<session, queue, disk, call, stray, old, asked>>
  BY DEF ServeFlush
<1>2. /\ flush \in [at : Key \cup {0}, step : Steps, as : User \cup {Nobody}]
      /\ flush.at \in Key /\ flush.as \in User /\ queue[flush.at].ownerUserId = flush.as
      /\ queue[flush.at] # NoEntry /\ Asked(flush.at) /\ Ok(queue[flush.at], flush.at)
  BY <1>1, FlushEntry, EntryFact DEF Inv, Types, TypeOK, Waiting, KeyInv
<1>3. /\ flush'.at = flush.at /\ flush'.as = flush.as
      /\ flush'.step = IF flush.step = "posting" THEN "posted" ELSE "undone"
      /\ flush' \in [at : Key \cup {0}, step : Steps, as : User \cup {Nobody}]
  BY <1>1, <1>2 DEF Steps
<1>4. rows' \subseteq Feedback /\ undoneBy' \subseteq rows'
  BY <1>1, <1>2, ServedTypes
<1>5. Types'
  BY <1>1, <1>2, <1>3, <1>4 DEF Inv, Types, TypeOK, Present
<1>6. Waiting'
  BY <1>1, <1>3 DEF Inv, Waiting, Posting, CreateFeedback, UndoFeedback
<1>7. CASE flush.step = "posting" /\ CreateFeedback(flush.as, flush.at)
  <2>1. InDoubt(queue[flush.at]) /\ InDoubt(disk[flush.at])
    BY <1>7 DEF Inv, Waiting, Posting
  <2>2. \A j \in Key : KeyInv(j)'
    BY <1>1, <1>2, <1>7, <2>1, CreateWorld DEF OwnerIs, Ok, EntryOk
  <2>. QED
    BY <1>5, <1>6, <2>2 DEF Inv
<1>8. CASE flush.step = "undoing" /\ UndoFeedback(flush.as, flush.at)
  <2>1. asked[flush.at] # "keep"
    BY <1>8 DEF Inv, Waiting, Posting
  <2>2. \A j \in Key : KeyInv(j)'
    BY <1>1, <1>2, <1>8, <2>1, UndoWorld
  <2>. QED
    BY <1>5, <1>6, <2>2 DEF Inv
<1>. QED
  BY <1>1, <1>7, <1>8

\* What a flush waits for stays true when the server serves others.
LEMMA WaitingServed ==
  ASSUME Inv, UNCHANGED <<flush, queue, disk, asked>>,
         rows \subseteq rows', undoneBy \subseteq undoneBy'
  PROVE  Waiting'
  BY DEF Inv, Waiting, Posting

LEMMA ServeCallInv ==
  ASSUME Inv, NEW k \in Key, ServeCall(k)
  PROVE  Inv'
<1>1. /\ call[k].step = "undoing" /\ UndoFeedback(call[k].as, k)
      /\ call' = [call EXCEPT ![k].step = "undone"]
      /\ UNCHANGED <<session, queue, disk, flush, stray, old, asked>>
  BY DEF ServeCall
<1>2. /\ call \in [Key -> [step : Steps, as : User \cup {Nobody}]]
      /\ call[k].as \in User /\ Asked(k)
  BY <1>1 DEF Inv, Types, TypeOK, KeyInv
<1>3. /\ call' \in [Key -> [step : Steps, as : User \cup {Nobody}]]
      /\ call'[k].as = call[k].as
      /\ \A j \in Key \ {k} : call'[j] = call[j]
  BY <1>1, <1>2 DEF Steps
<1>4. rows' \subseteq Feedback /\ undoneBy' \subseteq rows'
  BY <1>1, <1>2, ServedTypes
<1>5. Types'
  BY <1>1, <1>2, <1>3, <1>4 DEF Inv, Types, TypeOK, Present
<1>6. Waiting'
  BY <1>1, WaitingServed DEF UndoFeedback
<1>7. \A j \in Key : KeyInv(j)'
  BY <1>1, <1>2, <1>3, UndoWorld DEF Asked
<1>. QED
  BY <1>5, <1>6, <1>7 DEF Inv

LEMMA ServeStrayInv ==
  ASSUME Inv, NEW m \in stray, ServeStray(m)
  PROVE  Inv'
<1>1. /\ \/ m.kind = "post" /\ CreateFeedback(m.user, m.key)
         \/ m.kind = "undo" /\ UndoFeedback(m.user, m.key)
      /\ stray' = stray \ {m}
      /\ UNCHANGED <<session, queue, disk, flush, call, old, asked>>
  BY DEF ServeStray
<1>2. PICK k \in Key : k = m.key
  BY DEF Inv, Types, TypeOK
<1>3. /\ m.user \in User /\ Asked(k)
      /\ stray' \subseteq [kind : {"post", "undo"}, user : User, key : Key]
  BY <1>1 DEF Inv, Types, TypeOK, KeyInv
<1>4. rows' \subseteq Feedback /\ undoneBy' \subseteq rows'
  BY <1>1, <1>2, <1>3, ServedTypes
<1>5. Types'
  BY <1>1, <1>3, <1>4 DEF Inv, Types, TypeOK, Present
<1>6. Waiting'
  BY <1>1, WaitingServed DEF UndoFeedback, CreateFeedback
<1>7. CASE m.kind = "post" /\ CreateFeedback(m.user, m.key)
  <2>1. StrayPost(k) /\ asked[k] # "nothing" /\ \A w : TracesOf(w, k) => m.user = w
    BY <1>2, <1>3, <1>7 DEF StrayPost, Asked, TracesOf
  <2>2. \A j \in Key : KeyInv(j)'
    BY <1>1, <1>2, <1>3, <1>7, <2>1, CreateWorld
  <2>. QED
    BY <1>5, <1>6, <2>2 DEF Inv
<1>8. CASE m.kind = "undo" /\ UndoFeedback(m.user, m.key)
  <2>1. asked[k] # "keep"
    BY <1>2, <1>3, <1>8 DEF Asked
  <2>2. \A j \in Key : KeyInv(j)'
    BY <1>1, <1>2, <1>3, <1>8, <2>1, UndoWorld
  <2>. QED
    BY <1>5, <1>6, <2>2 DEF Inv
<1>. QED
  BY <1>1, <1>7, <1>8

-----------------------------------------------------------------------------
(* The invariant, and what follows from it. *)

LEMMA InitInv ==
  ASSUME Init
  PROVE  Inv
<1>1. /\ session \in User \cup {Nobody}
      /\ queue = [k \in Key |-> NoEntry] /\ disk = queue
      /\ flush = IdleFlush /\ call = [k \in Key |-> NoCall]
      /\ stray = {} /\ rows = {} /\ undoneBy = {}
      /\ old = {} /\ asked = [k \in Key |-> "nothing"]
  BY DEF Init
<1>2. Types /\ Waiting
  BY <1>1 DEF Types, TypeOK, Queues, IdleFlush, NoCall, Steps, Waiting
<1>3. ASSUME NEW k \in Key PROVE KeyInv(k)
  <2>1. Nobody \in User \cup {Nobody}
    OBVIOUS
  <2>. QED
    BY <1>1, <2>1 DEF KeyInv, Ok, EntryOk, Asked, OwnerIs, TracesOf, Recorded, StrayPost,
                      MayBeActive, Active, NoCall
<1>. QED
  BY <1>2, <1>3 DEF Inv

\* One step per action of the client, the network and the server.
LEMMA NextInv ==
  ASSUME Inv, [Next]_vars
  PROVE  Inv'
<1>1. CASE UNCHANGED vars
  BY <1>1, UnchangedInv DEF vars, Inv, Types, TypeOK
<1>2. CASE Account
  <2>1. CASE SignOut
    BY <2>1, SignOutInv
  <2>2. CASE Restart
    BY <2>2, RestartInv
  <2>3. CASE FlushNow
    BY <2>3, FlushNowInv
  <2>4. ASSUME NEW u \in User, SignIn(u) PROVE Inv'
    BY <2>4, SignInInv
  <2>. QED
    BY <1>2, <2>1, <2>2, <2>3, <2>4 DEF Account
<1>3. CASE FlushStep
  <2>1. CASE FlushSends
    BY <2>1, FlushSendsInv
  <2>2. CASE ServeFlush
    BY <2>2, ServeFlushInv
  <2>3. CASE PostAcked
    BY <2>3, PostAckedInv
  <2>4. CASE UndoAcked
    BY <2>4, UndoAckedInv
  <2>5. CASE FlushDisowned
    BY <2>5, FlushDisownedInv
  <2>6. CASE FlushUnavailable
    BY <2>6, FlushUnavailableInv
  <2>7. CASE FlushRefused
    BY <2>7, FlushRefusedInv
  <2>. QED
    BY <1>3, <2>1, <2>2, <2>3, <2>4, <2>5, <2>6, <2>7 DEF FlushStep
<1>4. ASSUME NEW k \in Key, EntryStep(k) PROVE Inv'
  <2>1. CASE Submit(k)
    BY <2>1, SubmitInv
  <2>2. CASE CancelUnposted(k)
    BY <2>2, CancelUnpostedInv
  <2>3. CASE BeginUndo(k)
    BY <2>3, BeginUndoInv
  <2>4. CASE GrowOld(k)
    BY <2>4, GrowOldInv
  <2>5. CASE CallSends(k)
    BY <2>5, CallSendsInv
  <2>6. CASE ServeCall(k)
    BY <2>6, ServeCallInv
  <2>7. CASE CallAcked(k)
    BY <2>7, CallAckedInv
  <2>8. CASE CallUnavailable(k)
    BY <2>8, CallUnavailableInv
  <2>9. CASE CallRefused(k)
    BY <2>9, CallRefusedInv
  <2>. QED
    BY <1>4, <2>1, <2>2, <2>3, <2>4, <2>5, <2>6, <2>7, <2>8, <2>9 DEF EntryStep
<1>5. ASSUME NEW m \in stray, ServeStray(m) PROVE Inv'
  BY <1>5, ServeStrayInv
<1>. QED
  BY <1>1, <1>2, <1>3, <1>4, <1>5 DEF Next

LEMMA SpecInv == Spec => []Inv
<1>1. Init => Inv
  BY InitInv
<1>2. Inv /\ [Next]_vars => Inv'
  BY NextInv
<1>. QED
  BY <1>1, <1>2, PTL DEF Spec

\* Every variable of the queue, the network and the server keeps its shape; in
\* particular no entry is dropped while a flush waits for its answer.
THEOREM TypeCorrect == Spec => []TypeOK
<1>1. Inv => TypeOK
  BY DEF Inv, Types
<1>. QED
  BY <1>1, SpecInv, PTL

\* Whatever sign-ins, restarts and late requests come between a click and its post,
\* the server records it for the account whose click it was.
THEOREM FeedbackIsRecordedForItsOwner == Spec => []RecordedForItsOwner
<1>1. ASSUME Inv PROVE RecordedForItsOwner
  <2>1. ASSUME NEW r \in rows, Present(queue, r.key)
        PROVE  queue[r.key].ownerUserId = r.user
    <3>1. PICK k \in Key : k = r.key
      BY <1>1 DEF Inv, Types, TypeOK, Feedback
    <3>2. PICK w : OwnerIs(w, queue[k]) /\ TracesOf(w, k)
      BY <1>1 DEF Inv, KeyInv
    <3>. QED
      BY <2>1, <3>1, <3>2 DEF OwnerIs, TracesOf, Present
  <2>. QED
    BY <2>1 DEF RecordedForItsOwner
<1>. QED
  BY <1>1, SpecInv, PTL

\* An entry whose owner's next flush sends something for it.
LEMMA ReplayedFact ==
  ASSUME Inv, NEW k \in Key
  PROVE  Replayed(disk, k) <=> ReplayedEntry(disk[k])
<1>1. CASE disk[k] = NoEntry
  BY <1>1 DEF Replayed, ReplayedEntry, Present
<1>2. CASE disk[k] # NoEntry
  <2>1. disk[k] \in PendingFeedback
    BY <1>2, PresentFact DEF Inv, Types, TypeOK, Present
  <2>2. disk[k].ownerUserId # Nobody
    BY <2>1, EntryFact
  <2>. QED
    BY <1>2, <2>2 DEF Replayed, ReplayedEntry, NeedsPost, NeedsUndo, BelongsTo, Unposted, Present
<1>. QED
  BY <1>1, <1>2

\* A click that was neither undone nor refused is active at the server or is posted by
\* the next flush of its owner, after a restart too.
THEOREM FeedbackIsNotLost == Spec => []NoFeedbackLost
<1>1. ASSUME Inv PROVE NoFeedbackLost
  <2>1. ASSUME NEW k \in Key, asked[k] = "keep"
        PROVE  Active(k) \/ (Replayed(disk, k) /\ ~disk[k].cancelled)
    <3>1. Ok(disk[k], k) /\ Asked(k)
      BY <1>1 DEF Inv, KeyInv
    <3>2. CASE Recorded(k)
      BY <2>1, <3>1, <3>2 DEF Recorded, Active, Asked
    <3>3. CASE ~Recorded(k)
      <4>1. disk[k] # NoEntry /\ disk[k].feedbackId = NoFeedback /\ ~disk[k].cancelled
        BY <2>1, <3>1, <3>3 DEF Ok, EntryOk
      <4>. QED
        BY <1>1, <4>1, ReplayedFact DEF ReplayedEntry
    <3>. QED
      BY <3>2, <3>3
  <2>. QED
    BY <2>1 DEF NoFeedbackLost
<1>. QED
  BY <1>1, SpecInv, PTL

\* For the week an entry is kept: feedback the user has undone is not active at the
\* server, and no post under way can make it so, unless the stored queue still undoes it.
THEOREM UndoneFeedbackIsUndone == Spec => []UndoIsNotForgotten
<1>1. ASSUME Inv PROVE UndoIsNotForgotten
  <2>1. ASSUME NEW k \in Key \ old, asked[k] = "undo", Active(k) \/ PostUnderWay(k)
        PROVE  Replayed(disk, k)
    <3>1. Ok(disk[k], k)
      BY <1>1 DEF Inv, KeyInv
    <3>2. CASE MayBeActive(k)
      BY <1>1, <2>1, <3>1, <3>2, ReplayedFact DEF Ok, EntryOk
    <3>3. CASE flush.step = "posting" /\ flush.at = k
      <4>1. InDoubt(disk[k])
        BY <1>1, <3>3 DEF Inv, Waiting, Posting
      <4>. QED
        BY <1>1, <4>1, ReplayedFact DEF InDoubt, ReplayedEntry
    <3>4. PostUnderWay(k) => MayBeActive(k) \/ (flush.step = "posting" /\ flush.at = k)
      BY DEF PostUnderWay, MayBeActive, Recorded, StrayPost
    <3>5. Active(k) => MayBeActive(k)
      BY DEF MayBeActive
    <3>. QED
      BY <2>1, <3>2, <3>3, <3>4, <3>5
  <2>. QED
    BY <2>1 DEF UndoIsNotForgotten
<1>. QED
  BY <1>1, SpecInv, PTL

=============================================================================
