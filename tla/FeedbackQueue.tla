---------------------------- MODULE FeedbackQueue ----------------------------
(***************************************************************************)
(* The client's queue of feedback not yet known to the server, and the     *)
(* server's feedback events it is replayed into.  A click is kept in local *)
(* storage and posted under an idempotency key; an undo is either local    *)
(* (the post never started), or a second request.  The account may change, *)
(* the app may restart and a request may be lost, delayed or unanswered    *)
(* between any two awaits of a flush.                                      *)
(*                                                                         *)
(* JavaScript runs to the next await: an action is everything between two  *)
(* awaits, the synchronous start of a flush included.                      *)
(*                                                                         *)
(* External: the network.  A request whose caller has given up may still   *)
(* reach the server later.                                                 *)
(***************************************************************************)
EXTENDS Naturals, FiniteSets

CONSTANTS
  User,         \* accounts
  MaxEntries,   \* bound on the feedback a run submits
  MaxStray,     \* bound on the requests that outlive their callers at once
  Nobody, NoEntry, NoFeedback

ASSUME ClientAssumption ==
  /\ Nobody \notin User
  /\ {MaxEntries, MaxStray} \subseteq Nat

Key == 1..MaxEntries   \* local ids; also the idempotency keys, in order of submission

\* A server row is unique per (user_id, idempotency_key); it stands for its feedback_id.
Feedback == [user : User, key : Key]

ASSUME AbsenceAssumption == NoFeedback \notin Feedback

\* syncError: "transient" and "refused" are the codes of retryable and other errors.
SyncError == {"none", "undo_pending", "transient", "refused"}

PendingFeedback ==
  [ownerUserId : User, feedbackId : Feedback \cup {NoFeedback},
   submissionAttempted : BOOLEAN, cancelled : BOOLEAN, undone : BOOLEAN,
   syncError : SyncError]

ASSUME NoEntryAssumption == NoEntry \notin PendingFeedback

Queues == [Key -> PendingFeedback \cup {NoEntry}]

VARIABLES
  session,   \* the signed-in account, or Nobody
  queue,     \* entries, in memory; iterated in the order of keys
  disk,      \* entries, in local storage
  flush,     \* the running flush: where it waits, and for which entry
  call,      \* call[k]: the request of a running undo(k)
  stray,     \* requests nobody waits for any more
  rows,      \* feedback_events of the server
  undoneBy,  \* the rows that an undo event points to
  old,       \* entries created more than seven days ago
  asked      \* asked[k]: what the user last asked for and was not told to have failed

vars == <<session, queue, disk, flush, call, stray, rows, undoneBy, old, asked>>

Present(q, k) == q[k] # NoEntry
Unposted(q, k) == Present(q, k) /\ q[k].feedbackId = NoFeedback
BelongsTo(u, q, k) == u # Nobody /\ Present(q, k) /\ q[k].ownerUserId = u

NoCall == [step |-> "none", as |-> Nobody]
IdleFlush == [at |-> 0, step |-> "idle", as |-> Nobody]

Set(q, k, e) == IF Present(q, k) THEN [q EXCEPT ![k] = e] ELSE q

DroppableByAge(q, k) == Present(q, k) /\ k \in old

\* The filter at the end of runFlush.
Droppable(q, k) ==
  /\ Present(q, k) /\ k \in old
  /\ q[k].cancelled \/ (q[k].feedbackId # NoFeedback /\ q[k].syncError = "none")
Prune(q) == [k \in Key |-> IF Droppable(q, k) THEN NoEntry ELSE q[k]]

NeedsPostUncancelled(u, q, k) ==
  BelongsTo(u, q, k) /\ Unposted(q, k) /\ ~q[k].cancelled

\* What an iteration of runFlush sends for k, if anything.
NeedsPost(u, q, k) ==
  /\ BelongsTo(u, q, k) /\ Unposted(q, k)
  /\ q[k].cancelled => q[k].submissionAttempted
NeedsUndo(u, q, k) ==
  /\ BelongsTo(u, q, k) /\ ~Unposted(q, k)
  /\ q[k].undone /\ q[k].syncError = "undo_pending"

\* The end of a flush, by falling out of the loop or by a break.
EndFlush(q) ==
  /\ queue' = Prune(q)
  /\ disk' = queue'
  /\ flush' = IdleFlush

\* The loop from entry i up to its next await: the account u, the entries q, of
\* which saved is in storage.
Proceed(u, q, saved, i) ==
  LET Needs(k) == NeedsPost(u, q, k) \/ NeedsUndo(u, q, k)
      First(k) == k >= i /\ Needs(k) /\ \A j \in i..(k - 1) : ~Needs(j)
  IN  \/ (\A k \in Key : k >= i => ~Needs(k)) /\ EndFlush(q)
      \/ \E k \in Key :
           /\ First(k) /\ NeedsPost(u, q, k)
           /\ queue' = [q EXCEPT ![k].submissionAttempted = TRUE]
           /\ disk' = queue'
           /\ flush' = [at |-> k, step |-> "post", as |-> u]
      \/ \E k \in Key :
           /\ First(k) /\ NeedsUndo(u, q, k)
           /\ queue' = q /\ disk' = saved
           /\ flush' = [at |-> k, step |-> "undo", as |-> u]

\* flush(): joins the running flush, if there is one.
Flush(u, q, saved) ==
  \/ flush.step = "idle" /\ Proceed(u, q, saved, 1)
  \/ /\ flush.step # "idle"
     /\ queue' = q /\ disk' = saved
     /\ UNCHANGED flush

-----------------------------------------------------------------------------
(* The account and the app. *)

SignIn(u) ==
  /\ u # session
  /\ session' = u
  /\ Flush(u, queue, disk)
  /\ UNCHANGED <<call, stray, rows, undoneBy, old, asked>>

\* Logout, a deleted account, or a refresh the server rejects.
SignOut ==
  /\ session # Nobody
  /\ session' = Nobody
  /\ UNCHANGED <<queue, disk, flush, call, stray, rows, undoneBy, old, asked>>

\* The "online" event, or the button in the settings.
FlushNow ==
  /\ flush.step = "idle"
  /\ Flush(session, queue, disk)
  /\ UNCHANGED <<session, call, stray, rows, undoneBy, old, asked>>

\* The requests under way: those of the flush and those of undo calls.
Post(u, k) == [kind |-> "post", user |-> u, key |-> k]
Undoing(u, k) == [kind |-> "undo", user |-> u, key |-> k]
FlushRequest ==
  (IF flush.step = "posting" THEN {Post(flush.as, flush.at)} ELSE {})
  \cup (IF flush.step = "undoing" THEN {Undoing(flush.as, flush.at)} ELSE {})
CallRequest(k) ==
  IF call[k].step = "undoing" THEN {Undoing(call[k].as, k)} ELSE {}

\* A caller that gives up does not stop its request.
GiveUp(requests) ==
  \E late \in SUBSET requests :
    /\ Cardinality(stray \cup late) <= MaxStray
    /\ stray' = stray \cup late

\* The app is closed at any await; it flushes when it starts.
Restart ==
  /\ GiveUp(FlushRequest \cup UNION {CallRequest(k) : k \in Key})
  /\ call' = [k \in Key |-> NoCall]
  /\ Proceed(session, disk, disk, 1)
  /\ UNCHANGED <<session, rows, undoneBy, old, asked>>

\* Seven days after k was submitted.
GrowOld(k) ==
  /\ asked[k] # "nothing" /\ k \notin old
  /\ old' = old \cup {k}
  /\ UNCHANGED <<session, queue, disk, flush, call, stray, rows, undoneBy, asked>>

-----------------------------------------------------------------------------
(* What the user does. *)

NewEntry(u) ==
  [ownerUserId |-> u, feedbackId |-> NoFeedback, submissionAttempted |-> FALSE,
   cancelled |-> FALSE, undone |-> FALSE, syncError |-> "none"]

Submit(k) ==
  /\ session # Nobody
  /\ asked[k] = "nothing"
  /\ \A j \in 1..(k - 1) : asked[j] # "nothing"
  /\ asked' = [asked EXCEPT ![k] = "keep"]
  /\ LET q == [queue EXCEPT ![k] = NewEntry(session)]
     IN  Flush(session, q, q)
  /\ UNCHANGED <<session, call, stray, rows, undoneBy, old>>

Undoable(k) ==
  /\ BelongsTo(session, queue, k)
  /\ ~queue[k].cancelled /\ ~queue[k].undone

\* undo() of an entry without an acknowledged post.
CancelUnposted(k) ==
  /\ Undoable(k) /\ Unposted(queue, k)
  /\ queue' = [queue EXCEPT ![k].cancelled = TRUE]
  /\ disk' = queue'
  /\ asked' = [asked EXCEPT ![k] = "undo"]
  /\ UNCHANGED <<session, flush, call, stray, rows, undoneBy, old>>

\* undo() of an acknowledged entry, up to its request.
BeginUndo(k) ==
  /\ Undoable(k) /\ ~Unposted(queue, k)
  /\ queue' = [queue EXCEPT ![k].undone = TRUE, ![k].syncError = "undo_pending"]
  /\ disk' = queue'
  /\ call' = [call EXCEPT ![k] = [step |-> "undo", as |-> session]]
  /\ asked' = [asked EXCEPT ![k] = "undo"]
  /\ UNCHANGED <<session, flush, stray, rows, undoneBy, old>>

-----------------------------------------------------------------------------
(* A request is sent after the session has been looked up and refreshed;   *)
(* the account that asked for it must still be the one signed in.          *)

AnyPrincipal(expected) == session # Nobody
SamePrincipal(expected) == session = expected

FlushSends ==
  /\ flush.step \in {"post", "undo"}
  /\ SamePrincipal(flush.as)
  /\ flush' = [flush EXCEPT !.step = IF @ = "post" THEN "posting" ELSE "undoing",
                            !.as = session]
  /\ UNCHANGED <<session, queue, disk, call, stray, rows, undoneBy, old, asked>>

CallSends(k) ==
  /\ call[k].step = "undo"
  /\ SamePrincipal(call[k].as)
  /\ call' = [call EXCEPT ![k] = [step |-> "undoing", as |-> session]]
  /\ UNCHANGED <<session, queue, disk, flush, stray, rows, undoneBy, old, asked>>

-----------------------------------------------------------------------------
(* The server.  Both operations are transactions and idempotent. *)

CreateFeedback(u, k) ==
  /\ rows' = rows \cup {[user |-> u, key |-> k]}
  /\ UNCHANGED undoneBy

UndoFeedback(u, k) ==
  /\ [user |-> u, key |-> k] \in rows
  /\ undoneBy' = undoneBy \cup {[user |-> u, key |-> k]}
  /\ UNCHANGED rows

ServeFlush ==
  /\ \/ flush.step = "posting" /\ CreateFeedback(flush.as, flush.at)
     \/ flush.step = "undoing" /\ UndoFeedback(flush.as, flush.at)
  /\ flush' = [flush EXCEPT !.step = IF @ = "posting" THEN "posted" ELSE "undone"]
  /\ UNCHANGED <<session, queue, disk, call, stray, old, asked>>

ServeCall(k) ==
  /\ call[k].step = "undoing" /\ UndoFeedback(call[k].as, k)
  /\ call' = [call EXCEPT ![k].step = "undone"]
  /\ UNCHANGED <<session, queue, disk, flush, stray, old, asked>>

ServeStray(m) ==
  /\ m \in stray
  /\ \/ m.kind = "post" /\ CreateFeedback(m.user, m.key)
     \/ m.kind = "undo" /\ UndoFeedback(m.user, m.key)
  /\ stray' = stray \ {m}
  /\ UNCHANGED <<session, queue, disk, flush, call, old, asked>>

-----------------------------------------------------------------------------
(* What the client makes of the answers.  An error is transient (no         *)
(* connection, 408, 429, 5xx) or refused: any other status, a redirect, an  *)
(* account that changed before the request was sent, an answer that cannot  *)
(* be read.                                                                 *)

Posted(e, id) ==
  LET undone == e.undone \/ e.cancelled
  IN  [e EXCEPT !.feedbackId = id, !.undone = undone,
                !.syncError = IF undone THEN "undo_pending" ELSE "none"]

\* The post is acknowledged; a cancelled entry is undone next.
PostAcked ==
  /\ flush.step = "posted"
  /\ LET k == flush.at
         q == [queue EXCEPT ![k] = Posted(@, [user |-> flush.as, key |-> k])]
     IN  Proceed(session, q, disk, k)
  /\ UNCHANGED <<session, call, stray, rows, undoneBy, old, asked>>

UndoAcked ==
  /\ flush.step = "undone"
  /\ Proceed(session, [queue EXCEPT ![flush.at].syncError = "none"], disk, flush.at + 1)
  /\ UNCHANGED <<session, call, stray, rows, undoneBy, old, asked>>

Posting == flush.step \in {"post", "posting", "posted"}

\* The account changed meanwhile: the error says nothing about the entry.
FlushDisowned ==
  /\ flush.step # "idle"
  /\ ~BelongsTo(session, queue, flush.at)
  /\ Proceed(session, queue, disk, flush.at + 1)
  /\ GiveUp(FlushRequest)
  /\ UNCHANGED <<session, call, rows, undoneBy, old, asked>>

FlushUnavailable ==
  /\ flush.step # "idle"
  /\ BelongsTo(session, queue, flush.at)
  /\ EndFlush([queue EXCEPT ![flush.at].syncError =
                 IF Posting THEN "transient" ELSE "undo_pending"])
  /\ GiveUp(FlushRequest)
  /\ UNCHANGED <<session, call, rows, undoneBy, old, asked>>

FlushRefused ==
  /\ flush.step # "idle"
  /\ BelongsTo(session, queue, flush.at)
  /\ LET k == flush.at
         e == [queue[k] EXCEPT !.syncError = "refused", !.cancelled = @ \/ Posting]
     IN  /\ Proceed(session, [queue EXCEPT ![k] = e], disk, k + 1)
         /\ asked' = [asked EXCEPT ![k] =
                        IF Posting /\ @ = "undo" THEN @ ELSE "refused"]
  /\ UNCHANGED <<session, call, stray, rows, undoneBy, old>>

CallAckedAndPruned(k) ==
  /\ call[k].step = "undone"
  /\ queue' = Prune(Set(queue, k, [queue[k] EXCEPT !.syncError = "none"]))
  /\ disk' = queue'
  /\ call' = [call EXCEPT ![k] = NoCall]
  /\ UNCHANGED <<session, flush, stray, rows, undoneBy, old, asked>>

CallAcked(k) ==
  /\ call[k].step = "undone"
  /\ queue' = Set(queue, k, [queue[k] EXCEPT !.syncError = "none"])
  /\ disk' = queue'
  /\ call' = [call EXCEPT ![k] = NoCall]
  /\ UNCHANGED <<session, flush, stray, rows, undoneBy, old, asked>>

\* Left to a later flush.
CallUnavailable(k) ==
  /\ call[k].step # "none"
  /\ disk' = queue
  /\ call' = [call EXCEPT ![k] = NoCall]
  /\ GiveUp(CallRequest(k))
  /\ UNCHANGED <<session, queue, flush, rows, undoneBy, old, asked>>

\* Taken back, and the user is told.
CallRefused(k) ==
  /\ call[k].step # "none"
  /\ queue' = Set(queue, k, [queue[k] EXCEPT !.undone = FALSE, !.syncError = "refused"])
  /\ disk' = queue'
  /\ call' = [call EXCEPT ![k] = NoCall]
  /\ asked' = [asked EXCEPT ![k] = "refused"]
  /\ UNCHANGED <<session, flush, stray, rows, undoneBy, old>>

-----------------------------------------------------------------------------
Init ==
  /\ session \in User \cup {Nobody}
  /\ queue = [k \in Key |-> NoEntry] /\ disk = queue
  /\ flush = IdleFlush /\ call = [k \in Key |-> NoCall]
  /\ stray = {} /\ rows = {} /\ undoneBy = {}
  /\ old = {} /\ asked = [k \in Key |-> "nothing"]

Account == SignOut \/ Restart \/ FlushNow \/ \E u \in User : SignIn(u)

FlushStep ==
  \/ FlushSends \/ ServeFlush \/ PostAcked \/ UndoAcked
  \/ FlushDisowned \/ FlushUnavailable \/ FlushRefused

EntryStep(k) ==
  \/ Submit(k) \/ CancelUnposted(k) \/ BeginUndo(k) \/ GrowOld(k)
  \/ CallSends(k) \/ ServeCall(k)
  \/ CallAcked(k) \/ CallUnavailable(k) \/ CallRefused(k)

Next ==
  \/ Account
  \/ FlushStep
  \/ \E k \in Key : EntryStep(k)
  \/ \E m \in stray : ServeStray(m)

Spec == Init /\ [][Next]_vars

-----------------------------------------------------------------------------
(* Properties *)

Steps == {"idle", "post", "posting", "posted", "undo", "undoing", "undone", "none"}

\* Every variable keeps its shape; a flush waits for an entry that is in the queue
\* (only its own end drops entries), and undo events point to rows.
TypeOK ==
  /\ session \in User \cup {Nobody}
  /\ queue \in Queues /\ disk \in Queues
  /\ flush \in [at : Key \cup {0}, step : Steps, as : User \cup {Nobody}]
  /\ flush.step # "idle" => flush.at \in Key /\ Present(queue, flush.at)
  /\ call \in [Key -> [step : Steps, as : User \cup {Nobody}]]
  /\ stray \subseteq [kind : {"post", "undo"}, user : User, key : Key]
  /\ rows \subseteq Feedback /\ undoneBy \subseteq rows
  /\ old \subseteq Key
  /\ asked \in [Key -> {"nothing", "keep", "undo", "refused"}]

\* The row of an entry, as the server reads active feedback.
Active(k) == \E r \in rows \ undoneBy : r.key = k

\* A post that may still create the row: a row, once there, is not created again.
PostUnderWay(k) ==
  /\ \A r \in rows : r.key # k
  /\ \/ flush.step = "posting" /\ flush.at = k
     \/ \E m \in stray : m.kind = "post" /\ m.key = k

\* Feedback is only ever recorded for the account whose click it was, whatever
\* sign-ins happen while a flush waits: runFlush checks the owner, and the client
\* checks the principal again when it sends.
RecordedForItsOwner ==
  \A r \in rows : Present(queue, r.key) => queue[r.key].ownerUserId = r.user

\* The next flush of k's owner sends a request for k; if k was cancelled, the post
\* is followed by its undo.
Replayed(q, k) ==
  Present(q, k) /\ (NeedsPost(q[k].ownerUserId, q, k) \/ NeedsUndo(q[k].ownerUserId, q, k))

\* A click that was neither undone nor refused is at the server, or will be posted
\* from storage: no restart, lost answer or change of account loses it.
NoFeedbackLost ==
  \A k \in Key : asked[k] = "keep" =>
     Active(k) \/ (Replayed(disk, k) /\ ~disk[k].cancelled)

\* Feedback that the user has undone, and that is active at the server or may
\* become so, is still to be undone by the stored queue, for the week it is kept:
\* this is what makes a post whose answer was lost safe to undo.
UndoIsNotForgotten ==
  \A k \in Key \ old :
    asked[k] = "undo" /\ (Active(k) \/ PostUnderWay(k)) => Replayed(disk, k)

\* Only settled entries leave the queue ("drop fully-settled entries older than 7
\* days", feedbackQueue.ts): past the week too, an undo that is still owed is there.
OnlySettledAreDropped ==
  \A k \in old :
    asked[k] = "undo" /\ (Active(k) \/ PostUnderWay(k)) => Replayed(disk, k)
=============================================================================
