--------------------------- MODULE WorkerBatchProofs ---------------------------
(***************************************************************************)
(* Proofs about WorkerBatch, for every number of invocations and lanes and *)
(* every length of a run: the batch lease excludes, and, where no run      *)
(* outlives its lease, Steam is left alone while it rests.                 *)
(***************************************************************************)
EXTENDS WorkerBatch, TLAPS

JobRow ==
  [status : {"none", "pending", "leased"}, owner : Invocation \cup {NoInvocation},
   expires : Int, due : Int, attempts : 0..MaxAttempts]

RunRow ==
  [pc : Pcs, age : 0..MaxRun, todo : SUBSET Lane, lead : Source,
   index : 0..JobLimit, order : Seq(Source), lanes : SUBSET Lane,
   delay : Nat, read : Nat]

\* A job has paid for its lease, and a waiting one can pay for one.
AttemptInv ==
  \A l \in Lane :
    /\ job[l].status = "leased" => job[l].attempts >= 1
    /\ job[l].status = "pending" => job[l].attempts < MaxAttempts

\* An invocation within its lease holds it, with what its age leaves of it.
LeaseInv ==
  \A b \in Invocation :
    Running(b) /\ run[b].age < LeaseMs =>
      lease.owner = b /\ lease.expires = LeaseMs - run[b].age

\* The cooldown covers the rest Steam asked for, or the invocation that was
\* asked is about to save it; work on Steam is begun without a cooldown, and
\* until it ends none comes up.
AtWork(b) ==
  /\ run[b].pc \in {"working", "worked"}
  /\ \E l \in run[b].lanes : SourceOf[l] = "steam"

Covered ==
  \/ rest <= cooldown
  \/ \E b \in Invocation : At(b, "limited") /\ rest <= run[b].delay

AtSteam(b) == At(b, "claiming") \/ AtWork(b) \/ At(b, "limited")

Begun == \A b \in Invocation : AtSteam(b) => cooldown = 0

SteamInv == Covered /\ Begun

Shapes == TypeOK /\ AttemptInv
Exclusion == Shapes /\ LeaseInv

-----------------------------------------------------------------------------
(* The pieces actions are built from.                                      *)

LEMMA Bounds ==
  ASSUME BatchAssumption
  PROVE  /\ LeaseMs \in Nat /\ LeaseMs > 0
         /\ Continue \in Nat
         /\ MaxRun \in Nat
         /\ MaxAttempts \in Nat /\ MaxAttempts > 0
         /\ JobLimit \in Nat
         /\ Horizon \in Nat
BY DEF BatchAssumption

\* Changes of a row keep it a row.
Picking(r, i, o) == [r EXCEPT !.pc = "picking", !.index = i, !.lanes = {},
                              !.delay = 0, !.read = 0, !.order = o]
Freed(row) == [row EXCEPT !.status = "pending", !.owner = NoInvocation, !.expires = 0]

LEMMA PickingRow ==
  ASSUME NEW r \in RunRow, NEW i \in 0..JobLimit, NEW o \in Seq(Source)
  PROVE  /\ Picking(r, i, o) \in RunRow
         /\ Picking(r, i, o).age = r.age
         /\ Picking(r, i, o).pc = "picking"
<1>1. {} \in SUBSET Lane /\ 0 \in Nat /\ "picking" \in Pcs
  BY DEF Pcs
<1> QED BY <1>1 DEF RunRow, Picking

LEMMA FreedRow ==
  ASSUME NEW row \in JobRow
  PROVE  /\ Freed(row) \in JobRow
         /\ Freed(row).attempts = row.attempts
         /\ Freed(row).status = "pending"
<1>1. "pending" \in {"none", "pending", "leased"} /\ 0 \in Int
  OBVIOUS
<1>2. NoInvocation \in Invocation \cup {NoInvocation}
  OBVIOUS
<1> QED BY <1>1, <1>2 DEF JobRow, Freed

\* The loop over jobs leads from a run to a run.
LEMMA LoopHeadIsRow ==
  ASSUME BatchAssumption, NEW r \in RunRow, NEW i \in Nat
  PROVE  /\ LoopHead(r, i) \in RunRow
         /\ LoopHead(r, i).age = r.age
         /\ LoopHead(r, i).pc \in {"picking", "releasing"}
<1>1. SourceOrder(r.lead, i) \in Seq(Source)
  <2>1. r.lead \in Source
    BY DEF RunRow
  <2>2. \A s \in Source : OtherSource(s) \in Source /\ <<s, OtherSource(s)>> \in Seq(Source)
    BY DEF Source, OtherSource
  <2> QED BY <2>1, <2>2 DEF SourceOrder
<1>2. CASE i < JobLimit
  <2> DEFINE o == SourceOrder(r.lead, i)
  <2>1. i \in 0..JobLimit
    BY <1>2, Bounds
  <2>2. LoopHead(r, i) = Picking(r, i, o)
    BY <1>2 DEF LoopHead, Picking
  <2>3. o \in Seq(Source)
    BY <1>1
  <2> HIDE DEF o
  <2> QED BY <2>1, <2>2, <2>3, PickingRow
<1>3. CASE ~(i < JobLimit)
  BY <1>3 DEF LoopHead, RunRow, Pcs
<1> QED BY <1>2, <1>3

\* So does the loop over lanes.
LEMMA ScheduledIsRow ==
  ASSUME BatchAssumption, NEW r \in RunRow
  PROVE  /\ Scheduled(r) \in RunRow
         /\ Scheduled(r).age = r.age
         /\ Scheduled(r).pc \in {"scheduling", "picking", "releasing"}
<1>1. CASE r.todo = {}
  BY <1>1, LoopHeadIsRow DEF Scheduled
<1>2. CASE r.todo # {}
  BY <1>2 DEF Scheduled, RunRow, Pcs
<1> QED BY <1>1, <1>2

LEMMA OffIsRow ==
  ASSUME BatchAssumption
  PROVE  Off \in RunRow
BY DEF Off, RunRow, Pcs, Source, BatchAssumption

LEMMA NoJobIsRow ==
  ASSUME BatchAssumption
  PROVE  NoJob \in JobRow
BY DEF NoJob, JobRow, BatchAssumption

LEMMA PendingRow ==
  ASSUME BatchAssumption, NEW n \in 0..MaxAttempts, NEW due \in Int
  PROVE  /\ Pending(n, due) \in JobRow
         /\ Pending(n, due).status = "pending"
         /\ Pending(n, due).attempts = n
<1>1. "pending" \in {"none", "pending", "leased"}
  OBVIOUS
<1> QED BY <1>1, NoJobIsRow DEF Pending, JobRow

LEMMA LeasedRow ==
  ASSUME BatchAssumption, NEW b \in Invocation, NEW row \in JobRow,
         row.attempts < MaxAttempts
  PROVE  /\ Leased(row, b) \in JobRow
         /\ Leased(row, b).status = "leased"
         /\ Leased(row, b).attempts >= 1
<1>1. row.attempts + 1 \in 0..MaxAttempts /\ row.attempts + 1 >= 1 /\ LeaseMs \in Int
  BY Bounds DEF JobRow
<1>2. b \in Invocation \cup {NoInvocation} /\ "leased" \in {"none", "pending", "leased"}
  OBVIOUS
<1> QED BY <1>1, <1>2 DEF JobRow, Leased

\* The declared shapes, by name.
LEMMA TypeParts ==
  ASSUME TypeOK
  PROVE  /\ job \in [Lane -> JobRow]
         /\ run \in [Invocation -> RunRow]
BY DEF TypeOK, JobRow, RunRow

\* Expired leases go back to the queue with an attempt left, or are settled.
LEMMA RecycledKeeps ==
  ASSUME BatchAssumption, Shapes
  PROVE  /\ Recycled \in [Lane -> JobRow]
         /\ \A l \in Lane :
              /\ Recycled[l].status = "leased" => Recycled[l].attempts >= 1
              /\ Recycled[l].status = "pending" => Recycled[l].attempts < MaxAttempts
<1> USE DEF Shapes
<1>1. job \in [Lane -> JobRow]
  BY TypeParts
<1>2. ASSUME NEW l \in Lane
      PROVE  /\ Recycled[l] \in JobRow
             /\ Recycled[l].status = "leased" => Recycled[l].attempts >= 1
             /\ Recycled[l].status = "pending" => Recycled[l].attempts < MaxAttempts
  <2> DEFINE row == job[l]
  <2>1. /\ row \in JobRow
        /\ row.status = "leased" => row.attempts >= 1
        /\ row.status = "pending" => row.attempts < MaxAttempts
    BY <1>1 DEF AttemptInv
  <2>2. CASE row.status = "leased" /\ row.expires <= 0 /\ Exhausted(row)
    <3>1. Recycled[l] = NoJob
      BY <2>2 DEF Recycled
    <3> QED BY <3>1, NoJobIsRow DEF NoJob
  <2>3. CASE row.status = "leased" /\ row.expires <= 0 /\ ~Exhausted(row)
    <3>1. Recycled[l] = Freed(row)
      BY <2>3 DEF Recycled, Freed
    <3>2. row.attempts \in 0..MaxAttempts /\ MaxAttempts \in Nat
      BY <2>1, Bounds DEF JobRow
    <3>3. row.attempts < MaxAttempts
      BY <2>3, <3>2 DEF Exhausted
    <3>4. /\ Recycled[l] \in JobRow
          /\ Recycled[l].attempts = row.attempts
          /\ Recycled[l].status = "pending"
      BY <3>1, <2>1, FreedRow
    <3> QED BY <3>3, <3>4
  <2>4. CASE ~(row.status = "leased" /\ row.expires <= 0)
    <3>1. Recycled[l] = row
      BY <2>4 DEF Recycled
    <3> QED BY <3>1, <2>1
  <2> QED BY <2>2, <2>3, <2>4
<1>3. Recycled \in [Lane -> JobRow]
  BY <1>2 DEF Recycled
<1> QED BY <1>2, <1>3

-----------------------------------------------------------------------------
(* A step of one invocation, and what it keeps.                            *)

Moved(b) ==
  /\ run' \in [Invocation -> RunRow]
  /\ run'[b].age = run[b].age
  /\ \A c \in Invocation \ {b} : run'[c] = run[c]

JobsSound ==
  /\ job' \in [Lane -> JobRow]
  /\ \A l \in Lane :
       /\ job'[l].status = "leased" => job'[l].attempts >= 1
       /\ job'[l].status = "pending" => job'[l].attempts < MaxAttempts

LEMMA SameJobs ==
  ASSUME Shapes, job' = job
  PROVE  JobsSound
BY TypeParts DEF Shapes, JobsSound, AttemptInv

\* One job changed, and soundly.
LEMMA OneJob ==
  ASSUME Shapes, NEW l \in Lane, NEW row \in JobRow,
         row.status = "leased" => row.attempts >= 1,
         row.status = "pending" => row.attempts < MaxAttempts,
         job' = [job EXCEPT ![l] = row]
  PROVE  JobsSound
BY TypeParts DEF Shapes, JobsSound, AttemptInv

LEMMA ShapesKept ==
  ASSUME JobsSound, run' \in [Invocation -> RunRow],
         lease' \in [owner : Invocation \cup {NoInvocation}, expires : 0..LeaseMs],
         phase' \in [Lane -> Nat], keys' \in [Lane -> SUBSET Nat],
         next' \in [Lane -> Nat], cooldown' \in Nat, rest' \in Nat
  PROVE  Shapes'
<1>1. AttemptInv'
  BY DEF JobsSound, AttemptInv
<1>2. TypeOK'
  BY DEF TypeOK, JobsSound, JobRow, RunRow
<1> QED BY <1>1, <1>2 DEF Shapes

\* A running invocation that keeps its age keeps the batch lease.
LEMMA LeaseKept ==
  ASSUME LeaseInv, NEW b \in Invocation, Running(b), Moved(b), lease' = lease
  PROVE  LeaseInv'
<1>1. ASSUME NEW c \in Invocation, Running(c)', run'[c].age < LeaseMs
      PROVE  lease'.owner = c /\ lease'.expires = LeaseMs - run'[c].age
  <2>1. Running(c) /\ run'[c].age = run[c].age
    BY <1>1 DEF Moved, Running, At
  <2> QED BY <1>1, <2>1 DEF LeaseInv
<1> QED BY <1>1 DEF LeaseInv

\* A cooldown that nobody sets still covers the rest asked for.
LEMMA CoveredKept ==
  ASSUME Covered, NEW b \in Invocation, ~At(b, "limited"),
         \A c \in Invocation \ {b} : run'[c] = run[c],
         cooldown' = cooldown, rest' = rest
  PROVE  Covered'
<1>1. CASE rest <= cooldown
  BY <1>1 DEF Covered
<1>2. ASSUME NEW c \in Invocation, At(c, "limited"), rest <= run[c].delay
      PROVE  Covered'
  <2>1. run'[c] = run[c]
    BY <1>2
  <2> QED BY <1>2, <2>1 DEF Covered, At
<1> QED BY <1>1, <1>2 DEF Covered

\* An invocation that is not at Steam afterwards spoils nothing.
LEMMA BegunKept ==
  ASSUME Begun, NEW b \in Invocation,
         \A c \in Invocation \ {b} : run'[c] = run[c],
         cooldown' = cooldown, ~AtSteam(b)'
  PROVE  Begun'
<1>1. ASSUME NEW c \in Invocation, AtSteam(c)'
      PROVE  cooldown' = 0
  <2>1. c # b
    BY <1>1
  <2>2. run'[c] = run[c]
    BY <2>1
  <2> QED BY <1>1, <2>2 DEF Begun, AtSteam, At, AtWork
<1> QED BY <1>1 DEF Begun

LEMMA SteamKept ==
  ASSUME SteamInv, NEW b \in Invocation, ~At(b, "limited"),
         \A c \in Invocation \ {b} : run'[c] = run[c],
         cooldown' = cooldown, rest' = rest,
         run'[b].pc \notin {"claiming", "limited"}, ~AtWork(b)'
  PROVE  SteamInv'
BY CoveredKept, BegunKept DEF SteamInv, AtSteam, At

\* Nor does one that is cut off: what it was asked and has not saved is void.
LEMMA SteamCut ==
  ASSUME SteamInv, TypeOK, NEW b \in Invocation,
         \A c \in Invocation \ {b} : run'[c] = run[c],
         cooldown' = cooldown, rest' = Unasked(b),
         run'[b].pc \in {"off", "releasing"}
  PROVE  SteamInv'
<1>1. ~AtSteam(b)'
  BY DEF AtSteam, At, AtWork
<1>2. Begun'
  BY <1>1, BegunKept DEF SteamInv
<1>3. Covered'
  <2>1. CASE At(b, "limited")
    BY <2>1 DEF Unasked, Covered, TypeOK
  <2>2. CASE ~At(b, "limited")
    BY <2>2, CoveredKept DEF Unasked, SteamInv
  <2> QED BY <2>1, <2>2
<1> QED BY <1>2, <1>3 DEF SteamInv

LEMMA GotoMoves ==
  ASSUME TypeOK, NEW b \in Invocation, NEW pc \in Pcs, Goto(b, pc)
  PROVE  /\ Moved(b)
         /\ run'[b].pc = pc
         /\ run'[b].lanes = run[b].lanes
<1>1. run \in [Invocation -> RunRow]
  BY TypeParts
<1>2. [run[b] EXCEPT !.pc = pc] \in RunRow
  BY <1>1 DEF RunRow
<1>3. run' = [run EXCEPT ![b] = [run[b] EXCEPT !.pc = pc]]
  BY DEF Goto
<1> QED BY <1>1, <1>2, <1>3 DEF Moved, RunRow

LEMMA BecomesMoves ==
  ASSUME TypeOK, NEW b \in Invocation, NEW x \in RunRow, x.age = run[b].age,
         run' = [run EXCEPT ![b] = x]
  PROVE  Moved(b) /\ run'[b] = x
BY TypeParts DEF Moved

\* What an action of an invocation at work leaves behind: the run moves on
\* from one position, to one of some others.
Moving(b, to) ==
  /\ Running(b)
  /\ Moved(b)
  /\ run'[b].pc \in to
  /\ JobsSound
  /\ lease' = lease
  /\ phase' = phase
  /\ keys' \in [Lane -> SUBSET Nat]
  /\ next' \in [Lane -> Nat]
  /\ cooldown' \in Nat
  /\ rest' \in Nat

LEMMA MovingKeeps ==
  ASSUME Exclusion, NEW b \in Invocation, NEW to, Moving(b, to)
  PROVE  Exclusion'
<1>1. Shapes'
  BY ShapesKept DEF Exclusion, Shapes, TypeOK, Moving, Moved
<1>2. LeaseInv'
  BY LeaseKept DEF Exclusion, Moving
<1> QED BY <1>1, <1>2 DEF Exclusion

LEMMA GotoMoving ==
  ASSUME Shapes, NEW b \in Invocation, Running(b), NEW pc \in Pcs, Goto(b, pc),
         JobsSound,
         lease' = lease, phase' = phase, keys' \in [Lane -> SUBSET Nat],
         next' \in [Lane -> Nat], cooldown' \in Nat, rest' \in Nat
  PROVE  Moving(b, {pc})
BY GotoMoves DEF Moving, Shapes

\* Where the row of an invocation, and its age, are natural numbers.
LEMMA RowFacts ==
  ASSUME BatchAssumption, TypeOK, NEW b \in Invocation
  PROVE  /\ run[b] \in RunRow
         /\ run[b].age \in 0..MaxRun /\ run[b].age \in Nat
         /\ run[b].index \in Nat
         /\ run[b].delay \in Nat
         /\ run[b].read \in Nat
         /\ run[b].lanes \subseteq Lane
<1>1. run[b] \in RunRow
  BY TypeParts
<1> QED BY <1>1, Bounds DEF RunRow

\* The loop goes on to the next job.
LEMMA LoopMoves ==
  ASSUME BatchAssumption, TypeOK, NEW b \in Invocation, NEW i \in Nat,
         run' = [run EXCEPT ![b] = LoopHead(run[b], i)]
  PROVE  Moved(b) /\ run'[b].pc \in {"picking", "releasing"}
<1>1. run[b] \in RunRow
  BY RowFacts
<1>2. /\ LoopHead(run[b], i) \in RunRow
      /\ LoopHead(run[b], i).age = run[b].age
      /\ LoopHead(run[b], i).pc \in {"picking", "releasing"}
  BY <1>1, LoopHeadIsRow
<1> DEFINE x == LoopHead(run[b], i)
<1> HIDE DEF x
<1>3. x \in RunRow /\ x.age = run[b].age /\ x.pc \in {"picking", "releasing"}
  BY <1>2 DEF x
<1>4. run' = [run EXCEPT ![b] = x]
  BY DEF x
<1> QED BY <1>3, <1>4, BecomesMoves

LEMMA EnqueueMoves ==
  ASSUME BatchAssumption, Shapes, NEW b \in Invocation, NEW l \in Lane, Enqueue(b, l)
  PROVE  Moving(b, {"enqueued"})
<1> USE DEF Shapes
<1>1. run[b] \in RunRow /\ run[b].age \in Nat
  BY RowFacts
<1>2. Moved(b) /\ run'[b].pc = "enqueued"
  <2> DEFINE x == [run[b] EXCEPT !.pc = "enqueued", !.lanes = {l}]
  <2>1. x \in RunRow /\ x.age = run[b].age /\ x.pc = "enqueued"
    BY <1>1 DEF RunRow, Pcs
  <2>2. run' = [run EXCEPT ![b] = x]
    BY DEF Enqueue
  <2> HIDE DEF x
  <2> QED BY <2>1, <2>2, BecomesMoves
<1> DEFINE row == Pending(0, Since(run[b].age))
<1>3. row \in JobRow /\ row.status = "pending" /\ row.attempts = 0
  <2>1. Since(run[b].age) \in Int /\ 0 \in 0..MaxAttempts
    BY <1>1, Bounds DEF Since
  <2> QED BY <2>1, PendingRow
<1>4. job' = [job EXCEPT ![l] = row] \/ job' = job
  BY DEF Enqueue
<1>5. JobsSound
  <2> HIDE DEF row
  <2>1. CASE job' = [job EXCEPT ![l] = row]
    BY <1>3, <2>1, TypeParts, Bounds DEF JobsSound, AttemptInv
  <2>2. CASE job' = job
    BY <2>2, SameJobs
  <2> QED BY <1>4, <2>1, <2>2
<1>6. keys' \in [Lane -> SUBSET Nat]
  <2>1. Back(l, run[b].age) \in Nat
    <3>1. Interval[l] \in Nat /\ Interval[l] > 0 /\ phase[l] \in Nat
      BY DEF BatchAssumption, TypeOK
    <3>2. CASE run[b].age <= phase[l]
      BY <3>2 DEF Back
    <3>3. CASE ~(run[b].age <= phase[l])
      <4> DEFINE n == run[b].age - phase[l] + Interval[l] - 1
      <4>1. n \in Nat
        BY <1>1, <3>1, <3>3
      <4>2. n \div Interval[l] \in Nat
        <5> HIDE DEF n
        <5> QED BY <3>1, <4>1, SMT
      <4> QED BY <3>3, <4>2 DEF Back
    <3> QED BY <3>2, <3>3
  <2> DEFINE i == Back(l, run[b].age)
  <2>2. keys' = [keys EXCEPT ![l] = @ \cup {i}] \/ keys' = keys
    BY DEF Enqueue
  <2>3. i \in Nat
    BY <2>1
  <2> HIDE DEF i
  <2>4. keys \in [Lane -> SUBSET Nat] /\ keys[l] \cup {i} \in SUBSET Nat
    BY <2>3 DEF TypeOK
  <2> QED BY <2>2, <2>4
<1> QED BY <1>2, <1>5, <1>6 DEF Moving, Enqueue, TypeOK, Running, At

LEMMA AdvanceMoves ==
  ASSUME BatchAssumption, Shapes, NEW b \in Invocation, NEW l \in Lane, Advance(b, l)
  PROVE  Moving(b, {"scheduling", "picking", "releasing"})
<1> USE DEF Shapes
<1>1. run[b] \in RunRow /\ run[b].age \in Nat
  BY RowFacts
<1>2. Moved(b) /\ run'[b].pc \in {"scheduling", "picking", "releasing"}
  <2> DEFINE r == [run[b] EXCEPT !.todo = @ \ {l}, !.lanes = {}]
             x == LaneDone(run[b], l)
  <2>1. r \in RunRow /\ r.age = run[b].age
    BY <1>1 DEF RunRow
  <2>2. run' = [run EXCEPT ![b] = x]
    BY DEF Advance
  <2>3. x = Scheduled(r)
    BY DEF LaneDone
  <2> HIDE DEF r, x
  <2>4. x \in RunRow /\ x.age = run[b].age /\ x.pc \in {"scheduling", "picking", "releasing"}
    BY <2>1, <2>3, ScheduledIsRow
  <2> QED BY <2>2, <2>4, BecomesMoves
<1>3. next' \in [Lane -> Nat]
  <2> DEFINE n == IF Interval[l] > run[b].age THEN Interval[l] - run[b].age ELSE 0
  <2>1. n \in Nat
    BY <1>1 DEF BatchAssumption
  <2>2. next' = [next EXCEPT ![l] = n]
    BY DEF Advance
  <2> HIDE DEF n
  <2> QED BY <2>1, <2>2 DEF TypeOK
<1>4. JobsSound
  BY SameJobs DEF Advance
<1> QED BY <1>2, <1>3, <1>4 DEF Moving, Advance, TypeOK, Running, At

LEMMA LookMoves ==
  ASSUME BatchAssumption, Shapes, NEW b \in Invocation, Look(b)
  PROVE  Moving(b, {"picking", "claiming"})
<1> USE DEF Shapes
<1>1. run[b] \in RunRow
  BY RowFacts
<1>2. Moved(b) /\ run'[b].pc \in {"picking", "claiming"}
  <2>1. CASE CoolingDown
    <3> DEFINE x == [run[b] EXCEPT !.order = Tail(@)]
    <3>1. Tail(run[b].order) \in Seq(Source)
      BY <1>1 DEF RunRow, Look
    <3>2. x \in RunRow /\ x.age = run[b].age /\ x.pc = "picking"
      BY <1>1, <3>1 DEF RunRow, Look, At
    <3>3. run' = [run EXCEPT ![b] = x]
      BY <2>1 DEF Look
    <3> HIDE DEF x
    <3> QED BY <3>2, <3>3, BecomesMoves
  <2>2. CASE ~CoolingDown
    <3>1. Goto(b, "claiming") /\ "claiming" \in Pcs
      BY <2>2 DEF Look, Pcs
    <3> QED BY <3>1, GotoMoves
  <2> QED BY <2>1, <2>2
<1> QED BY <1>2, SameJobs DEF Moving, Look, TypeOK, Running, At

\* What a claim chooses belongs to the source it asked for.
LEMMA ClaimMoves ==
  ASSUME BatchAssumption, Shapes, NEW b \in Invocation, NEW s \in Source, Claim(b, s)
  PROVE  /\ Moving(b, {"picking", "working"})
         /\ run'[b].pc = "working" => \A l \in run'[b].lanes : SourceOf[l] = s
<1> USE DEF Shapes
<1>1. run[b] \in RunRow
  BY RowFacts
<1>2. Running(b)
  BY DEF Claim, Choosing, Running, At
<1>3. CASE Claimable(Recycled, s) = {}
  <2> DEFINE x == [run[b] EXCEPT !.pc = "picking", !.order = Tail(@)]
  <2>1. Tail(run[b].order) \in Seq(Source)
    <3>1. run[b].order # <<>>
      BY DEF Claim, Choosing
    <3>2. run[b].order \in Seq(Source)
      BY <1>1 DEF RunRow
    <3> QED BY <3>1, <3>2
  <2>2. x \in RunRow /\ x.age = run[b].age /\ x.pc = "picking"
    BY <1>1, <2>1 DEF RunRow, Pcs
  <2>3. run' = [run EXCEPT ![b] = x]
    BY <1>3 DEF Claim
  <2>4. JobsSound
    BY <1>3, RecycledKeeps DEF Claim, JobsSound
  <2> HIDE DEF x
  <2>5. Moved(b) /\ run'[b].pc = "picking"
    BY <2>2, <2>3, BecomesMoves
  <2> QED BY <1>2, <2>4, <2>5 DEF Moving, Claim, TypeOK
<1>4. CASE Claimable(Recycled, s) # {}
  <2>1. PICK l \in First(Recycled, Claimable(Recycled, s)) :
          /\ job' = [Recycled EXCEPT ![l] = Leased(@, b)]
          /\ run' = [run EXCEPT ![b].pc = "working", ![b].lanes = {l}, ![b].order = <<>>]
    BY <1>4 DEF Claim
  <2>2. l \in Lane /\ SourceOf[l] = s /\ ~Exhausted(Recycled[l])
    BY <2>1 DEF First, Claimable
  <2>3. Recycled[l] \in JobRow /\ Recycled[l].attempts < MaxAttempts
    BY <2>2, RecycledKeeps, Bounds DEF Exhausted, JobRow
  <2>4. JobsSound
    <3> DEFINE row == Leased(Recycled[l], b)
    <3>1. row \in JobRow /\ row.status = "leased" /\ row.attempts >= 1
      BY <2>3, LeasedRow
    <3>2. job' = [Recycled EXCEPT ![l] = row]
      BY <2>1
    <3> HIDE DEF row
    <3> QED BY <2>2, <3>1, <3>2, RecycledKeeps DEF JobsSound
  <2> DEFINE x == [run[b] EXCEPT !.pc = "working", !.lanes = {l}, !.order = <<>>]
  <2>5. x \in RunRow /\ x.age = run[b].age /\ x.pc = "working" /\ x.lanes = {l}
    <3>1. <<>> \in Seq(Source) /\ {l} \in SUBSET Lane
      BY <2>2
    <3>2. "working" \in Pcs
      BY DEF Pcs
    <3> QED BY <1>1, <3>1, <3>2 DEF RunRow
  <2>6. run' = [run EXCEPT ![b] = x]
    BY <2>1
  <2> HIDE DEF x
  <2>7. Moved(b) /\ run'[b].pc = "working" /\ run'[b].lanes = {l}
    BY <2>5, <2>6, BecomesMoves
  <2> QED BY <1>2, <2>2, <2>4, <2>7 DEF Moving, Claim, TypeOK
<1> QED BY <1>3, <1>4

LEMMA NothingLeftMoves ==
  ASSUME BatchAssumption, Shapes, NEW b \in Invocation, NothingLeft(b)
  PROVE  Moving(b, {"releasing"})
<1>1. Goto(b, "releasing") /\ "releasing" \in Pcs /\ Running(b)
  BY DEF NothingLeft, Pcs, Running, At
<1> QED BY <1>1, GotoMoving, SameJobs DEF NothingLeft, Shapes, TypeOK

LEMMA WorkMoves ==
  ASSUME BatchAssumption, Shapes, NEW b \in Invocation, NEW l \in Lane, Work(b, l)
  PROVE  Moving(b, {"worked"})
<1>1. Goto(b, "worked") /\ "worked" \in Pcs /\ Running(b)
  BY DEF Work, Pcs, Running, At
<1>2. next' \in [Lane -> Nat]
  BY DEF Work, Shapes, TypeOK, BatchAssumption
<1> QED BY <1>1, <1>2, GotoMoving, SameJobs DEF Work, Shapes, TypeOK

LEMMA CompleteMoves ==
  ASSUME BatchAssumption, Shapes, NEW b \in Invocation, NEW l \in Lane, Complete(b, l)
  PROVE  Moving(b, {"recording"})
<1>1. Goto(b, "recording") /\ "recording" \in Pcs /\ Running(b)
  BY DEF Complete, Pcs, Running, At
<1>2. JobsSound
  BY OneJob, NoJobIsRow DEF Complete, NoJob
<1> QED BY <1>1, <1>2, GotoMoving DEF Complete, Shapes, TypeOK

\* What an owner with a live lease knows of its job.
LEMMA OwnRow ==
  ASSUME BatchAssumption, Shapes, NEW b \in Invocation, NEW l \in Lane, LiveLease(l, b)
  PROVE  job[l].attempts \in 0..MaxAttempts /\ job[l].attempts >= 1
BY TypeParts DEF Shapes, AttemptInv, LiveLease, JobRow

LEMMA YieldMoves ==
  ASSUME BatchAssumption, Shapes, NEW b \in Invocation, NEW l \in Lane, Yield(b, l)
  PROVE  Moving(b, {"recording", "picking", "releasing"})
<1>1. Running(b) /\ "recording" \in Pcs
  BY DEF Yield, Pcs, Running, At
<1>2. JobsSound
  <2> DEFINE n == job[l].attempts - 1
             row == Pending(n, Continue)
  <2>1. n \in 0..MaxAttempts /\ n < MaxAttempts
    BY OwnRow, Bounds DEF Yield
  <2>2. Continue \in Int
    BY Bounds
  <2>3. job' = [job EXCEPT ![l] = row]
    BY DEF Yield
  <2> HIDE DEF n
  <2>4. row \in JobRow /\ row.status = "pending" /\ row.attempts = n
    BY <2>1, <2>2, PendingRow
  <2> HIDE DEF row
  <2> QED BY <2>1, <2>3, <2>4, OneJob
<1>3. CASE Goto(b, "recording")
  BY <1>1, <1>2, <1>3, GotoMoves DEF Moving, Yield, Shapes, TypeOK
<1>4. CASE run' = [run EXCEPT ![b] = LoopHead(@, @.index + 1)]
  <2>1. run[b].index + 1 \in Nat
    BY RowFacts DEF Shapes
  <2>2. run' = [run EXCEPT ![b] = LoopHead(run[b], run[b].index + 1)]
    BY <1>4
  <2>3. Moved(b) /\ run'[b].pc \in {"picking", "releasing"}
    BY <2>1, <2>2, LoopMoves DEF Shapes
  <2> QED BY <1>1, <1>2, <2>3 DEF Moving, Yield, Shapes, TypeOK
<1> QED BY <1>3, <1>4 DEF Yield

LEMMA FailMoves ==
  ASSUME BatchAssumption, Shapes, NEW b \in Invocation, NEW l \in Lane, Fail(b, l)
  PROVE  Moving(b, {"recording"})
<1>1. Goto(b, "recording") /\ "recording" \in Pcs /\ Running(b)
  BY DEF Fail, Pcs, Running, At
<1>2. CASE job' = [job EXCEPT ![l] = NoJob]
  <2>1. JobsSound
    BY <1>2, OneJob, NoJobIsRow DEF NoJob
  <2> QED BY <1>1, <2>1, GotoMoving DEF Fail, Shapes, TypeOK
<1>3. CASE ~Exhausted(job[l]) /\ \E delay \in RetryMs :
             job' = [job EXCEPT ![l] = Pending(@.attempts, delay)]
  <2>1. PICK delay \in RetryMs : job' = [job EXCEPT ![l] = Pending(job[l].attempts, delay)]
    BY <1>3
  <2> DEFINE n == job[l].attempts
             row == Pending(n, delay)
  <2>2. n \in 0..MaxAttempts /\ n < MaxAttempts /\ delay \in Int
    BY <1>3, OwnRow, Bounds DEF Fail, Exhausted, BatchAssumption
  <2>3. job' = [job EXCEPT ![l] = row]
    BY <2>1
  <2> HIDE DEF n
  <2>4. row \in JobRow /\ row.status = "pending" /\ row.attempts = n
    BY <2>2, PendingRow
  <2> HIDE DEF row
  <2>5. JobsSound
    BY <2>2, <2>3, <2>4, OneJob
  <2> QED BY <1>1, <2>5, GotoMoving DEF Fail, Shapes, TypeOK
<1> QED BY <1>2, <1>3 DEF Fail

LEMMA RateLimitedMoves ==
  ASSUME BatchAssumption, Shapes, NEW b \in Invocation, NEW delay \in RestMs,
         RateLimited(b, delay)
  PROVE  Moving(b, {"limited"}) /\ run'[b].delay = delay
<1>1. run[b] \in RunRow /\ delay \in Nat
  BY RowFacts DEF Shapes, BatchAssumption
<1> DEFINE x == [run[b] EXCEPT !.pc = "limited", !.delay = delay]
<1>2. x \in RunRow /\ x.age = run[b].age /\ x.pc = "limited" /\ x.delay = delay
  BY <1>1 DEF RunRow, Pcs
<1>3. run' = [run EXCEPT ![b] = x]
  BY DEF RateLimited
<1> HIDE DEF x
<1>4. Moved(b) /\ run'[b].pc = "limited" /\ run'[b].delay = delay
  BY <1>2, <1>3, BecomesMoves DEF Shapes
<1>5. rest' \in Nat
  BY <1>1 DEF RateLimited, Shapes, TypeOK
<1> QED BY <1>4, <1>5, SameJobs DEF Moving, RateLimited, Shapes, TypeOK, Running, At

LEMMA SaveCooldownMoves ==
  ASSUME BatchAssumption, Shapes, NEW b \in Invocation, SaveCooldown(b)
  PROVE  Moving(b, {"saved"})
<1>1. cooldown' \in Nat
  BY RowFacts DEF SaveCooldown, Shapes
<1>2. "saved" \in Pcs /\ Running(b)
  BY DEF Pcs, SaveCooldown, Running, At
<1> QED BY <1>1, <1>2, GotoMoving, SameJobs DEF SaveCooldown, Shapes, TypeOK

LEMMA FailLimitedMoves ==
  ASSUME BatchAssumption, Shapes, NEW b \in Invocation, NEW l \in Lane, FailLimited(b, l)
  PROVE  Moving(b, {"recording"})
<1>1. run[b] \in RunRow /\ run[b].delay \in Nat /\ JobLimit \in 0..JobLimit
  BY RowFacts, Bounds DEF Shapes
<1> DEFINE x == [run[b] EXCEPT !.pc = "recording", !.index = JobLimit]
<1>2. x \in RunRow /\ x.age = run[b].age /\ x.pc = "recording"
  BY <1>1 DEF RunRow, Pcs
<1>3. run' = [run EXCEPT ![b] = x]
  BY DEF FailLimited
<1> HIDE DEF x
<1>4. Moved(b) /\ run'[b].pc = "recording"
  BY <1>2, <1>3, BecomesMoves DEF Shapes
<1>5. JobsSound
  <2>1. CASE Exhausted(job[l])
    BY <2>1, OneJob, NoJobIsRow DEF FailLimited, NoJob
  <2>2. CASE ~Exhausted(job[l])
    <3> DEFINE n == job[l].attempts
               row == Pending(n, run[b].delay)
    <3>1. n \in 0..MaxAttempts /\ n < MaxAttempts /\ run[b].delay \in Int
      BY <1>1, <2>2, OwnRow, Bounds DEF FailLimited, Exhausted
    <3>2. job' = [job EXCEPT ![l] = row]
      BY <2>2 DEF FailLimited
    <3> HIDE DEF n
    <3>3. row \in JobRow /\ row.status = "pending" /\ row.attempts = n
      BY <3>1, PendingRow
    <3> HIDE DEF row
    <3> QED BY <3>1, <3>2, <3>3, OneJob
  <2> QED BY <2>1, <2>2
<1> QED BY <1>4, <1>5 DEF Moving, FailLimited, Shapes, TypeOK, Running, At

LEMMA RecordMoves ==
  ASSUME BatchAssumption, Shapes, NEW b \in Invocation, NEW l \in Lane, Record(b, l)
  PROVE  Moving(b, {"writing"})
<1>1. run[b] \in RunRow /\ next[l] \in Nat
  BY RowFacts DEF Shapes, TypeOK
<1> DEFINE x == [run[b] EXCEPT !.pc = "writing", !.read = next[l]]
<1>2. x \in RunRow /\ x.age = run[b].age /\ x.pc = "writing"
  BY <1>1 DEF RunRow, Pcs
<1>3. run' = [run EXCEPT ![b] = x]
  BY DEF Record
<1> HIDE DEF x
<1>4. Moved(b) /\ run'[b].pc = "writing"
  BY <1>2, <1>3, BecomesMoves DEF Shapes
<1> QED BY <1>4, SameJobs DEF Moving, Record, Shapes, TypeOK, Running, At

LEMMA WriteBackMoves ==
  ASSUME BatchAssumption, Shapes, NEW b \in Invocation, NEW l \in Lane, WriteBack(b, l)
  PROVE  Moving(b, {"picking", "releasing"})
<1>1. run[b].read \in Nat /\ run[b].index + 1 \in Nat
  BY RowFacts DEF Shapes
<1>2. run' = [run EXCEPT ![b] = LoopHead(run[b], run[b].index + 1)]
  BY DEF WriteBack
<1>3. Moved(b) /\ run'[b].pc \in {"picking", "releasing"}
  BY <1>1, <1>2, LoopMoves DEF Shapes
<1>4. next' \in [Lane -> Nat]
  BY <1>1 DEF WriteBack, Shapes, TypeOK
<1> QED BY <1>3, <1>4, SameJobs DEF Moving, WriteBack, Shapes, TypeOK, Running, At

\* A deadline or an error sends the run to its end.
LEMMA CutMoves ==
  ASSUME BatchAssumption, Shapes, NEW b \in Invocation, Deadline(b) \/ Fault(b)
  PROVE  Moving(b, {"releasing"})
<1>1. Goto(b, "releasing") /\ "releasing" \in Pcs /\ Running(b)
  BY DEF Deadline, Fault, Pcs, Running, At
<1>2. rest' \in Nat
  BY DEF Deadline, Fault, Unasked, Shapes, TypeOK
<1> QED BY <1>1, <1>2, GotoMoving, SameJobs DEF Deadline, Fault, Shapes, TypeOK

-----------------------------------------------------------------------------
(* Beginnings, ends and time.                                              *)

LEMMA InvokeKeeps ==
  ASSUME BatchAssumption, Exclusion, NEW b \in Invocation, NEW lead \in Source,
         Invoke(b, lead)
  PROVE  /\ Exclusion'
         /\ \A c \in Invocation \ {b} : run'[c] = run[c]
         /\ run'[b].pc \in {"scheduling", "picking", "releasing"}
<1> USE DEF Exclusion, Shapes
<1> DEFINE r == [Off EXCEPT !.lead = lead, !.todo = DueLanes]
           x == Scheduled(r)
<1>1. r \in RunRow /\ r.age = 0
  <2>1. DueLanes \in SUBSET Lane
    BY DEF DueLanes
  <2>2. Off.age = 0
    BY DEF Off
  <2> QED BY <2>1, <2>2, OffIsRow DEF RunRow
<1>2. run' = [run EXCEPT ![b] = x]
  BY DEF Invoke
<1> HIDE DEF r
<1>3. x \in RunRow /\ x.age = 0 /\ x.pc \in {"scheduling", "picking", "releasing"}
  BY <1>1, ScheduledIsRow
<1> HIDE DEF x
<1>4. run[b].age \in Nat
  BY RowFacts
<1>5. /\ run' \in [Invocation -> RunRow]
      /\ run'[b] = x
      /\ \A c \in Invocation \ {b} : run'[c] = run[c]
  BY <1>2, <1>3, TypeParts
<1>6. lease' = [owner |-> b, expires |-> LeaseMs]
  BY DEF Invoke
<1>7. Shapes'
  <2>1. lease' \in [owner : Invocation \cup {NoInvocation}, expires : 0..LeaseMs]
    BY <1>6, Bounds
  <2> QED BY <1>5, <2>1, SameJobs, ShapesKept DEF Invoke, TypeOK
<1>8. LeaseInv'
  <2> SUFFICES ASSUME NEW c \in Invocation, Running(c)', run'[c].age < LeaseMs
               PROVE  lease'.owner = c /\ lease'.expires = LeaseMs - run'[c].age
    BY DEF LeaseInv
  <2>1. CASE c = b
    BY <2>1, <1>3, <1>5, <1>6, Bounds
  <2>2. CASE c # b
    <3>1. Running(c) /\ run[c].age < LeaseMs
      BY <2>2, <1>5 DEF Running, At
    <3>2. lease.expires = LeaseMs - run[c].age
      BY <3>1 DEF LeaseInv
    <3>3. run[c].age \in Nat
      BY RowFacts
    <3>4. lease.expires <= 0
      BY DEF Invoke, LeaseFree
    <3> QED BY <3>1, <3>2, <3>3, <3>4, Bounds
  <2> QED BY <2>1, <2>2
<1> QED BY <1>3, <1>5, <1>7, <1>8

LEMMA EndKeeps ==
  ASSUME BatchAssumption, Exclusion, NEW b \in Invocation, Release(b) \/ Crash(b)
  PROVE  /\ Exclusion'
         /\ \A c \in Invocation \ {b} : run'[c] = run[c]
         /\ run'[b].pc = "off"
<1> USE DEF Exclusion, Shapes
<1>1. /\ run' = [run EXCEPT ![b] = Off]
      /\ job' = Disowned(b)
      /\ lease' = lease \/ (lease.owner = b /\ lease' \in
           [owner : Invocation \cup {NoInvocation}, expires : 0..LeaseMs])
  <2>1. lease.expires \in 0..LeaseMs /\ 0 \in 0..LeaseMs
    BY Bounds DEF TypeOK
  <2> QED BY <2>1 DEF Release, Crash, End, TypeOK
<1>2. /\ run' \in [Invocation -> RunRow]
      /\ run'[b] = Off
      /\ \A c \in Invocation \ {b} : run'[c] = run[c]
  BY <1>1, OffIsRow, TypeParts
<1>3. Off.pc = "off"
  BY DEF Off
<1>4. JobsSound
  <2>1. \A l \in Lane : /\ Disowned(b)[l] \in JobRow
                        /\ Disowned(b)[l].status = job[l].status
                        /\ Disowned(b)[l].attempts = job[l].attempts
    <3> TAKE l \in Lane
    <3>1. job[l] \in JobRow
      BY TypeParts
    <3>2. [job[l] EXCEPT !.owner = NoInvocation] \in JobRow
      BY <3>1 DEF JobRow
    <3> QED BY <3>1, <3>2 DEF Disowned, JobRow
  <2>2. Disowned(b) \in [Lane -> JobRow]
    BY <2>1 DEF Disowned
  <2> QED BY <1>1, <2>1, <2>2 DEF JobsSound, AttemptInv
<1>5. Shapes'
  <2>1. /\ lease' \in [owner : Invocation \cup {NoInvocation}, expires : 0..LeaseMs]
        /\ rest' \in Nat
    BY <1>1 DEF Release, Crash, Unasked, TypeOK
  <2>2. phase' = phase /\ keys' = keys /\ next' = next /\ cooldown' = cooldown
    BY DEF Release, Crash
  <2> QED BY <1>2, <1>4, <2>1, <2>2, ShapesKept DEF TypeOK
<1>6. LeaseInv'
  <2> SUFFICES ASSUME NEW c \in Invocation, Running(c)', run'[c].age < LeaseMs
               PROVE  lease'.owner = c /\ lease'.expires = LeaseMs - run'[c].age
    BY DEF LeaseInv
  <2>1. c # b
    BY <1>2, <1>3 DEF Running, At
  <2>2. run'[c] = run[c] /\ Running(c)
    BY <1>2, <2>1 DEF Running, At
  <2>3. lease.owner = c /\ lease.expires = LeaseMs - run[c].age
    BY <2>2 DEF LeaseInv
  <2>4. lease' = lease
    BY <1>1, <2>1, <2>3
  <2> QED BY <2>2, <2>3, <2>4
<1> QED BY <1>2, <1>3, <1>5, <1>6

LEMMA TickKeeps ==
  ASSUME BatchAssumption, Exclusion, Tick
  PROVE  Exclusion'
<1> USE DEF Exclusion, Shapes
<1>1. \A t \in Int : Older(t) \in Int /\ (t \in Nat => Remaining(t) \in Nat /\ Remaining(t) <= t)
  BY Bounds DEF Older, Remaining
<1>2. \A b \in Invocation :
        /\ run'[b] \in RunRow
        /\ run'[b].pc = run[b].pc
        /\ Running(b) => run'[b].age = run[b].age + 1
  <2> TAKE b \in Invocation
  <2>1. /\ run[b] \in RunRow /\ run[b].age \in Nat /\ run[b].age < MaxRun
        /\ run[b].read \in Nat
    BY RowFacts DEF Tick
  <2>2. CASE Running(b)
    <3> DEFINE x == [run[b] EXCEPT !.age = @ + 1, !.read = Remaining(@)]
    <3>1. run'[b] = x
      BY <2>2 DEF Tick
    <3>2. run[b].age + 1 \in 0..MaxRun
      BY <2>1, Bounds
    <3>3. Remaining(run[b].read) \in Nat
      BY <1>1, <2>1
    <3> QED BY <2>1, <3>1, <3>2, <3>3 DEF RunRow
  <2>3. CASE ~Running(b)
    <3>1. run'[b] = run[b]
      BY <2>3 DEF Tick
    <3> QED BY <2>1, <2>3, <3>1
  <2> QED BY <2>2, <2>3
<1>3. run' \in [Invocation -> RunRow]
  BY <1>2 DEF Tick
<1>4. JobsSound
  <2>1. \A l \in Lane :
          /\ job'[l] \in JobRow
          /\ job'[l].status = job[l].status
          /\ job[l].status # "none" => job'[l].attempts = job[l].attempts
    <3> TAKE l \in Lane
    <3>1. job[l] \in JobRow
      BY TypeParts
    <3>2. CASE job[l].status = "none"
      <4>1. job'[l] = NoJob
        BY <3>2 DEF Tick
      <4> QED BY <3>2, <4>1, NoJobIsRow DEF NoJob
    <3>3. CASE job[l].status # "none"
      <4>1. job'[l] = [job[l] EXCEPT !.due = Older(@), !.expires = Remaining(@)]
        BY <3>3 DEF Tick
      <4>2. Older(job[l].due) \in Int /\ Remaining(job[l].expires) \in Int
        BY <3>1, <1>1 DEF JobRow, Remaining
      <4> QED BY <3>1, <4>1, <4>2 DEF JobRow
    <3> QED BY <3>2, <3>3
  <2>2. job' \in [Lane -> JobRow]
    BY <2>1 DEF Tick
  <2> QED BY <2>1, <2>2 DEF JobsSound, AttemptInv
<1>5. lease' \in [owner : Invocation \cup {NoInvocation}, expires : 0..LeaseMs]
  <2>1. lease \in [owner : Invocation \cup {NoInvocation}, expires : 0..LeaseMs]
    BY DEF TypeOK
  <2>2. Remaining(lease.expires) \in 0..LeaseMs
    BY <2>1, Bounds DEF Remaining
  <2> QED BY <2>1, <2>2 DEF Tick
<1>6. phase' \in [Lane -> Nat]
  <2>1. \A l \in Lane : (phase[l] + 1) % Interval[l] \in Nat
    <3> TAKE l \in Lane
    <3>1. Interval[l] \in Nat /\ Interval[l] > 0 /\ phase[l] \in Nat
      BY DEF BatchAssumption, TypeOK
    <3> QED BY <3>1, SMT
  <2> QED BY <2>1 DEF Tick
<1>7. keys' \in [Lane -> SUBSET Nat]
  <2>1. keys \in [Lane -> SUBSET Nat]
    BY DEF TypeOK
  <2>2. \A l \in Lane : {i \in {k + 1 : k \in keys[l]} : i <= Back(l, MaxRun)} \in SUBSET Nat
    BY <2>1
  <2> QED BY <2>1, <2>2 DEF Tick
<1>8. next' \in [Lane -> Nat] /\ cooldown' \in Nat /\ rest' \in Nat
  <2>1. next \in [Lane -> Nat] /\ cooldown \in Nat /\ rest \in Nat
    BY DEF TypeOK
  <2>2. \A t \in Nat : Remaining(t) \in Nat
    BY <1>1
  <2> QED BY <2>1, <2>2 DEF Tick
<1>9. Shapes'
  BY <1>3, <1>4, <1>5, <1>6, <1>7, <1>8, ShapesKept
<1>10. LeaseInv'
  <2> SUFFICES ASSUME NEW b \in Invocation, Running(b)', run'[b].age < LeaseMs
               PROVE  lease'.owner = b /\ lease'.expires = LeaseMs - run'[b].age
    BY DEF LeaseInv
  <2>1. Running(b) /\ run'[b].age = run[b].age + 1 /\ run[b].age \in Nat
    BY <1>2, RowFacts DEF Running, At
  <2>2. run[b].age < LeaseMs
    BY <2>1, Bounds
  <2>3. lease.owner = b /\ lease.expires = LeaseMs - run[b].age
    BY <2>1, <2>2 DEF LeaseInv
  <2>4. lease'.owner = lease.owner /\ lease'.expires = Remaining(lease.expires)
    BY DEF Tick, TypeOK
  <2> QED BY <2>1, <2>2, <2>3, <2>4, Bounds DEF Remaining
<1> QED BY <1>9, <1>10

-----------------------------------------------------------------------------
(* All steps together.                                                     *)

LEMMA InitExclusion ==
  ASSUME BatchAssumption, Init
  PROVE  Exclusion /\ SteamInv
<1>1. 0 \in 0..LeaseMs /\ NoInvocation \in Invocation \cup {NoInvocation}
  BY Bounds
<1>2. run \in [Invocation -> RunRow] /\ job \in [Lane -> JobRow]
  BY OffIsRow, NoJobIsRow DEF Init
<1>3. TypeOK
  BY <1>1, <1>2 DEF Init, TypeOK, RunRow, JobRow
<1>4. AttemptInv
  BY DEF Init, AttemptInv, NoJob
<1>5. \A b \in Invocation : run[b].pc = "off"
  BY DEF Init, Off
<1>6. LeaseInv
  BY <1>5 DEF LeaseInv, Running, At
<1>7. SteamInv
  BY <1>5 DEF SteamInv, Covered, Begun, AtSteam, At, AtWork, Init
<1> QED BY <1>3, <1>4, <1>6, <1>7 DEF Exclusion, Shapes

LEMMA StepMoves ==
  ASSUME BatchAssumption, Shapes, NEW b \in Invocation, Step(b), ~Release(b)
  PROVE  \E to : Moving(b, to)
<1>1. ASSUME NEW l \in Lane,
             \/ Enqueue(b, l) \/ Advance(b, l) \/ Work(b, l) \/ Complete(b, l)
             \/ Yield(b, l) \/ Fail(b, l) \/ FailLimited(b, l)
             \/ Record(b, l) \/ WriteBack(b, l)
      PROVE  \E to : Moving(b, to)
  BY <1>1, EnqueueMoves, AdvanceMoves, WorkMoves, CompleteMoves, YieldMoves,
     FailMoves, FailLimitedMoves, RecordMoves, WriteBackMoves
<1>2. ASSUME NEW s \in Source, Claim(b, s)
      PROVE  \E to : Moving(b, to)
  BY <1>2, ClaimMoves
<1>3. ASSUME NEW delay \in RestMs, RateLimited(b, delay)
      PROVE  \E to : Moving(b, to)
  BY <1>3, RateLimitedMoves
<1>5. CASE SaveCooldown(b)
  BY <1>5, SaveCooldownMoves
<1>4. ASSUME Look(b) \/ NothingLeft(b)
      PROVE  \E to : Moving(b, to)
  BY <1>4, LookMoves, NothingLeftMoves
<1> QED BY <1>1, <1>2, <1>3, <1>4, <1>5 DEF Step

LEMMA NextExclusion ==
  ASSUME BatchAssumption, Exclusion, [Next]_vars
  PROVE  Exclusion'
<1>1. ASSUME NEW b \in Invocation, NEW lead \in Source, Invoke(b, lead)
      PROVE  Exclusion'
  BY <1>1, InvokeKeeps
<1>2. ASSUME NEW b \in Invocation, Step(b), ~Release(b)
      PROVE  Exclusion'
  <2>1. PICK to : Moving(b, to)
    BY <1>2, StepMoves DEF Exclusion
  <2> QED BY <2>1, MovingKeeps
<1>3. ASSUME NEW b \in Invocation, Release(b) \/ Crash(b)
      PROVE  Exclusion'
  BY <1>3, EndKeeps
<1>4. ASSUME NEW b \in Invocation, Deadline(b) \/ Fault(b)
      PROVE  Exclusion'
  BY <1>4, CutMoves, MovingKeeps DEF Exclusion
<1>5. CASE Tick
  BY <1>5, TickKeeps
<1>6. CASE UNCHANGED vars
  BY <1>6 DEF vars, Exclusion, Shapes, TypeOK, AttemptInv, LeaseInv, Running, At
<1> QED BY <1>1, <1>2, <1>3, <1>4, <1>5, <1>6 DEF Next, Invoked, Cut, OutOfTime

\* Where no run outlives its lease, at most one runs.
LEMMA Sole ==
  ASSUME BatchAssumption, Exclusion, MaxRun < LeaseMs,
         NEW b \in Invocation, NEW c \in Invocation, Running(b), Running(c)
  PROVE  b = c
<1>1. run[b].age < LeaseMs /\ run[c].age < LeaseMs
  BY RowFacts, Bounds DEF Exclusion, Shapes
<1> QED BY <1>1 DEF Exclusion, LeaseInv

\* So what an invocation at work on Steam was to leave alone is over.
LEMMA Rested ==
  ASSUME BatchAssumption, Exclusion, SteamInv, MaxRun < LeaseMs,
         NEW b \in Invocation, AtWork(b)
  PROVE  rest = 0 /\ cooldown = 0
<1>1. cooldown = 0
  BY DEF SteamInv, Begun, AtSteam
<1>2. ASSUME NEW c \in Invocation, At(c, "limited")
      PROVE  FALSE
  <2>1. c = b
    BY <1>2, Sole DEF Running, At, AtWork
  <2> QED BY <1>2, <2>1 DEF At, AtWork
<1>3. rest \in Nat
  BY DEF Exclusion, Shapes, TypeOK
<1> QED BY <1>1, <1>2, <1>3 DEF SteamInv, Covered

\* A lane's step away from Steam, or towards it through the cooldown check.
LEMMA StepSteam ==
  ASSUME BatchAssumption, Exclusion, SteamInv, MaxRun < LeaseMs,
         NEW b \in Invocation, Step(b), ~Release(b)
  PROVE  SteamInv'
<1> USE DEF Exclusion, Shapes
<1>1. cooldown \in Nat /\ rest \in Nat
  BY DEF TypeOK
<1>2. ASSUME NEW to \in SUBSET (Pcs \ {"claiming", "working", "worked", "limited"}),
             Moving(b, to), ~At(b, "limited"), cooldown' = cooldown, rest' = rest
      PROVE  SteamInv'
  BY <1>2, SteamKept DEF Moving, Moved, AtWork
<1>3. ASSUME NEW l \in Lane, Enqueue(b, l) \/ Advance(b, l)
      PROVE  SteamInv'
  BY <1>2, <1>3, EnqueueMoves, AdvanceMoves DEF Enqueue, Advance, Pcs, At
<1>4. ASSUME NEW l \in Lane, Work(b, l)
      PROVE  SteamInv'
  <2>1. Moved(b) /\ run'[b].pc = "worked"
    BY <1>4, WorkMoves DEF Moving
  <2>2. run'[b].lanes = run[b].lanes /\ run[b].pc = "working"
    BY <1>4, GotoMoves DEF Work, At, Pcs
  <2>3. cooldown' = cooldown /\ rest' = rest
    BY <1>4 DEF Work
  <2>4. Covered'
    BY <2>1, <2>2, <2>3, CoveredKept DEF SteamInv, Moved, At
  <2>5. ASSUME NEW c \in Invocation, AtSteam(c)'
        PROVE  cooldown' = 0
    <3>1. CASE c = b
      <4>1. AtWork(b)
        BY <2>1, <2>2, <2>5, <3>1 DEF AtSteam, At, AtWork
      <4> QED BY <2>3, <4>1 DEF SteamInv, Begun, AtSteam
    <3>2. CASE c # b
      <4>1. run'[c] = run[c]
        BY <2>1, <3>2 DEF Moved
      <4> QED BY <2>3, <2>5, <4>1 DEF SteamInv, Begun, AtSteam, At, AtWork
    <3> QED BY <3>1, <3>2
  <2> QED BY <2>4, <2>5 DEF SteamInv, Begun
<1>5. ASSUME NEW l \in Lane, Complete(b, l) \/ Yield(b, l) \/ Fail(b, l)
      PROVE  SteamInv'
  BY <1>2, <1>5, CompleteMoves, YieldMoves, FailMoves
     DEF Complete, Yield, Fail, Pcs, At
<1>6. ASSUME NEW l \in Lane, Record(b, l) \/ WriteBack(b, l)
      PROVE  SteamInv'
  BY <1>2, <1>6, RecordMoves, WriteBackMoves DEF Record, WriteBack, Pcs, At
<1>7. ASSUME NothingLeft(b)
      PROVE  SteamInv'
  BY <1>2, <1>7, NothingLeftMoves DEF NothingLeft, Pcs, At
<1>8. ASSUME NEW l \in Lane, FailLimited(b, l)
      PROVE  SteamInv'
  BY <1>2, <1>8, FailLimitedMoves DEF FailLimited, Pcs, At
<1>9. ASSUME Look(b)
      PROVE  SteamInv'
  <2>1. Moved(b) /\ run'[b].pc \in {"picking", "claiming"}
    BY <1>9, LookMoves DEF Moving
  <2>2. cooldown' = cooldown /\ rest' = rest /\ ~At(b, "limited")
    BY <1>9 DEF Look, At
  <2>3. CASE CoolingDown
    <3>1. run'[b].pc = "picking"
      BY <1>9, <2>3, TypeParts DEF Look, At, RunRow
    <3> QED BY <2>1, <2>2, <3>1, SteamKept DEF Moved, AtWork
  <2>4. CASE ~CoolingDown
    <3>1. cooldown' = 0
      BY <1>1, <2>2, <2>4 DEF CoolingDown
    <3>2. Covered'
      BY <2>1, <2>2, CoveredKept DEF SteamInv, Moved
    <3> QED BY <3>1, <3>2 DEF SteamInv, Begun
  <2> QED BY <2>3, <2>4
<1>10. ASSUME NEW s \in Source, Claim(b, s)
       PROVE  SteamInv'
  <2>1. /\ Moved(b) /\ run'[b].pc \in {"picking", "working"}
        /\ run'[b].pc = "working" => \A l \in run'[b].lanes : SourceOf[l] = s
    BY <1>10, ClaimMoves DEF Moving
  <2>2. cooldown' = cooldown /\ rest' = rest /\ ~At(b, "limited")
    BY <1>10 DEF Claim, Choosing, At
  <2>3. s = "steam" => cooldown = 0
    BY <1>10 DEF Claim, Choosing, SteamInv, Begun, AtSteam
  <2>4. Covered'
    BY <2>1, <2>2, CoveredKept DEF SteamInv, Moved
  <2>5. ASSUME NEW c \in Invocation, AtSteam(c)'
        PROVE  cooldown' = 0
    <3>1. CASE c = b
      BY <2>1, <2>2, <2>3, <2>5, <3>1 DEF AtSteam, At, AtWork
    <3>2. CASE c # b
      <4>1. run'[c] = run[c]
        BY <2>1, <3>2 DEF Moved
      <4> QED BY <2>2, <2>5, <4>1 DEF SteamInv, Begun, AtSteam, At, AtWork
    <3> QED BY <3>1, <3>2
  <2> QED BY <2>4, <2>5 DEF SteamInv, Begun
<1>11. ASSUME NEW delay \in RestMs, RateLimited(b, delay)
       PROVE  SteamInv'
  <2>1. Moved(b) /\ run'[b].pc = "limited" /\ run'[b].delay = delay
    BY <1>11, RateLimitedMoves DEF Moving
  <2>2. rest = 0 /\ cooldown = 0
    <3>1. AtWork(b)
      BY <1>11 DEF RateLimited, AtWork, At
    <3> QED BY <3>1, Rested
  <2>3. rest' = delay /\ cooldown' = cooldown /\ delay \in Nat
    BY <1>11, <2>2 DEF RateLimited, BatchAssumption
  <2>4. Covered'
    BY <2>1, <2>3 DEF Covered, At
  <2>5. Begun'
    BY <2>2, <2>3 DEF Begun
  <2> QED BY <2>4, <2>5 DEF SteamInv
<1>12. CASE SaveCooldown(b)
  <2>1. Running(b) /\ Moved(b) /\ run'[b].pc = "saved"
    BY <1>12, SaveCooldownMoves DEF Moving
  <2>2. ASSUME NEW c \in Invocation, c # b
        PROVE  run[c].pc = "off" /\ run'[c].pc = "off"
    BY <2>1, <2>2, Sole DEF Moved, Running, At
  <2>3. cooldown' = run[b].delay /\ rest' = rest /\ At(b, "limited")
    BY <1>12 DEF SaveCooldown
  <2>4. rest' <= cooldown'
    <3>1. rest <= run[b].delay \/ rest <= cooldown
      BY <2>2 DEF SteamInv, Covered, At
    <3>2. CASE rest <= run[b].delay
      BY <2>3, <3>2
    <3>3. CASE rest <= cooldown
      <4>1. cooldown = 0
        BY <2>3 DEF SteamInv, Begun, AtSteam
      <4>2. run[b].delay \in Nat
        BY RowFacts
      <4> QED BY <1>1, <2>3, <3>3, <4>1, <4>2
    <3> QED BY <3>1, <3>2, <3>3
  <2>5. \A c \in Invocation : ~AtSteam(c)'
    BY <2>1, <2>2 DEF AtSteam, At, AtWork
  <2> QED BY <2>4, <2>5 DEF SteamInv, Covered, Begun
<1> QED BY <1>3, <1>4, <1>5, <1>6, <1>7, <1>8, <1>9, <1>10, <1>11, <1>12 DEF Step

LEMMA NextSteam ==
  ASSUME BatchAssumption, Exclusion, SteamInv, MaxRun < LeaseMs, [Next]_vars
  PROVE  SteamInv'
<1> USE DEF Exclusion, Shapes
<1>1. ASSUME NEW b \in Invocation, NEW lead \in Source, Invoke(b, lead)
      PROVE  SteamInv'
  BY <1>1, InvokeKeeps, SteamKept DEF Invoke, AtWork, At
<1>2. ASSUME NEW b \in Invocation, Step(b), ~Release(b)
      PROVE  SteamInv'
  BY <1>2, StepSteam
<1>3. ASSUME NEW b \in Invocation, Release(b)
      PROVE  SteamInv'
  BY <1>3, EndKeeps, SteamKept DEF Release, AtWork, At
<1>4. ASSUME NEW b \in Invocation, Deadline(b)
      PROVE  SteamInv'
  <2>1. Moved(b) /\ run'[b].pc = "releasing"
    BY <1>4, CutMoves DEF Moving
  <2> QED BY <1>4, <2>1, SteamKept DEF Deadline, AtWork, Moved, At
<1>5. ASSUME NEW b \in Invocation, Fault(b) \/ Crash(b)
      PROVE  SteamInv'
  <2>1. /\ \A c \in Invocation \ {b} : run'[c] = run[c]
        /\ run'[b].pc \in {"off", "releasing"}
    BY <1>5, CutMoves, EndKeeps DEF Moving, Moved
  <2> QED BY <1>5, <2>1, SteamCut DEF Fault, Crash
<1>6. CASE Tick
  <2>1. cooldown \in Nat /\ rest \in Nat
    BY DEF TypeOK
  <2>2. rest' = Remaining(rest) /\ cooldown' = Remaining(cooldown)
    BY <1>6 DEF Tick
  <2>3. /\ rest <= cooldown => rest' <= cooldown'
        /\ rest' <= rest
        /\ cooldown = 0 => cooldown' = 0
    BY <2>1, <2>2 DEF Remaining
  <2>4. ASSUME NEW c \in Invocation
        PROVE  /\ run'[c].pc = run[c].pc
               /\ run'[c].lanes = run[c].lanes
               /\ run'[c].delay = run[c].delay
               /\ run[c].delay \in Nat
    <3>1. run[c] \in RunRow
      BY RowFacts
    <3>2. run'[c] = IF Running(c)
                    THEN [run[c] EXCEPT !.age = @ + 1, !.read = Remaining(@)]
                    ELSE run[c]
      BY <1>6 DEF Tick
    <3> QED BY <3>1, <3>2 DEF RunRow
  <2>5. Begun'
    BY <2>3, <2>4 DEF SteamInv, Begun, AtSteam, At, AtWork
  <2>6. Covered'
    <3>1. CASE rest <= cooldown
      BY <2>3, <3>1 DEF Covered
    <3>2. ASSUME NEW c \in Invocation, At(c, "limited"), rest <= run[c].delay
          PROVE  Covered'
      <4>1. At(c, "limited")' /\ rest' <= run'[c].delay
        BY <2>1, <2>2, <2>3, <2>4, <3>2 DEF At, Remaining
      <4> QED BY <4>1 DEF Covered
    <3> QED BY <3>1, <3>2 DEF SteamInv, Covered
  <2> QED BY <2>5, <2>6 DEF SteamInv
<1>7. CASE UNCHANGED vars
  BY <1>7 DEF vars, SteamInv, Covered, Begun, AtSteam, At, AtWork
<1> QED BY <1>1, <1>2, <1>3, <1>4, <1>5, <1>6, <1>7 DEF Next, Invoked, Cut, OutOfTime

-----------------------------------------------------------------------------
(* The theorems.                                                           *)

LEMMA SpecExclusion ==
  ASSUME BatchAssumption
  PROVE  Spec => []Exclusion
<1>1. Init => Exclusion
  BY InitExclusion
<1>2. Exclusion /\ [Next]_vars => Exclusion'
  BY NextExclusion
<1> QED BY <1>1, <1>2, PTL DEF Spec

\* The batch lease, the table and the runs keep their shapes, and attempts
\* their bounds, for all constants.
THEOREM TypeCorrect == BatchAssumption => (Spec => []TypeOK)
<1> SUFFICES ASSUME BatchAssumption
             PROVE  Spec => []TypeOK
  OBVIOUS
<1>1. Exclusion => TypeOK
  BY DEF Exclusion, Shapes
<1> QED BY <1>1, SpecExclusion, PTL

\* Two invocations of run_batch are never both within their lease, for any
\* number of invocations and however long one outlives its own.
THEOREM BatchLeaseExcludes == BatchAssumption => (Spec => []LeaseExcludes)
<1> SUFFICES ASSUME BatchAssumption
             PROVE  Spec => []LeaseExcludes
  OBVIOUS
<1>1. Exclusion => LeaseExcludes
  BY DEF Exclusion, LeaseInv, LeaseExcludes
<1> QED BY <1>1, SpecExclusion, PTL

\* Where no invocation outlives its lease, run_batch works on no Steam job, of
\* whatever lane, for as long after a rate limit as Steam asked for, unless the
\* invocation that was asked stopped before it had saved the cooldown.
THEOREM SteamStaysAlone == BatchAssumption => (Spec => []SteamIsLeftAlone)
<1> SUFFICES ASSUME BatchAssumption
             PROVE  Spec => []SteamIsLeftAlone
  OBVIOUS
<1>1. CASE MaxRun < LeaseMs
  <2> DEFINE I == Exclusion /\ SteamInv
  <2>1. Init => I
    BY InitExclusion
  <2>2. I /\ [Next]_vars => I'
    BY <1>1, NextExclusion, NextSteam
  <2>3. I => SteamIsLeftAlone
    <3> SUFFICES ASSUME I, rest > 0, NEW b \in Invocation, AtWork(b)
                 PROVE  FALSE
      BY DEF SteamIsLeftAlone, AtWorkOnSteam, AtWork
    <3> QED BY <1>1, Rested
  <2> HIDE DEF I
  <2> QED BY <2>1, <2>2, <2>3, PTL DEF Spec
<1>2. CASE ~(MaxRun < LeaseMs)
  <2>1. SteamIsLeftAlone
    BY <1>2 DEF SteamIsLeftAlone
  <2> QED BY <2>1, <1>2, PTL
<1> QED BY <1>1, <1>2
=============================================================================
