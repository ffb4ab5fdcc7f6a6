-------------------------- MODULE EnrichmentRunProofs --------------------------
(***************************************************************************)
(* Proofs about EnrichmentRun for every set of games, every list of lanes, *)
(* every budget and every set of games that never parse.                   *)
(***************************************************************************)
EXTENDS EnrichmentRun, SequenceTheorems, TLAPS

-----------------------------------------------------------------------------
(* The line of the queue.                                                  *)

\* A line is what it should be: every task in it once.
Lined(s, S) == s \in Seq(S) /\ IsInjective(s)

\* A sequence without its n-th element.
LEMMA RemoveAtFacts ==
  ASSUME NEW S, NEW s \in Seq(S), NEW n \in 1..Len(s),
         NEW r, r = SubSeq(s, 1, n - 1) \o SubSeq(s, n + 1, Len(s))
  PROVE  /\ r \in Seq(S)
         /\ Len(r) = Len(s) - 1
         /\ \A i \in 1..Len(s) - 1 : r[i] = IF i < n THEN s[i] ELSE s[i + 1]
<1>1. /\ Len(s) \in Nat
      /\ \A i \in 1..Len(s) : s[i] \in S
  BY LenProperties, ElementOfSeq
<1>2. PICK before : before = SubSeq(s, 1, n - 1)
  OBVIOUS
<1>3. PICK after : after = SubSeq(s, n + 1, Len(s))
  OBVIOUS
<1>4. /\ before \in Seq(S)
      /\ Len(before) = n - 1
      /\ \A i \in 1..n - 1 : before[i] = s[i]
  <2>1. /\ n - 1 \in Int /\ \A i \in 1..n - 1 : s[i] \in S
        /\ (IF 1 <= n - 1 THEN (n - 1) - 1 + 1 ELSE 0) = n - 1
        /\ (n - 1) - 1 + 1 = n - 1
        /\ \A i \in 1..n - 1 : 1 + i - 1 = i
    BY <1>1
  <2>2. /\ SubSeq(s, 1, n - 1) \in Seq(S)
        /\ Len(SubSeq(s, 1, n - 1)) = IF 1 <= n - 1 THEN (n - 1) - 1 + 1 ELSE 0
        /\ \A i \in 1..(n - 1) - 1 + 1 : SubSeq(s, 1, n - 1)[i] = s[1 + i - 1]
    BY <2>1, SubSeqProperties
  <2>. QED
    BY <1>2, <2>1, <2>2
<1>5. /\ after \in Seq(S)
      /\ Len(after) = Len(s) - n
      /\ \A i \in 1..Len(s) - n : after[i] = s[n + i]
  <2>1. /\ n + 1 \in Int /\ Len(s) \in Int /\ \A i \in n + 1..Len(s) : s[i] \in S
        /\ (IF n + 1 <= Len(s) THEN Len(s) - (n + 1) + 1 ELSE 0) = Len(s) - n
        /\ Len(s) - (n + 1) + 1 = Len(s) - n
        /\ \A i \in 1..Len(s) - n : (n + 1) + i - 1 = n + i
    BY <1>1
  <2>2. /\ SubSeq(s, n + 1, Len(s)) \in Seq(S)
        /\ Len(SubSeq(s, n + 1, Len(s)))
              = IF n + 1 <= Len(s) THEN Len(s) - (n + 1) + 1 ELSE 0
        /\ \A i \in 1..Len(s) - (n + 1) + 1 :
              SubSeq(s, n + 1, Len(s))[i] = s[(n + 1) + i - 1]
    <3>1. ASSUME NEW m \in Int, NEW l \in Int, \A i \in m..l : s[i] \in S
          PROVE  /\ SubSeq(s, m, l) \in Seq(S)
                 /\ Len(SubSeq(s, m, l)) = IF m <= l THEN l - m + 1 ELSE 0
                 /\ \A i \in 1..l - m + 1 : SubSeq(s, m, l)[i] = s[m + i - 1]
      BY <3>1, SubSeqProperties
    <3>. QED
      BY <2>1, <3>1
  <2>. QED
    BY <1>3, <2>1, <2>2
<1>6. /\ r \in Seq(S)
      /\ Len(r) = Len(before) + Len(after)
      /\ \A i \in 1..Len(before) + Len(after) :
            r[i] = IF i <= Len(before) THEN before[i] ELSE after[i - Len(before)]
  <2>1. before \in Seq(S) /\ after \in Seq(S) /\ r = before \o after
    BY <1>2, <1>3, <1>4, <1>5
  <2>2. /\ before \o after \in Seq(S)
        /\ Len(before \o after) = Len(before) + Len(after)
        /\ \A i \in 1..Len(before) + Len(after) :
              (before \o after)[i]
                 = IF i <= Len(before) THEN before[i] ELSE after[i - Len(before)]
    BY <2>1, ConcatProperties
  <2>. QED
    BY <2>1, <2>2
<1>7. Len(before) + Len(after) = Len(s) - 1
  BY <1>1, <1>4, <1>5
<1>8. ASSUME NEW i \in 1..Len(s) - 1
      PROVE  r[i] = IF i < n THEN s[i] ELSE s[i + 1]
  <2>1. r[i] = IF i <= n - 1 THEN before[i] ELSE after[i - (n - 1)]
    BY <1>4, <1>6, <1>7
  <2>2. CASE i < n
    <3>1. i <= n - 1 /\ i \in 1..n - 1
      BY <1>1, <2>2
    <3>. QED
      BY <1>4, <2>1, <2>2, <3>1
  <2>3. CASE ~(i < n)
    <3>1. /\ ~(i <= n - 1) /\ i - (n - 1) \in 1..Len(s) - n
          /\ n + (i - (n - 1)) = i + 1
      BY <1>1, <2>3
    <3>. QED
      BY <1>5, <2>1, <2>3, <3>1
  <2>. QED
    BY <2>2, <2>3
<1>. QED
  BY <1>6, <1>7, <1>8

\* Taking a task out of a line leaves the others, in their order.
LEMMA RemoveFirstFacts ==
  ASSUME NEW S, NEW s, Lined(s, S), NEW a
  PROVE  /\ Lined(RemoveFirst(s, a), S)
         /\ Range(RemoveFirst(s, a)) = Range(s) \ {a}
<1>1. /\ s \in Seq(S)
      /\ Len(s) \in Nat
      /\ DOMAIN s = 1..Len(s)
      /\ \A i, j \in 1..Len(s) : s[i] = s[j] => i = j
  BY LenProperties DEF Lined, IsInjective
<1>2. CASE ~\E i \in 1..Len(s) : s[i] = a
  <2>1. RemoveFirst(s, a) = s
    BY <1>2 DEF RemoveFirst
  <2>. QED
    BY <1>1, <1>2, <2>1 DEF Lined, Range
<1>3. CASE \E i \in 1..Len(s) : s[i] = a
  <2>1. PICK n \in 1..Len(s) : s[n] = a
    BY <1>3
  <2>2. {i \in 1..Len(s) : s[i] = a} = {n}
    BY <1>1, <2>1
  <2>3. Min({n}) = n
    BY <1>1 DEF Min
  <2>4. SelectInSeq(s, LAMBDA v : v = a) = n
    BY <2>2, <2>3 DEF SelectInSeq
  <2>5. PICK r : r = SubSeq(s, 1, n - 1) \o SubSeq(s, n + 1, Len(s))
    OBVIOUS
  <2>6. RemoveFirst(s, a) = r
    BY <1>3, <2>4, <2>5 DEF RemoveFirst, RemoveAt
  <2>7. /\ r \in Seq(S)
        /\ Len(r) = Len(s) - 1
        /\ \A i \in 1..Len(s) - 1 : r[i] = IF i < n THEN s[i] ELSE s[i + 1]
    <3>1. s \in Seq(S) /\ n \in 1..Len(s)
      BY <1>1
    <3>. QED
      BY <2>5, <3>1, RemoveAtFacts
  <2>8. DOMAIN r = 1..Len(s) - 1
    BY <2>7, LenProperties
  <2>9. \A i \in 1..Len(s) - 1 : \E k \in 1..Len(s) :
           /\ k = (IF i < n THEN i ELSE i + 1)
           /\ r[i] = s[k] /\ k # n
    BY <1>1, <2>7
  <2>10. IsInjective(r)
    <3>1. ASSUME NEW i \in 1..Len(s) - 1, NEW j \in 1..Len(s) - 1, r[i] = r[j]
          PROVE  i = j
      <4>1. PICK k \in 1..Len(s) : k = (IF i < n THEN i ELSE i + 1) /\ r[i] = s[k]
        BY <2>9
      <4>2. PICK l \in 1..Len(s) : l = (IF j < n THEN j ELSE j + 1) /\ r[j] = s[l]
        BY <2>9
      <4>3. k = l
        BY <1>1, <3>1, <4>1, <4>2
      <4>. QED
        BY <4>1, <4>2, <4>3
    <3>. QED
      BY <2>8, <3>1 DEF IsInjective
  <2>11. Range(r) = Range(s) \ {a}
    <3>1. ASSUME NEW i \in 1..Len(s) - 1
          PROVE  r[i] \in Range(s) \ {a}
      <4>1. PICK k \in 1..Len(s) : r[i] = s[k] /\ k # n
        BY <2>9
      <4>2. s[k] # a
        BY <1>1, <2>1, <4>1
      <4>. QED
        BY <1>1, <4>1, <4>2 DEF Range
    <3>2. ASSUME NEW i \in 1..Len(s), s[i] # a
          PROVE  s[i] \in Range(r)
      <4>1. CASE i < n
        <5>1. i \in 1..Len(s) - 1 /\ r[i] = s[i]
          BY <1>1, <2>7, <4>1
        <5>. QED
          BY <2>8, <5>1 DEF Range
      <4>2. CASE i > n
        <5>1. i - 1 \in 1..Len(s) - 1 /\ ~(i - 1 < n) /\ (i - 1) + 1 = i
          BY <1>1, <4>2
        <5>2. r[i - 1] = s[i]
          BY <2>7, <5>1
        <5>. QED
          BY <2>8, <5>1, <5>2 DEF Range
      <4>. QED
        BY <1>1, <2>1, <3>2, <4>1, <4>2
    <3>3. \A x \in Range(r) : x \in Range(s) \ {a}
      BY <2>8, <3>1 DEF Range
    <3>4. \A x \in Range(s) : x # a => x \in Range(r)
      BY <1>1, <3>2 DEF Range
    <3>. QED
      BY <3>3, <3>4
  <2>. QED
    BY <2>6, <2>7, <2>10, <2>11 DEF Lined
<1>. QED
  BY <1>2, <1>3

\* A task that is not in a line may join its end.
LEMMA AppendFacts ==
  ASSUME NEW S, NEW s, Lined(s, S), NEW a \in S, a \notin Range(s)
  PROVE  /\ Lined(Append(s, a), S)
         /\ Range(Append(s, a)) = Range(s) \cup {a}
<1>1. /\ s \in Seq(S)
      /\ Len(s) \in Nat
      /\ DOMAIN s = 1..Len(s)
      /\ \A i, j \in 1..Len(s) : s[i] = s[j] => i = j
      /\ \A i \in 1..Len(s) : s[i] # a
  BY LenProperties DEF Lined, IsInjective, Range
<1> DEFINE r == Append(s, a)
<1>2. /\ r \in Seq(S)
      /\ Len(r) = Len(s) + 1
      /\ \A i \in 1..Len(s) : r[i] = s[i]
      /\ r[Len(s) + 1] = a
  BY <1>1, AppendProperties
<1>3. DOMAIN r = 1..Len(s) + 1
  BY <1>2, LenProperties
<1>4. \A i \in 1..Len(s) + 1 : i \in 1..Len(s) \/ i = Len(s) + 1
  BY <1>1
<1>5. IsInjective(r)
  BY <1>1, <1>2, <1>3, <1>4 DEF IsInjective
<1>6. Range(r) = Range(s) \cup {a}
  <2>1. Len(s) + 1 \in DOMAIN r /\ \A i \in DOMAIN s : i \in DOMAIN r
    BY <1>1, <1>3
  <2>. QED
    BY <1>1, <1>2, <1>3, <1>4, <2>1 DEF Range
<1>. QED
  BY <1>2, <1>5, <1>6 DEF Lined

-----------------------------------------------------------------------------
(* What holds between two steps.                                           *)

\* The rows of the queue: a task that is not complete has a stage left, one that
\* is not buried an attempt, and the line holds open tasks only.
OpenTasks == {a \in App : task[a].status = "open"}
QueueInv ==
  /\ task \in [App -> Row]
  /\ \A a \in App :
       /\ task[a].status # "complete" => task[a].passed < Len(Stages)
       /\ task[a].status \in {"absent", "open"} => task[a].fails < FailureLimit
  /\ Lined(line, App)
  /\ Range(line) \subseteq OpenTasks
  /\ leased \subseteq App
  /\ paused \in BOOLEAN

\* The run: what it is at, what it still has to do, and what it may spend.
RunRecord == [pc : {"idle", "launch", "launched", "part", "refreshed", "ingested"},
              left : Nat, parts : Seq(Part), room : Nat, app : App \cup {NoApp},
              fresh : BOOLEAN, urgent : BOOLEAN, empty : 0..Lanes]
RunInv ==
  /\ run \in RunRecord
  /\ run.pc \in {"part", "refreshed", "ingested"} => run.parts # <<>>
  /\ run.pc \in {"idle", "launch", "launched"} => run.app = NoApp
  /\ run.pc = "part" /\ Kind = "dynamic" => run.app = NoApp
  /\ run.pc = "refreshed" => Kind = "dynamic" /\ run.room > 0 /\ run.app \in App
  /\ run.pc = "ingested" => Kind = "integrated" /\ run.app \in App

\* The run holds a task of the queue.
Holds(a) == run.pc \in {"part", "ingested"} /\ run.app = a
HeldInv == \A a \in App : Holds(a) => a \in OpenTasks \ leased

\* The checkpoint of the launch, and who may run while there is one.
CursorInv ==
  /\ released \subseteq App
  /\ cursor \in [lane : 1..Lanes, dynamicFirst : BOOLEAN, launch : Launch]
  /\ owed \subseteq App \X Range(LaunchStages)
NextStage == <<cursor.launch.app, LaunchStages[cursor.launch.next]>>
LaunchInv ==
  /\ run.pc = "launched" => NextStage \notin owed
  /\ run.pc \in {"refreshed", "ingested"} => cursor.launch = NoLaunch
  /\ run.pc = "part" => cursor.launch = NoLaunch \/ run.left = 0

Inv == QueueInv /\ RunInv /\ HeldInv /\ CursorInv /\ LaunchInv

\* The constants of the model.
LEMMA Lengths ==
  /\ Len(Stages) = 4
  /\ Len(LaunchStages) = 3
  /\ DOMAIN LaunchStages = 1..3
  /\ Lanes \in Nat /\ Lanes >= 1
  /\ FailureLimit \in Nat /\ FailureLimit >= 1
  /\ StageLimit \subseteq Nat
  /\ NoApp \notin App
<1>1. Len(Stages) = 4
  BY DEF Stages
<1> DEFINE S == {"review_summary", "popular_reviews", "ccu"}
<1>3. \A i \in 2..4 : Stages[i] \in S
  <2>1. \A i \in 2..4 : i = 2 \/ i = 3 \/ i = 4
    OBVIOUS
  <2>. QED
    BY <2>1 DEF Stages
<1>4. /\ LaunchStages \in Seq(S)
      /\ Len(LaunchStages) = 3
  <2>1. /\ SubSeq(Stages, 2, 4) \in Seq(S)
        /\ Len(SubSeq(Stages, 2, 4)) = IF 2 <= 4 THEN 4 - 2 + 1 ELSE 0
    BY <1>3, SubSeqProperties
  <2>. QED
    BY <2>1 DEF LaunchStages
<1>5. DOMAIN LaunchStages = 1..3
  BY <1>4, LenProperties
<1>6. Lanes \in Nat /\ Lanes >= 1
  <2>1. Lanes \in Nat \ {0}
    BY EnrichmentAssumption, EmptySeq DEF Lanes
  <2>. QED
    BY <2>1
<1>7. /\ FailureLimit \in Nat /\ FailureLimit >= 1
      /\ StageLimit \subseteq Nat
      /\ NoApp \notin App
  BY EnrichmentAssumption
<1>. QED
  BY <1>1, <1>4, <1>5, <1>6, <1>7

\* A run that is over.
LEMMA IdleFacts ==
  /\ Idle \in RunRecord
  /\ Idle.pc = "idle" /\ Idle.app = NoApp
<1>1. <<>> \in Seq(Part)
  BY EmptySeq
<1>2. 0 \in 0..Lanes
  BY Lengths
<1>. QED
  BY <1>1, <1>2 DEF Idle, RunRecord

-----------------------------------------------------------------------------
(* The queue under the run's operations.                                   *)

LEMMA QueueSame ==
  ASSUME QueueInv, UNCHANGED queue
  PROVE  QueueInv'
BY DEF QueueInv, queue, OpenTasks, Lined

\* The oldest task the run holds goes to the end of the line.
LEMMA DeferKeeps ==
  ASSUME QueueInv, NEW a \in OpenTasks \cup {NoApp}, Defer(a),
         UNCHANGED <<task, leased, paused>>
  PROVE  QueueInv'
<1>1. CASE a = NoApp
  BY <1>1 DEF Defer, QueueInv, OpenTasks, Lined
<1>2. CASE a # NoApp
  <2>1. a \in App /\ a \in OpenTasks
    BY <1>2 DEF OpenTasks
  <2>2. PICK s : s = RemoveFirst(line, a)
    OBVIOUS
  <2>3. Lined(s, App) /\ Range(s) = Range(line) \ {a}
    BY <2>2, RemoveFirstFacts DEF QueueInv
  <2>4. Lined(Append(s, a), App) /\ Range(Append(s, a)) = Range(s) \cup {a}
    BY <2>1, <2>3, AppendFacts
  <2>5. line' = Append(s, a)
    BY <1>2, <2>2 DEF Defer
  <2>. QED
    BY <2>1, <2>3, <2>4, <2>5 DEF QueueInv, OpenTasks, Lined
<1>. QED
  BY <1>1, <1>2

\* A stage is finished: the next one is due, or the game is through.
LEMMA AdvanceFacts ==
  ASSUME QueueInv, NEW a \in OpenTasks, Advance(a), UNCHANGED <<leased, paused>>
  PROVE  /\ QueueInv'
         /\ \A b \in App \ {a} : task'[b] = task[b]
         /\ \/ /\ task'[a].status = "complete" /\ task'[a].passed = 4
            \/ /\ task'[a].status = "open"
               /\ task'[a].passed = task[a].passed + 1 /\ task'[a].passed < 4
<1>1. /\ a \in App
      /\ task \in [App -> Row] /\ task[a] \in Row
      /\ task[a].status = "open"
      /\ task[a].passed \in Nat /\ task[a].passed < 4
      /\ task[a].full \in BOOLEAN
  BY Lengths DEF QueueInv, OpenTasks, Row
<1>2. PICK full : full = (task[a].full \/ a \in released)
  OBVIOUS
<1>3. full \in BOOLEAN
  BY <1>1, <1>2
<1>4. PICK passed : passed = IF full THEN task[a].passed + 1 ELSE Len(Stages)
  OBVIOUS
<1>5. passed \in 0..4 /\ (passed = 4 \/ passed = task[a].passed + 1)
  BY <1>1, <1>4, Lengths
<1>6. PICK done : done = (passed = Len(Stages))
  OBVIOUS
<1>7. PICK row : row = [status |-> IF done THEN "complete" ELSE "open",
                        passed |-> passed, full |-> full, fails |-> 0]
  OBVIOUS
<1>8. /\ task' = [task EXCEPT ![a] = row]
      /\ line' = IF done THEN RemoveFirst(line, a) ELSE Append(RemoveFirst(line, a), a)
  BY <1>2, <1>4, <1>6, <1>7 DEF Advance
<1>9. row \in Row
  BY <1>3, <1>5, <1>7, Lengths DEF Row
<1>10. /\ task' \in [App -> Row]
       /\ task'[a] = row
       /\ \A b \in App \ {a} : task'[b] = task[b]
  BY <1>1, <1>8, <1>9
<1>11. IF done THEN row.status = "complete" /\ row.passed = 4
       ELSE row.status = "open" /\ row.passed = task[a].passed + 1 /\ row.passed < 4
  <2>1. CASE done
    BY <1>6, <1>7, <2>1, Lengths
  <2>2. CASE ~done
    <3>1. passed # 4
      BY <1>6, <2>2, Lengths
    <3>2. passed = task[a].passed + 1 /\ passed < 4
      BY <1>5, <3>1
    <3>. QED
      BY <1>7, <2>2, <3>2
  <2>. QED
    BY <2>1, <2>2
<1>12. row.fails = 0
  BY <1>7
<1>13. \A b \in App :
         /\ task'[b].status # "complete" => task'[b].passed < Len(Stages)
         /\ task'[b].status \in {"absent", "open"} => task'[b].fails < FailureLimit
  <2>1. CASE done
    BY <1>10, <1>11, <1>12, <2>1, Lengths DEF QueueInv
  <2>2. CASE ~done
    BY <1>10, <1>11, <1>12, <2>2, Lengths DEF QueueInv
  <2>. QED
    BY <2>1, <2>2
<1>14. PICK s : s = RemoveFirst(line, a)
  OBVIOUS
<1>15. Lined(s, App) /\ Range(s) = Range(line) \ {a}
  BY <1>14, RemoveFirstFacts DEF QueueInv
<1>16. Lined(Append(s, a), App) /\ Range(Append(s, a)) = Range(s) \cup {a}
  BY <1>1, <1>15, AppendFacts
<1>17. Lined(line', App) /\ Range(line') \subseteq {b \in App : task'[b].status = "open"}
  <2>1. \A b \in Range(s) : b \in App \ {a} /\ task[b].status = "open"
    BY <1>15 DEF QueueInv, OpenTasks
  <2>2. CASE done
    BY <1>8, <1>10, <1>14, <1>15, <2>1, <2>2
  <2>3. CASE ~done
    BY <1>1, <1>8, <1>10, <1>11, <1>14, <1>16, <2>1, <2>3
  <2>. QED
    BY <2>2, <2>3
<1>. QED
  BY <1>10, <1>11, <1>13, <1>17 DEF QueueInv, OpenTasks, Lined

\* A stage failed: the task waits for a retry, is buried, or its lane pauses.
LEMMA GiveBackFacts ==
  ASSUME QueueInv, NEW a \in OpenTasks, GiveBack(a), UNCHANGED leased
  PROVE  /\ QueueInv'
         /\ \A b \in App \ {a} : task'[b] = task[b]
         /\ task'[a].status \in {"open", "dead"} /\ task'[a].passed = task[a].passed
<1>1. /\ a \in App
      /\ task \in [App -> Row] /\ task[a] \in Row
      /\ task[a].status = "open"
      /\ task[a].passed \in Nat /\ task[a].passed < 4
      /\ task[a].fails \in Nat /\ task[a].fails < FailureLimit
  BY Lengths DEF QueueInv, OpenTasks, Row
<1>2. line' = RemoveFirst(line, a)
  BY DEF GiveBack
<1>3. Lined(line', App) /\ Range(line') = Range(line) \ {a}
  BY <1>2, RemoveFirstFacts DEF QueueInv
<1>4. CASE UNCHANGED task /\ paused' = TRUE
  BY <1>1, <1>3, <1>4 DEF QueueInv, OpenTasks, Lined
<1>5. CASE /\ task' = [task EXCEPT ![a].fails = @ + 1,
                 ![a].status = IF task[a].fails + 1 = FailureLimit THEN "dead" ELSE "open"]
           /\ UNCHANGED paused
  <2>1. PICK row : row = [task[a] EXCEPT !.fails = @ + 1,
                 !.status = IF task[a].fails + 1 = FailureLimit THEN "dead" ELSE "open"]
    OBVIOUS
  <2>2. /\ row.fails = task[a].fails + 1
        /\ row.status = IF task[a].fails + 1 = FailureLimit THEN "dead" ELSE "open"
        /\ row.passed = task[a].passed
        /\ row \in Row
    <3>1. task[a].fails + 1 \in 0..FailureLimit
      BY <1>1, Lengths
    <3>2. (IF task[a].fails + 1 = FailureLimit THEN "dead" ELSE "open")
             \in {"absent", "open", "complete", "dead"}
      OBVIOUS
    <3>. QED
      BY <1>1, <2>1, <3>1, <3>2 DEF Row
  <2>3. /\ task' \in [App -> Row]
        /\ task'[a] = row
        /\ \A b \in App \ {a} : task'[b] = task[b]
    BY <1>1, <1>5, <2>1, <2>2
  <2>4. \A b \in App :
         /\ task'[b].status # "complete" => task'[b].passed < Len(Stages)
         /\ task'[b].status \in {"absent", "open"} => task'[b].fails < FailureLimit
    <3>1. /\ row.passed < Len(Stages)
          /\ row.status \in {"absent", "open"} => row.fails < FailureLimit
      BY <1>1, <2>2, Lengths
    <3>. QED
      BY <2>3, <3>1 DEF QueueInv
  <2>5. \A b \in Range(line') : b \in App /\ task'[b].status = "open"
    BY <1>3, <2>3 DEF QueueInv, OpenTasks
  <2>. QED
    BY <1>3, <1>5, <2>2, <2>3, <2>4, <2>5 DEF QueueInv, OpenTasks, Lined
<1>. QED
  BY <1>4, <1>5 DEF GiveBack

-----------------------------------------------------------------------------
(* The operations of the run.                                              *)

\* A run that is over holds nothing and has nobody's turn.
LEMMA RunEnds ==
  ASSUME run' = Idle
  PROVE  RunInv' /\ HeldInv' /\ run'.pc = "idle"
BY IdleFacts DEF RunInv, HeldInv, Holds

\* The run's task, if it holds one, is open and nobody else's.
LEMMA HeldFacts ==
  ASSUME Inv, run.pc \in {"launch", "part"}
  PROVE  run.app \in OpenTasks \cup {NoApp}
BY DEF Inv, RunInv, RunRecord, HeldInv, Holds

LEMMA PartsFacts ==
  ASSUME NEW n \in Nat, NEW first \in BOOLEAN
  PROVE  Parts(n, first) \in Seq(Part) /\ Parts(n, first) # <<>> /\ Half(n) \in Nat
<1>1. Half(n) \in Nat /\ n \div 2 \in Nat
  BY DEF Half
<1>2. \A k \in {"dynamic", "integrated"}, l \in Nat : [kind |-> k, limit |-> l] \in Part
  BY DEF Part
<1>3. CASE first
  <2>1. Parts(n, first) = <<[kind |-> "dynamic", limit |-> Half(n)],
                            [kind |-> "integrated", limit |-> n \div 2]>>
    BY <1>3 DEF Parts
  <2>. QED
    BY <1>1, <1>2, <2>1
<1>4. CASE ~first
  <2>1. Parts(n, first) = <<[kind |-> "integrated", limit |-> Half(n)],
                            [kind |-> "dynamic", limit |-> n \div 2]>>
    BY <1>4 DEF Parts
  <2>. QED
    BY <1>1, <1>2, <2>1
<1>. QED
  BY <1>3, <1>4

LEMMA StartInv == ASSUME Inv, Start PROVE Inv'
<1>1. PICK n \in StageLimit : run' = [Idle EXCEPT !.pc = "launch", !.left = n]
  BY DEF Start
<1>2. /\ run' \in RunRecord
      /\ run'.pc = "launch" /\ run'.app = NoApp
  <2>1. n \in Nat
    BY Lengths
  <2>. QED
    BY <1>1, <2>1, IdleFacts DEF RunRecord
<1>3. RunInv' /\ HeldInv'
  BY <1>2, Lengths DEF RunInv, HeldInv, Holds
<1>4. QueueInv'
  BY QueueSame DEF Inv, Start
<1>5. CursorInv' /\ LaunchInv'
  <2>1. owed' \subseteq owed
    BY DEF Start
  <2>. QED
    BY <1>2, <2>1 DEF Inv, CursorInv, LaunchInv, Start
<1>. QED
  BY <1>3, <1>4, <1>5 DEF Inv

LEMMA DivideInv == ASSUME Inv, Divide PROVE Inv'
<1>1. QueueInv'
  BY QueueSame DEF Inv, Divide
<1>2. CASE run.left = 0
  <2>1. run' = Idle /\ UNCHANGED <<cursor, released, owed>>
    BY <1>2 DEF Divide
  <2>2. RunInv' /\ HeldInv' /\ run'.pc = "idle"
    BY <2>1, RunEnds
  <2>3. CursorInv' /\ LaunchInv'
    BY <2>1, <2>2 DEF Inv, CursorInv, LaunchInv
  <2>. QED
    BY <1>1, <2>2, <2>3 DEF Inv
<1>3. CASE run.left # 0
  <2>1. /\ cursor' = Begun(cursor.dynamicFirst)
        /\ run' = [run EXCEPT !.pc = "part", !.room = Half(run.left),
                              !.parts = Parts(run.left, cursor.dynamicFirst)]
        /\ cursor.launch = NoLaunch
        /\ run.pc = "launch"
        /\ UNCHANGED <<released, owed>>
    BY <1>3 DEF Divide
  <2>2. /\ run \in RunRecord /\ run.left \in Nat /\ run.app = NoApp
        /\ cursor \in [lane : 1..Lanes, dynamicFirst : BOOLEAN, launch : Launch]
        /\ cursor.dynamicFirst \in BOOLEAN
    BY <2>1 DEF Inv, RunInv, RunRecord, CursorInv
  <2>3. PICK parts : parts = Parts(run.left, cursor.dynamicFirst)
    OBVIOUS
  <2>4. parts \in Seq(Part) /\ parts # <<>> /\ Half(run.left) \in Nat
    BY <2>2, <2>3, PartsFacts
  <2>5. /\ run' \in RunRecord
        /\ run'.pc = "part" /\ run'.parts # <<>> /\ run'.app = NoApp
    BY <2>1, <2>2, <2>3, <2>4 DEF RunRecord
  <2>6. RunInv' /\ HeldInv'
    BY <2>5, Lengths DEF RunInv, HeldInv, Holds
  <2>7. /\ cursor' \in [lane : 1..Lanes, dynamicFirst : BOOLEAN, launch : Launch]
        /\ cursor'.launch = cursor.launch
    <3>1. cursor' = [cursor EXCEPT !.dynamicFirst = ~cursor.dynamicFirst]
      BY <2>1 DEF Begun
    <3>. QED
      BY <2>2, <3>1
  <2>8. CursorInv' /\ LaunchInv'
    BY <2>1, <2>5, <2>7 DEF Inv, CursorInv, LaunchInv
  <2>. QED
    BY <1>1, <2>6, <2>8 DEF Inv
<1>. QED
  BY <1>2, <1>3

LEMMA EndPartInv == ASSUME Inv, EndPart PROVE Inv'
<1>1. /\ run.pc = "part" /\ run.parts # <<>> /\ run \in RunRecord
      /\ run.parts \in Seq(Part) /\ run.left \in Nat
      /\ Defer(run.app)
      /\ UNCHANGED <<task, leased, paused, released, cursor, owed>>
  BY DEF Inv, RunInv, RunRecord, EndPart
<1>2. QueueInv'
  <2>1. PICK a : a = run.app
    OBVIOUS
  <2>2. a \in OpenTasks \cup {NoApp} /\ Defer(a)
    BY <1>1, <2>1, HeldFacts
  <2>. QED
    BY <1>1, <2>2, DeferKeeps DEF Inv
<1>3. PICK rest : rest = Tail(run.parts)
  OBVIOUS
<1>4. rest \in Seq(Part)
  BY <1>1, <1>3, HeadTailProperties
<1>5. CASE rest = <<>>
  <2>1. run' = Idle
    BY <1>3, <1>5 DEF EndPart
  <2>2. RunInv' /\ HeldInv' /\ run'.pc = "idle"
    BY <2>1, RunEnds
  <2>3. CursorInv' /\ LaunchInv'
    BY <1>1, <2>2 DEF Inv, CursorInv, LaunchInv
  <2>. QED
    BY <1>2, <2>2, <2>3 DEF Inv
<1>6. CASE rest # <<>>
  <2>1. run' = [Idle EXCEPT !.pc = "part", !.left = run.left, !.parts = rest,
                            !.room = Head(rest).limit]
    BY <1>3, <1>6 DEF EndPart
  <2>2. Head(rest) \in Part /\ Head(rest).limit \in Nat
    <3>1. Head(rest) \in Part
      BY <1>4, <1>6, HeadTailProperties
    <3>. QED
      BY <3>1 DEF Part
  <2>3. /\ run' \in RunRecord
        /\ run'.pc = "part" /\ run'.parts # <<>> /\ run'.app = NoApp
        /\ run'.left = run.left
    BY <1>1, <1>4, <1>6, <2>1, <2>2, IdleFacts DEF RunRecord
  <2>4. RunInv' /\ HeldInv'
    BY <2>3, Lengths DEF RunInv, HeldInv, Holds
  <2>5. CursorInv' /\ LaunchInv'
    BY <1>1, <2>3 DEF Inv, CursorInv, LaunchInv
  <2>. QED
    BY <1>2, <2>4, <2>5 DEF Inv
<1>. QED
  BY <1>5, <1>6

LEMMA DeadlineInv == ASSUME Inv, Deadline PROVE Inv'
<1>1. /\ run.pc \in {"launch", "part"}
      /\ Defer(run.app)
      /\ run' = Idle
      /\ UNCHANGED <<task, leased, paused, released, cursor, owed>>
  BY DEF Deadline
<1>2. QueueInv'
  <2>1. PICK a : a = run.app
    OBVIOUS
  <2>2. a \in OpenTasks \cup {NoApp} /\ Defer(a)
    BY <1>1, <2>1, HeldFacts
  <2>. QED
    BY <1>1, <2>2, DeferKeeps DEF Inv
<1>3. RunInv' /\ HeldInv' /\ run'.pc = "idle"
  BY <1>1, RunEnds
<1>4. CursorInv' /\ LaunchInv'
  BY <1>1, <1>3 DEF Inv, CursorInv, LaunchInv
<1>. QED
  BY <1>2, <1>3, <1>4 DEF Inv

-----------------------------------------------------------------------------
(* The launch.                                                             *)

\* What is left of a launch after its next stage.
LEMMA AfterFacts ==
  ASSUME NEW launch \in Launch
  PROVE  /\ After(launch) \in Launch
         /\ Rest(launch) \ {<<launch.app, LaunchStages[launch.next]>>}
               \subseteq Rest(After(launch))
<1>1. launch.app \in App \cup {NoApp} /\ launch.next \in 1..3
  BY Lengths DEF Launch
<1>2. CASE launch.next = 3
  <2>1. After(launch) = NoLaunch
    BY <1>2, Lengths DEF After
  <2>2. \A i \in launch.next..3 : i = launch.next
    BY <1>2
  <2>. QED
    BY <2>1, <2>2, Lengths DEF Rest, NoLaunch, Launch
<1>3. CASE launch.next # 3
  <2>1. PICK later : later = [launch EXCEPT !.next = @ + 1]
    OBVIOUS
  <2>2. After(launch) = later
    BY <1>3, <2>1, Lengths DEF After
  <2>3. later \in Launch /\ later.app = launch.app /\ later.next = launch.next + 1
    BY <1>1, <1>3, <2>1, Lengths DEF Launch
  <2>4. \A i \in launch.next..3 : i = launch.next \/ i \in later.next..3
    BY <1>1, <2>3
  <2>. QED
    BY <2>2, <2>3, <2>4, Lengths DEF Rest
<1>. QED
  BY <1>2, <1>3

LEMMA NoLaunchFacts ==
  /\ NoLaunch \in Launch
  /\ (App \X Range(LaunchStages)) \cap Rest(NoLaunch) = {}
  /\ \A a \in App : /\ LaunchOf(a) \in Launch
                    /\ Rest(LaunchOf(a)) \subseteq App \X Range(LaunchStages)
<1>1. 1 \in 1..3
  OBVIOUS
<1>2. NoLaunch \in Launch /\ NoLaunch.app = NoApp
  BY <1>1, Lengths DEF NoLaunch, Launch
<1>3. ASSUME NEW a \in App
      PROVE  /\ LaunchOf(a) \in Launch
             /\ Rest(LaunchOf(a)) \subseteq App \X Range(LaunchStages)
  <2>1. \A i \in 1..3 : LaunchStages[i] \in Range(LaunchStages)
    BY Lengths DEF Range
  <2>. QED
    BY <1>1, <2>1, Lengths DEF Rest, Launch, LaunchOf
<1>4. \A x \in Rest(NoLaunch) : x[1] = NoApp
  BY <1>2 DEF Rest
<1>5. \A x \in App \X Range(LaunchStages) : x[1] # NoApp
  BY Lengths
<1>. QED
  BY <1>2, <1>3, <1>4, <1>5

LEMMA LaunchWithdrawnInv == ASSUME Inv, LaunchWithdrawn PROVE Inv'
<1>1. /\ run.pc = "launch"
      /\ cursor' = [cursor EXCEPT !.launch = NoLaunch]
      /\ owed' = owed \ Rest(cursor.launch)
      /\ UNCHANGED <<queue, released, run>>
  BY DEF LaunchWithdrawn, Resuming
<1>2. QueueInv' /\ RunInv' /\ HeldInv'
  BY <1>1, QueueSame DEF Inv, RunInv, Kind, HeldInv, Holds, queue, OpenTasks
<1>3. /\ cursor' \in [lane : 1..Lanes, dynamicFirst : BOOLEAN, launch : Launch]
      /\ cursor'.launch = NoLaunch
  BY <1>1, NoLaunchFacts DEF Inv, CursorInv
<1>4. CursorInv' /\ LaunchInv'
  BY <1>1, <1>3 DEF Inv, CursorInv, LaunchInv
<1>. QED
  BY <1>2, <1>4 DEF Inv

LEMMA LaunchStageInv == ASSUME Inv, LaunchStage PROVE Inv'
<1>1. /\ run.pc = "launch" /\ run.left > 0
      /\ run.left \in Nat /\ run.room \in Nat /\ run.app = NoApp
      /\ run \in RunRecord
      /\ owed' = owed \ {NextStage}
      /\ run' = [run EXCEPT !.pc = "launched", !.left = @ - 1,
                            !.room = IF @ > 0 THEN @ - 1 ELSE 0]
      /\ UNCHANGED <<queue, cursor>>
  BY DEF LaunchStage, Resuming, NextStage, Inv, RunInv, RunRecord
<1>2. QueueInv'
  BY <1>1, QueueSame DEF Inv
<1>3. /\ run' \in RunRecord
      /\ run'.pc = "launched" /\ run'.app = NoApp
  <2>1. run.left - 1 \in Nat /\ (IF run.room > 0 THEN run.room - 1 ELSE 0) \in Nat
    BY <1>1
  <2>. QED
    BY <1>1, <2>1 DEF RunRecord
<1>4. RunInv' /\ HeldInv'
  BY <1>3, Lengths DEF RunInv, HeldInv, Holds
<1>5. released' \subseteq App
  <2>1. cursor.launch.app \in released /\ released \subseteq App
    BY DEF LaunchStage, Inv, CursorInv
  <2>2. PICK a, stage : a = cursor.launch.app /\ Succeeds(a, stage)
    BY DEF LaunchStage
  <2>. QED
    BY <2>1, <2>2 DEF Succeeds
<1>6. CursorInv' /\ LaunchInv'
  BY <1>1, <1>3, <1>5 DEF Inv, CursorInv, LaunchInv, NextStage
<1>. QED
  BY <1>2, <1>4, <1>6 DEF Inv

LEMMA SaveLaunchInv == ASSUME Inv, SaveLaunch PROVE Inv'
<1>1. /\ run.pc = "launched" /\ run.app = NoApp
      /\ run \in RunRecord
      /\ cursor' = [cursor EXCEPT !.launch = After(@)]
      /\ run' = [run EXCEPT !.pc = "launch"]
      /\ UNCHANGED <<queue, released, owed>>
  BY DEF SaveLaunch, Inv, RunInv
<1>2. QueueInv'
  BY <1>1, QueueSame DEF Inv
<1>3. /\ run' \in RunRecord
      /\ run'.pc = "launch" /\ run'.app = NoApp
  BY <1>1 DEF RunRecord
<1>4. RunInv' /\ HeldInv'
  BY <1>3, Lengths DEF RunInv, HeldInv, Holds
<1>5. PICK launch \in Launch : launch = cursor.launch
  BY DEF Inv, CursorInv
<1>6. /\ cursor' \in [lane : 1..Lanes, dynamicFirst : BOOLEAN, launch : Launch]
      /\ cursor'.launch = After(launch)
  BY <1>1, <1>5, AfterFacts DEF Inv, CursorInv
<1>7. CursorInv' /\ LaunchInv'
  BY <1>1, <1>3, <1>6 DEF Inv, CursorInv, LaunchInv
<1>. QED
  BY <1>2, <1>4, <1>7 DEF Inv

LEMMA LaunchFailsInv == ASSUME Inv, LaunchFails PROVE Inv'
<1>1. run' = Idle /\ UNCHANGED <<queue, released, cursor, owed>>
  BY DEF LaunchFails
<1>2. QueueInv'
  BY <1>1, QueueSame DEF Inv
<1>3. RunInv' /\ HeldInv' /\ run'.pc = "idle"
  BY <1>1, RunEnds
<1>4. CursorInv' /\ LaunchInv'
  BY <1>1, <1>3 DEF Inv, CursorInv, LaunchInv
<1>. QED
  BY <1>2, <1>3, <1>4 DEF Inv

LEMMA LaunchReturnsInv == ASSUME Inv, LaunchReturns PROVE Inv'
<1>1. /\ run.pc = "launch" /\ run.parts # <<>> /\ run.app = NoApp
      /\ cursor.launch = NoLaunch \/ run.left = 0
      /\ run \in RunRecord
      /\ run' = [run EXCEPT !.pc = "part", !.empty = 0]
      /\ UNCHANGED <<queue, released, cursor, owed>>
  BY DEF LaunchReturns, Inv, RunInv
<1>2. QueueInv'
  BY <1>1, QueueSame DEF Inv
<1>3. /\ run' \in RunRecord
      /\ run'.pc = "part" /\ run'.parts # <<>> /\ run'.app = NoApp
      /\ run'.left = run.left
  <2>1. 0 \in 0..Lanes
    BY Lengths
  <2>. QED
    BY <1>1, <2>1 DEF RunRecord
<1>4. RunInv' /\ HeldInv'
  BY <1>3, Lengths DEF RunInv, HeldInv, Holds
<1>5. CursorInv' /\ LaunchInv'
  BY <1>1, <1>3 DEF Inv, CursorInv, LaunchInv
<1>. QED
  BY <1>2, <1>4, <1>5 DEF Inv

-----------------------------------------------------------------------------
(* The dynamic lanes.                                                      *)

LEMMA LaneFacts ==
  ASSUME Inv
  PROVE  /\ LaneAdvanced \in [lane : 1..Lanes, dynamicFirst : BOOLEAN, launch : Launch]
         /\ LaneAdvanced.launch = cursor.launch
<1>1. cursor \in [lane : 1..Lanes, dynamicFirst : BOOLEAN, launch : Launch]
  BY DEF Inv, CursorInv
<1>2. (cursor.lane % Lanes) + 1 \in 1..Lanes
  BY <1>1, Lengths
<1>. QED
  BY <1>1, <1>2 DEF LaneAdvanced

\* A lane refreshes games only while no launch is checkpointed.
LEMMA RefreshingFacts ==
  ASSUME Inv, Refreshing
  PROVE  /\ run.pc = "part" /\ run.parts # <<>> /\ Kind = "dynamic" /\ run.app = NoApp
         /\ run \in RunRecord
         /\ run.left \in Nat /\ run.left > 0 /\ run.room > 0 /\ run.empty < Lanes
         /\ cursor.launch = NoLaunch
<1>1. /\ run.pc = "part" /\ run.parts # <<>> /\ Kind = "dynamic" /\ run.app = NoApp
      /\ run \in RunRecord
  BY DEF Inv, RunInv, Refreshing
<1>2. run.left \in Nat /\ run.left > 0 /\ run.room > 0 /\ run.empty < Lanes
  BY <1>1 DEF Refreshing, Continues, RunRecord
<1>3. cursor.launch = NoLaunch
  BY <1>1, <1>2 DEF Inv, LaunchInv
<1>. QED
  BY <1>1, <1>2, <1>3

LEMMA LaneIsEmptyInv == ASSUME Inv, LaneIsEmpty PROVE Inv'
<1>1. /\ Refreshing
      /\ cursor' = LaneAdvanced
      /\ run' = [run EXCEPT !.empty = @ + 1]
      /\ UNCHANGED <<queue, released, owed>>
  BY DEF LaneIsEmpty
<1>2. QueueInv'
  BY <1>1, QueueSame DEF Inv
<1>3. /\ run' \in RunRecord
      /\ run'.pc = "part" /\ run'.parts # <<>> /\ run'.app = NoApp
  <2>1. run.empty + 1 \in 0..Lanes
    BY <1>1, RefreshingFacts, Lengths DEF RunRecord
  <2>. QED
    BY <1>1, <2>1, RefreshingFacts DEF RunRecord
<1>4. RunInv' /\ HeldInv'
  BY <1>3, Lengths DEF RunInv, HeldInv, Holds
<1>5. CursorInv' /\ LaunchInv'
  BY <1>1, <1>3, LaneFacts, RefreshingFacts DEF Inv, CursorInv, LaunchInv
<1>. QED
  BY <1>2, <1>4, <1>5 DEF Inv

LEMMA DynamicStageInv == ASSUME Inv, NEW a \in App, DynamicStage(a) PROVE Inv'
<1>1. /\ Refreshing
      /\ Succeeds(a, Refreshed)
      /\ run' = [run EXCEPT !.pc = "refreshed", !.app = a, !.left = @ - 1,
                            !.fresh = Discovered(a)]
      /\ owed' = IF Discovered(a) THEN owed \cup Rest(LaunchOf(a)) ELSE owed
      /\ UNCHANGED <<queue, cursor>>
  BY DEF DynamicStage
<1>2. QueueInv'
  BY <1>1, QueueSame DEF Inv
<1>3. /\ run' \in RunRecord
      /\ run'.pc = "refreshed" /\ run'.parts = run.parts /\ run'.parts # <<>>
      /\ run'.app = a /\ run'.room = run.room
  <2>1. Discovered(a) \in BOOLEAN /\ run.left - 1 \in Nat
    BY <1>1, RefreshingFacts DEF Discovered
  <2>. QED
    BY <1>1, <2>1, RefreshingFacts DEF RunRecord
<1>4. RunInv' /\ HeldInv'
  BY <1>1, <1>3, RefreshingFacts DEF RunInv, HeldInv, Holds, Kind
<1>5. released' \subseteq App
  <2>1. released \subseteq App
    BY DEF Inv, CursorInv
  <2>. QED
    BY <1>1, <2>1 DEF Succeeds
<1>6. owed' \subseteq App \X Range(LaunchStages)
  BY <1>1, NoLaunchFacts DEF Inv, CursorInv
<1>7. CursorInv' /\ LaunchInv'
  BY <1>1, <1>3, <1>5, <1>6, RefreshingFacts DEF Inv, CursorInv, LaunchInv
<1>. QED
  BY <1>2, <1>4, <1>7 DEF Inv

LEMMA SaveDynamicInv == ASSUME Inv, SaveDynamic PROVE Inv'
<1>1. /\ run.pc = "refreshed" /\ run.parts # <<>> /\ run.app \in App /\ run.room > 0
      /\ run \in RunRecord /\ run.room \in Nat
      /\ cursor.launch = NoLaunch
      /\ run' = [run EXCEPT !.pc = "launch", !.app = NoApp, !.fresh = FALSE,
                            !.room = @ - 1]
      /\ UNCHANGED <<queue, released, owed>>
  BY DEF SaveDynamic, Inv, RunInv, RunRecord, LaunchInv
<1>2. QueueInv'
  BY <1>1, QueueSame DEF Inv
<1>3. /\ run' \in RunRecord
      /\ run'.pc = "launch" /\ run'.app = NoApp
  <2>1. run.room - 1 \in Nat
    BY <1>1
  <2>. QED
    BY <1>1, <2>1 DEF RunRecord
<1>4. RunInv' /\ HeldInv'
  BY <1>3, Lengths DEF RunInv, HeldInv, Holds
<1>5. PICK launch : launch = IF run.fresh THEN LaunchOf(run.app) ELSE cursor.launch
  OBVIOUS
<1>6. launch \in Launch
  BY <1>1, <1>5, NoLaunchFacts
<1>7. /\ cursor' \in [lane : 1..Lanes, dynamicFirst : BOOLEAN, launch : Launch]
      /\ cursor'.launch = launch
  BY <1>5, <1>6, LaneFacts DEF SaveDynamic
<1>8. CursorInv' /\ LaunchInv'
  BY <1>1, <1>3, <1>7 DEF Inv, CursorInv, LaunchInv
<1>. QED
  BY <1>2, <1>4, <1>8 DEF Inv

LEMMA RefreshFailsInv ==
  ASSUME Inv, RefreshFailsLate \/ \E a \in App : DynamicFails(a)
  PROVE  Inv'
<1>1. /\ cursor' = LaneAdvanced
      /\ run' = Idle
      /\ UNCHANGED <<queue, released, owed>>
  BY DEF RefreshFailsLate, DynamicFails, LaneAfterFailure
<1>2. QueueInv'
  BY <1>1, QueueSame DEF Inv
<1>3. RunInv' /\ HeldInv' /\ run'.pc = "idle"
  BY <1>1, RunEnds
<1>4. CursorInv' /\ LaunchInv'
  BY <1>1, <1>3, LaneFacts DEF Inv, CursorInv, LaunchInv
<1>. QED
  BY <1>2, <1>3, <1>4 DEF Inv

-----------------------------------------------------------------------------
(* The ingestion queue.                                                    *)

\* A task moves only while no launch is checkpointed.
LEMMA IngestingFacts ==
  ASSUME Inv, Ingesting
  PROVE  /\ run.pc = "part" /\ run.parts # <<>> /\ Kind = "integrated"
         /\ run \in RunRecord
         /\ run.left \in Nat /\ run.left > 0 /\ run.room \in Nat
         /\ run.app # NoApp => run.app \in OpenTasks \ leased
         /\ cursor.launch = NoLaunch
<1>1. /\ run.pc = "part" /\ run.parts # <<>> /\ Kind = "integrated"
      /\ run \in RunRecord
  BY DEF Inv, RunInv, Ingesting
<1>2. run.left \in Nat /\ run.left > 0 /\ run.room \in Nat
  BY <1>1 DEF Ingesting, Continues, RunRecord
<1>3. cursor.launch = NoLaunch
  BY <1>1, <1>2 DEF Inv, LaunchInv
<1>4. run.app # NoApp => run.app \in OpenTasks \ leased
  BY <1>1 DEF Inv, HeldInv, Holds, RunRecord
<1>. QED
  BY <1>1, <1>2, <1>3, <1>4

LEMMA SpentFacts ==
  ASSUME NEW r \in RunRecord, r.left > 0, NEW u \in BOOLEAN
  PROVE  /\ [Spent(r) EXCEPT !.pc = "ingested"] \in RunRecord
         /\ [Spent(r) EXCEPT !.pc = "ingested"].pc = "ingested"
         /\ [Spent(r) EXCEPT !.pc = "ingested"].parts = r.parts
         /\ [Spent(r) EXCEPT !.pc = "ingested"].app = r.app
         /\ [Spent(r) EXCEPT !.pc = "ingested", !.urgent = @ \/ u] \in RunRecord
         /\ [Spent(r) EXCEPT !.pc = "ingested", !.urgent = @ \/ u].pc = "ingested"
         /\ [Spent(r) EXCEPT !.pc = "ingested", !.urgent = @ \/ u].parts = r.parts
         /\ [Spent(r) EXCEPT !.pc = "ingested", !.urgent = @ \/ u].app = r.app
<1>1. r.left - 1 \in Nat /\ (IF r.room > 0 THEN r.room - 1 ELSE 0) \in Nat
  BY DEF RunRecord
<1>2. PICK t : t = Spent(r)
  OBVIOUS
<1>3. t \in RunRecord /\ t.parts = r.parts /\ t.app = r.app
  BY <1>1, <1>2 DEF Spent, RunRecord
<1>4. [t EXCEPT !.pc = "ingested"] \in RunRecord
  BY <1>3 DEF RunRecord
<1>5. [t EXCEPT !.pc = "ingested", !.urgent = @ \/ u] \in RunRecord
  <2>1. (t.urgent \/ u) \in BOOLEAN
    OBVIOUS
  <2>. QED
    BY <1>3, <2>1 DEF RunRecord
<1>. QED
  BY <1>2, <1>3, <1>4, <1>5 DEF RunRecord

LEMMA ClaimTaskInv == ASSUME Inv, ClaimTask PROVE Inv'
<1>1. /\ Ingesting /\ run.app = NoApp
      /\ UNCHANGED <<queue, released, cursor, owed>>
  BY DEF ClaimTask
<1>2. PICK i \in Claimable : run' = [run EXCEPT !.app = line[i]]
  BY DEF ClaimTask
<1>3. line[i] \in OpenTasks \ leased
  BY <1>2 DEF Claimable, Inv, QueueInv, Range
<1>4. line[i] \in App
  BY <1>3 DEF OpenTasks
<1>5. QueueInv'
  BY <1>1, QueueSame DEF Inv
<1>6. /\ run' \in RunRecord
      /\ run'.pc = "part" /\ run'.parts = run.parts /\ run'.parts # <<>>
      /\ run'.app = line[i] /\ run'.left = run.left
  BY <1>1, <1>2, <1>4, IngestingFacts DEF RunRecord
<1>7. RunInv'
  BY <1>1, <1>6, IngestingFacts DEF RunInv, Kind
<1>8. HeldInv'
  BY <1>1, <1>3, <1>6 DEF HeldInv, Holds, OpenTasks, queue
<1>9. CursorInv' /\ LaunchInv'
  BY <1>1, <1>6, IngestingFacts DEF Inv, CursorInv, LaunchInv
<1>. QED
  BY <1>5, <1>7, <1>8, <1>9 DEF Inv

\* A stage is finished, and the task still waits to be advanced.
LEMMA IngestedInv ==
  ASSUME Inv, Ingesting, run.app # NoApp,
         run' \in RunRecord, run'.pc = "ingested",
         run'.parts = run.parts, run'.app = run.app,
         released' \subseteq App, UNCHANGED <<queue, cursor, owed>>
  PROVE  Inv'
<1>1. QueueInv'
  BY QueueSame DEF Inv
<1>2. RunInv'
  BY IngestingFacts DEF RunInv, Kind, OpenTasks
<1>3. HeldInv'
  BY IngestingFacts DEF HeldInv, Holds, OpenTasks, queue
<1>4. CursorInv' /\ LaunchInv'
  BY IngestingFacts DEF Inv, CursorInv, LaunchInv
<1>. QED
  BY <1>1, <1>2, <1>3, <1>4 DEF Inv

LEMMA StageIsObservedInv == ASSUME Inv, StageIsObserved PROVE Inv'
<1>1. /\ Ingesting /\ run.app # NoApp
      /\ run' = [Spent(run) EXCEPT !.pc = "ingested"]
      /\ UNCHANGED <<queue, released, cursor, owed>>
  BY DEF StageIsObserved
<1>2. PICK r : r = run
  OBVIOUS
<1>3. r \in RunRecord /\ r.left > 0
  BY <1>1, <1>2, IngestingFacts
<1>4. /\ run' \in RunRecord /\ run'.pc = "ingested"
      /\ run'.parts = run.parts /\ run'.app = run.app
  BY <1>1, <1>2, <1>3, SpentFacts
<1>5. released' \subseteq App
  BY <1>1 DEF Inv, CursorInv
<1>. QED
  BY <1>1, <1>4, <1>5, IngestedInv

LEMMA IngestStageInv == ASSUME Inv, IngestStage PROVE Inv'
<1>1. /\ Ingesting /\ run.app # NoApp
      /\ Succeeds(run.app, StageOf(run.app))
      /\ run' = [Spent(run) EXCEPT !.pc = "ingested", !.urgent = @ \/ Discovered(run.app)]
      /\ UNCHANGED <<queue, cursor, owed>>
  BY DEF IngestStage
<1>2. PICK r : r = run
  OBVIOUS
<1>3. r \in RunRecord /\ r.left > 0 /\ r.app \in App
  BY <1>1, <1>2, IngestingFacts DEF OpenTasks
<1>4. PICK u \in BOOLEAN : u = Discovered(run.app)
  <2>1. Discovered(run.app) \in BOOLEAN
    BY DEF Discovered
  <2>. QED
    BY <2>1
<1>5. /\ run' \in RunRecord /\ run'.pc = "ingested"
      /\ run'.parts = run.parts /\ run'.app = run.app
  BY <1>1, <1>2, <1>3, <1>4, SpentFacts
<1>6. released' \subseteq App
  <2>1. released \subseteq App /\ run.app \in App
    BY <1>2, <1>3 DEF Inv, CursorInv
  <2>. QED
    BY <1>1, <2>1 DEF Succeeds
<1>. QED
  BY <1>1, <1>5, <1>6, IngestedInv

LEMMA AdvanceTaskInv == ASSUME Inv, AdvanceTask PROVE Inv'
<1>1. /\ run.pc = "ingested" /\ run.parts # <<>> /\ Kind = "integrated"
      /\ run \in RunRecord
      /\ Advance(run.app)
      /\ UNCHANGED <<leased, paused, released, cursor, owed>>
  BY DEF AdvanceTask, Inv, RunInv
<1>2. PICK a : a = run.app
  OBVIOUS
<1>3. a \in OpenTasks \ leased /\ Advance(a)
  BY <1>1, <1>2 DEF Inv, RunInv, HeldInv, Holds
<1>4. /\ QueueInv'
      /\ task'[a].status \in {"open", "complete"}
  BY <1>1, <1>3, AdvanceFacts DEF Inv
<1>5. /\ run' \in RunRecord
      /\ run'.pc = "part" /\ run'.parts = run.parts /\ run'.parts # <<>>
      /\ run'.app = IF task'[a].status = "complete" THEN NoApp ELSE a
  <2>1. CASE task'[a].status = "complete"
    <3>1. run' = [run EXCEPT !.pc = "part", !.app = NoApp, !.urgent = FALSE]
      BY <1>2, <2>1 DEF AdvanceTask
    <3>. QED
      BY <1>1, <2>1, <3>1 DEF RunRecord
  <2>2. CASE task'[a].status # "complete"
    <3>1. run' = [run EXCEPT !.pc = "part"]
      BY <1>2, <2>2 DEF AdvanceTask
    <3>. QED
      BY <1>1, <1>2, <2>2, <3>1 DEF RunRecord
  <2>. QED
    BY <2>1, <2>2
<1>6. RunInv'
  BY <1>1, <1>5 DEF RunInv, Kind
<1>7. HeldInv'
  <2>1. ASSUME NEW b \in App, Holds(b)'
        PROVE  b \in OpenTasks' \ leased'
    <3>1. b = a /\ task'[a].status = "open"
      BY <1>4, <1>5, <2>1, Lengths DEF Holds
    <3>. QED
      BY <1>1, <1>3, <2>1, <3>1 DEF OpenTasks
  <2>. QED
    BY <2>1 DEF HeldInv
<1>8. CursorInv' /\ LaunchInv'
  BY <1>1, <1>5 DEF Inv, CursorInv, LaunchInv
<1>. QED
  BY <1>4, <1>6, <1>7, <1>8 DEF Inv

LEMMA IngestFailsInv == ASSUME Inv, IngestFails PROVE Inv'
<1>1. /\ Ingesting /\ run.app # NoApp
      /\ GiveBack(run.app)
      /\ run' = Idle
      /\ UNCHANGED <<leased, released, cursor, owed>>
  BY DEF IngestFails
<1>2. PICK a : a = run.app
  OBVIOUS
<1>3. a \in OpenTasks /\ GiveBack(a)
  BY <1>1, <1>2, IngestingFacts
<1>4. QueueInv'
  BY <1>1, <1>3, GiveBackFacts DEF Inv
<1>5. RunInv' /\ HeldInv' /\ run'.pc = "idle"
  BY <1>1, RunEnds
<1>6. CursorInv' /\ LaunchInv'
  BY <1>1, <1>5 DEF Inv, CursorInv, LaunchInv
<1>. QED
  BY <1>4, <1>5, <1>6 DEF Inv

-----------------------------------------------------------------------------
(* The rest of the system.                                                 *)

LEMMA CrashInv == ASSUME Inv, Crash PROVE Inv'
<1>1. run' = Idle /\ UNCHANGED <<task, line, paused, released, cursor, owed>>
  BY DEF Crash
<1>2. leased' \subseteq App
  <2>1. leased \subseteq App /\ run.app \in App \cup {NoApp}
    BY DEF Inv, QueueInv, RunInv, RunRecord
  <2>. QED
    BY <2>1 DEF Crash
<1>3. QueueInv'
  BY <1>1, <1>2 DEF Inv, QueueInv, OpenTasks, Lined
<1>4. RunInv' /\ HeldInv' /\ run'.pc = "idle"
  BY <1>1, RunEnds
<1>5. CursorInv' /\ LaunchInv'
  BY <1>1, <1>4 DEF Inv, CursorInv, LaunchInv
<1>. QED
  BY <1>3, <1>4, <1>5 DEF Inv

\* What neither the run nor the cursor takes part in.
LEMMA QueueOnlyInv ==
  ASSUME Inv, QueueInv', UNCHANGED <<run, released, cursor, owed>>,
         \A a \in OpenTasks \ leased : a \in OpenTasks' \ leased'
  PROVE  Inv'
<1>1. RunInv' /\ CursorInv' /\ LaunchInv'
  BY DEF Inv, RunInv, Kind, CursorInv, LaunchInv, NextStage
<1>2. HeldInv'
  BY DEF Inv, HeldInv, Holds
<1>. QED
  BY <1>1, <1>2 DEF Inv

LEMMA LeaseRunsOutInv == ASSUME Inv, NEW a \in App, LeaseRunsOut(a) PROVE Inv'
<1>1. leased' = leased \ {a} /\ UNCHANGED <<task, line, paused, released, cursor, run, owed>>
  BY DEF LeaseRunsOut
<1>2. QueueInv'
  BY <1>1 DEF Inv, QueueInv, OpenTasks, Lined
<1>. QED
  BY <1>1, <1>2, QueueOnlyInv DEF OpenTasks

LEMMA PauseEndsInv == ASSUME Inv, PauseEnds PROVE Inv'
<1>1. paused' = FALSE /\ UNCHANGED <<task, line, leased, released, cursor, run, owed>>
  BY DEF PauseEnds
<1>2. QueueInv'
  BY <1>1 DEF Inv, QueueInv, OpenTasks, Lined
<1>. QED
  BY <1>1, <1>2, QueueOnlyInv DEF OpenTasks

LEMMA ComesDueInv == ASSUME Inv, NEW a \in App, ComesDue(a) PROVE Inv'
<1>1. /\ a \in OpenTasks
      /\ line' = Append(line, a)
      /\ UNCHANGED <<task, leased, paused, released, cursor, run, owed>>
  BY DEF ComesDue, OpenTasks
<1>2. a \notin Range(line)
  <2>1. ~\E i \in 1..Len(line) : line[i] = a
    BY DEF ComesDue, Contains
  <2>2. DOMAIN line = 1..Len(line)
    BY LenProperties DEF Inv, QueueInv, Lined
  <2>. QED
    BY <2>1, <2>2 DEF Range
<1>3. /\ Lined(Append(line, a), App)
      /\ Range(Append(line, a)) = Range(line) \cup {a}
  <2>1. PICK s : s = line
    OBVIOUS
  <2>2. Lined(s, App) /\ a \notin Range(s)
    BY <1>2, <2>1 DEF Inv, QueueInv
  <2>3. Lined(Append(s, a), App) /\ Range(Append(s, a)) = Range(s) \cup {a}
    BY <2>2, AppendFacts
  <2>. QED
    BY <2>1, <2>3
<1>4. QueueInv'
  BY <1>1, <1>3 DEF Inv, QueueInv, OpenTasks, Lined
<1>. QED
  BY <1>1, <1>4, QueueOnlyInv DEF OpenTasks

\* A task that enters the queue was in nobody's line.
LEMMA EnterFacts ==
  ASSUME QueueInv, NEW a \in App, Enter(a)
  PROVE  /\ QueueInv'
         /\ task[a].status \in {"absent", "dead"}
         /\ task'[a].status = "open" /\ task'[a].passed = task[a].passed
         /\ \A b \in App \ {a} : task'[b] = task[b]
<1>1. /\ line' = Append(line, a)
      /\ UNCHANGED <<leased, paused>>
      /\ task[a].status \in {"absent", "dead"}
  BY DEF Enter
<1>3. task \in [App -> Row] /\ task[a] \in Row
  BY DEF QueueInv
<1>4. PICK row \in Row :
        /\ task' = [task EXCEPT ![a] = row]
        /\ row.status = "open" /\ row.passed = task[a].passed
        /\ row.fails < FailureLimit
  <2>1. CASE /\ task[a].status = "absent"
             /\ \E full \in BOOLEAN :
                  task' = [task EXCEPT ![a].status = "open", ![a].full = full]
    <3>0. PICK full \in BOOLEAN :
            task' = [task EXCEPT ![a].status = "open", ![a].full = full]
      BY <2>1
    <3>1. PICK r : r = [task[a] EXCEPT !.status = "open", !.full = full]
      OBVIOUS
    <3>2. /\ r \in Row /\ r.status = "open" /\ r.passed = task[a].passed
          /\ r.fails = task[a].fails
      BY <1>3, <3>1 DEF Row
    <3>3. task' = [task EXCEPT ![a] = r]
      BY <1>3, <3>0, <3>1
    <3>4. task[a].fails < FailureLimit
      BY <2>1 DEF QueueInv
    <3>. QED
      BY <3>2, <3>3, <3>4
  <2>2. CASE task[a].status = "dead" /\ task' = [task EXCEPT ![a].status = "open",
                                                             ![a].fails = 0]
    <3>1. PICK r : r = [task[a] EXCEPT !.status = "open", !.fails = 0]
      OBVIOUS
    <3>2. /\ r \in Row /\ r.status = "open" /\ r.passed = task[a].passed
          /\ r.fails = 0
      <4>1. 0 \in 0..FailureLimit
        BY Lengths
      <4>. QED
        BY <1>3, <3>1, <4>1 DEF Row
    <3>3. task' = [task EXCEPT ![a] = r]
      BY <1>3, <2>2, <3>1
    <3>4. 0 < FailureLimit
      BY Lengths
    <3>. QED
      BY <3>2, <3>3, <3>4
  <2>. QED
    BY <2>1, <2>2 DEF Enter
<1>5. /\ task' \in [App -> Row]
      /\ task'[a] = row
      /\ \A b \in App \ {a} : task'[b] = task[b]
  BY <1>3, <1>4
<1>6. row.passed < Len(Stages)
  BY <1>1, <1>4 DEF QueueInv
<1>7. \A b \in App :
        /\ task'[b].status # "complete" => task'[b].passed < Len(Stages)
        /\ task'[b].status \in {"absent", "open"} => task'[b].fails < FailureLimit
  BY <1>4, <1>5, <1>6 DEF QueueInv
<1>8. PICK s : s = line
  OBVIOUS
<1>9. Lined(s, App) /\ a \notin Range(s)
  BY <1>1, <1>8 DEF QueueInv, OpenTasks
<1>10. Lined(Append(s, a), App) /\ Range(Append(s, a)) = Range(s) \cup {a}
  BY <1>9, AppendFacts
<1>11. \A b \in Range(s) : b \in App \ {a} /\ task[b].status = "open"
  BY <1>8, <1>9 DEF QueueInv, OpenTasks
<1>12. Lined(line', App) /\ Range(line') \subseteq {b \in App : task'[b].status = "open"}
  BY <1>1, <1>4, <1>5, <1>8, <1>10, <1>11
<1>13. QueueInv'
  BY <1>1, <1>5, <1>7, <1>12 DEF QueueInv, OpenTasks, Lined
<1>. QED
  BY <1>1, <1>4, <1>5, <1>13

LEMMA EnterInv == ASSUME Inv, NEW a \in App, Enter(a) PROVE Inv'
<1>1. UNCHANGED <<leased, paused, released, cursor, run, owed>>
  BY DEF Enter
<1>2. /\ QueueInv'
      /\ \A b \in App : task[b].status = "open" => task'[b].status = "open"
  BY EnterFacts DEF Inv
<1>. QED
  BY <1>1, <1>2, QueueOnlyInv DEF OpenTasks

LEMMA WithdrawInv == ASSUME Inv, Withdraw PROVE Inv'
<1>1. released' = released \ {cursor.launch.app} /\ UNCHANGED <<queue, cursor, run, owed>>
  BY DEF Withdraw
<1>2. QueueInv'
  BY <1>1, QueueSame DEF Inv
<1>3. RunInv' /\ HeldInv'
  BY <1>1 DEF Inv, RunInv, Kind, HeldInv, Holds, OpenTasks, queue
<1>4. CursorInv' /\ LaunchInv'
  BY <1>1 DEF Inv, CursorInv, LaunchInv, NextStage
<1>. QED
  BY <1>2, <1>3, <1>4 DEF Inv

\* A step that leaves all of it alone.
LEMMA StutterInv ==
  ASSUME Inv, UNCHANGED <<queue, released, cursor, run, owed>>
  PROVE  Inv'
<1>1. QueueInv'
  BY QueueSame DEF Inv
<1>. QED
  BY <1>1, QueueOnlyInv DEF queue, OpenTasks

-----------------------------------------------------------------------------
(* The theorems.                                                           *)

LEMMA InitInv == Init => Inv
<1> SUFFICES ASSUME Init PROVE Inv
  OBVIOUS
<1> USE Init
<1>1. <<>> \in Seq(App) /\ Len(<<>>) = 0
  BY EmptySeq
<1>2. Lined(line, App) /\ Range(line) = {}
  BY <1>1, LenProperties DEF Init, Lined, IsInjective, Range
<1>3. QueueInv
  <2>1. PICK row : row = [status |-> "absent", passed |-> 0, full |-> FALSE, fails |-> 0]
    OBVIOUS
  <2>2. /\ row \in Row
        /\ row.passed < Len(Stages) /\ row.fails < FailureLimit
    BY <2>1, Lengths DEF Row
  <2>3. task = [a \in App |-> row]
    BY <2>1 DEF Init
  <2>4. task \in [App -> Row] /\ \A a \in App : task[a] = row
    BY <2>2, <2>3
  <2>5. leased = {} /\ paused \in BOOLEAN
    BY DEF Init
  <2>. QED
    BY <1>2, <2>2, <2>4, <2>5 DEF QueueInv
<1>4. RunInv /\ HeldInv
  BY IdleFacts DEF Init, RunInv, HeldInv, Holds
<1>5. CursorInv /\ LaunchInv
  BY NoLaunchFacts, IdleFacts, Lengths DEF Init, CursorInv, LaunchInv
<1>. QED
  BY <1>3, <1>4, <1>5 DEF Inv

LEMMA NextInv == Inv /\ [Next]_vars => Inv'
<1> SUFFICES ASSUME Inv, [Next]_vars PROVE Inv'
  OBVIOUS
<1>1. CASE RunStep
  BY <1>1, StartInv, DivideInv, EndPartInv, LaunchWithdrawnInv, LaunchStageInv,
     SaveLaunchInv, LaunchFailsInv, LaunchReturnsInv, LaneIsEmptyInv, SaveDynamicInv,
     DynamicStageInv, RefreshFailsInv, ClaimTaskInv, StageIsObservedInv,
     IngestStageInv, AdvanceTaskInv, IngestFailsInv DEF RunStep
<1>2. CASE Deadline \/ RefreshFailsLate \/ Crash \/ Withdraw
  BY <1>2, DeadlineInv, RefreshFailsInv, CrashInv, WithdrawInv
<1>3. CASE Time
  BY <1>3, PauseEndsInv, LeaseRunsOutInv, ComesDueInv DEF Time
<1>4. CASE \E a \in App : Enter(a)
  BY <1>4, EnterInv
<1>5. CASE Settle
  BY <1>5, StutterInv DEF Settle
<1>6. CASE UNCHANGED vars
  BY <1>6, StutterInv DEF vars, queue
<1>. QED
  BY <1>1, <1>2, <1>3, <1>4, <1>5, <1>6 DEF Next

\* The invariant of the run and its queue, which the theorems below rest on: the
\* rows of game_ingestion_jobs, the run's own variables, the tasks it holds, the
\* saved cursor and the launch in it.
THEOREM Invariance == Spec => []Inv
<1>1. Init => Inv
  BY InitInv
<1>2. Inv /\ [Next]_vars => Inv'
  BY NextInv
<1>. QED
  BY <1>1, <1>2, PTL DEF Spec

\* Every variable keeps its type: no run spends stages it does not have, no lane
\* is passed twice over, and each due task stands in line once (enrichment.rs and
\* game_ingestion.rs).
THEOREM TypeCorrect == Spec => []TypeOK
<1>1. Inv => TypeOK
  BY DEF Inv, QueueInv, RunInv, RunRecord, CursorInv, Lined, OpenTasks, TypeOK
<1>. QED
  BY <1>1, Invariance, PTL

\* Outside the window between the release and its checkpoint nothing is found
\* that is not saved.
LEMMA NothingFound ==
  ASSUME run.pc # "refreshed"
  PROVE  Found = {}
BY DEF Found

\* A step that leaves the launch, and what is owed of it, alone.
LEMMA NotForgotten ==
  ASSUME UNCHANGED <<owed, cursor.launch>>, Found \subseteq Found'
  PROVE  Forgotten' \ Forgotten = {}
BY DEF Forgotten, Rest

\* A run that ends forgets what it had found and not saved, and no more.
LEMMA EndForgets ==
  ASSUME UNCHANGED <<owed, cursor.launch>>
  PROVE  Forgotten' \ Forgotten \subseteq Found
BY DEF Forgotten, Rest

LEMMA StepForgets ==
  ASSUME Inv, [Next]_vars
  PROVE  Forgotten' \ Forgotten \subseteq IF run' = Idle THEN Found ELSE {}
<1>1. Found = {} \/ run.pc = "refreshed"
  BY NothingFound
<1>2. CASE Start
  <2>1. owed' \subseteq owed /\ UNCHANGED cursor /\ Found = {}
    BY <1>2, NothingFound DEF Start
  <2>. QED
    BY <2>1 DEF Forgotten, Rest
<1>3. CASE LaunchWithdrawn
  <2>1. owed' = owed \ Rest(cursor.launch) /\ Found = {}
    BY <1>3, NothingFound DEF LaunchWithdrawn, Resuming
  <2>. QED
    BY <2>1 DEF Forgotten
<1>4. CASE LaunchStage
  <2>1. owed' \subseteq owed /\ UNCHANGED cursor /\ Found = {}
    BY <1>4, NothingFound DEF LaunchStage, Resuming
  <2>. QED
    BY <2>1 DEF Forgotten, Rest
<1>5. CASE SaveLaunch
  <2>1. PICK launch \in Launch : launch = cursor.launch
    BY DEF Inv, CursorInv
  <2>2. /\ cursor'.launch = After(launch)
        /\ UNCHANGED owed /\ Found = {}
        /\ <<launch.app, LaunchStages[launch.next]>> \notin owed
    BY <1>5, <2>1, NothingFound DEF SaveLaunch, Inv, CursorInv, LaunchInv, NextStage
  <2>3. Rest(launch) \ {<<launch.app, LaunchStages[launch.next]>>} \subseteq Rest(After(launch))
    BY AfterFacts
  <2>4. PICK before, after : before = Rest(launch) /\ after = Rest(After(launch))
    OBVIOUS
  <2>5. Forgotten = owed \ before /\ Forgotten' \subseteq owed \ after
    BY <2>1, <2>2, <2>4 DEF Forgotten, Rest
  <2>. QED
    BY <2>2, <2>3, <2>4, <2>5
<1>6. ASSUME NEW a \in App, DynamicStage(a)
      PROVE  Forgotten' \ Forgotten = {}
  <2>1. /\ UNCHANGED cursor /\ Found = {}
        /\ owed' = IF Discovered(a) THEN owed \cup Rest(LaunchOf(a)) ELSE owed
    BY <1>6, NothingFound DEF DynamicStage, Refreshing
  <2>2. CASE Discovered(a)
    <3>1. run'.pc = "refreshed" /\ run'.app = a /\ run'.fresh = TRUE
      BY <1>6, <2>2 DEF DynamicStage, Inv, RunInv, RunRecord
    <3>2. Found' = Rest(LaunchOf(a))
      BY <3>1 DEF Found, Rest, LaunchOf
    <3>3. Rest(cursor.launch)' = Rest(cursor.launch)
      BY <2>1 DEF Rest
    <3>. QED
      BY <2>1, <2>2, <3>2, <3>3 DEF Forgotten
  <2>3. CASE ~Discovered(a)
    BY <2>1, <2>3, NotForgotten
  <2>. QED
    BY <2>2, <2>3
<1>7. CASE SaveDynamic
  <2>1. run.pc = "refreshed" /\ cursor.launch = NoLaunch /\ UNCHANGED owed
    BY <1>7 DEF SaveDynamic, Inv, LaunchInv
  <2>2. owed \cap Rest(NoLaunch) = {}
    BY NoLaunchFacts DEF Inv, CursorInv
  <2>3. CASE run.fresh
    <3>1. cursor'.launch = LaunchOf(run.app)
      BY <1>7, <2>3, LaneFacts DEF SaveDynamic
    <3>2. Found = Rest(LaunchOf(run.app))
      BY <2>1, <2>3 DEF Found
    <3>3. Rest(cursor.launch)' = Rest(LaunchOf(run.app))
      BY <3>1 DEF Rest
    <3>4. Forgotten = owed \ Rest(LaunchOf(run.app))
      BY <2>1, <2>2, <3>2 DEF Forgotten
    <3>. QED
      BY <2>1, <3>3, <3>4 DEF Forgotten
  <2>4. CASE ~run.fresh
    <3>1. cursor'.launch = cursor.launch /\ Found = {}
      BY <1>7, <2>4, LaneFacts DEF SaveDynamic, Found
    <3>. QED
      BY <2>1, <3>1, NotForgotten
  <2>. QED
    BY <2>3, <2>4
<1>8. CASE Crash \/ RefreshFailsLate
  <2>1. run' = Idle /\ UNCHANGED <<owed, cursor.launch>>
    BY <1>8, LaneFacts DEF Crash, RefreshFailsLate, LaneAfterFailure
  <2>. QED
    BY <2>1, EndForgets
<1>9. ASSUME UNCHANGED <<owed, cursor.launch>>, UNCHANGED run \/ run.pc # "refreshed"
      PROVE  Forgotten' \ Forgotten = {}
  <2>1. Found \subseteq Found'
    BY <1>9, NothingFound DEF Found, Rest
  <2>. QED
    BY <1>9, <2>1, NotForgotten
<1>10. CASE \/ EndPart \/ Deadline \/ LaunchFails \/ LaunchReturns
            \/ ClaimTask \/ StageIsObserved \/ IngestStage \/ AdvanceTask \/ IngestFails
  BY <1>9, <1>10
     DEF EndPart, Deadline, LaunchFails, Resuming, LaunchReturns, ClaimTask,
         StageIsObserved, IngestStage, Ingesting, AdvanceTask, IngestFails
<1>11. CASE Divide
  <2>1. cursor'.launch = cursor.launch
    BY <1>11 DEF Divide, Begun, Inv, CursorInv
  <2>. QED
    BY <1>9, <1>11, <2>1 DEF Divide
<1>12. CASE LaneIsEmpty \/ \E a \in App : DynamicFails(a)
  BY <1>9, <1>12, LaneFacts DEF LaneIsEmpty, DynamicFails, Refreshing, LaneAfterFailure
<1>13. CASE Time \/ Withdraw \/ Settle \/ \E a \in App : Enter(a)
  BY <1>9, <1>13 DEF Time, PauseEnds, LeaseRunsOut, ComesDue, Withdraw, Settle, Enter
<1>14. CASE UNCHANGED vars
  BY <1>9, <1>14 DEF vars
<1>. QED
  BY <1>2, <1>3, <1>4, <1>5, <1>6, <1>7, <1>8, <1>10, <1>11, <1>12, <1>13, <1>14
     DEF Next, RunStep

\* A launch is forgotten by a run that ends after the release is in the database
\* and before its checkpoint is (advance_lane), and by no other cut-off, failure
\* or discovery (resume_launch, dynamic), for any games, lanes and budgets.
THEOREM OnlyTheUnsavedIsForgotten == Spec => ForgetsOnlyTheUnsaved
<1>1. Inv /\ [Next]_vars => [Forgotten' \ Forgotten \subseteq IF run' = Idle THEN Found ELSE {}]_vars
  BY StepForgets
<1>. QED
  BY <1>1, Invariance, PTL DEF Spec, ForgetsOnlyTheUnsaved

\* No lane and no task has a turn while a launch is checkpointed (run_with,
\* dynamic): the run that found it and every later one finish it first.
THEOREM LaunchesComeFirst == Spec => []LaunchesGoFirst
<1>1. Inv => LaunchesGoFirst
  BY DEF Inv, LaunchInv, LaunchesGoFirst
<1>. QED
  BY <1>1, Invariance, PTL

-----------------------------------------------------------------------------
(* The queue as the run uses it implements IngestionPipeline.              *)

LEMMA HolderFacts ==
  ASSUME NEW a
  PROVE  /\ a \in leased => HolderOf(a) = "lost"
         /\ a \notin leased /\ Holds(a) => HolderOf(a) = "run"
         /\ a \notin leased /\ ~Holds(a) => HolderOf(a) = NoApp
         /\ a \in leased' => HolderOf(a)' = "lost"
         /\ a \notin leased' /\ Holds(a)' => HolderOf(a)' = "run"
         /\ a \notin leased' /\ ~Holds(a)' => HolderOf(a)' = NoApp
BY DEF HolderOf, Holds

\* What a step does to one game, in the terms of the pipeline.
AppMoves(a) ==
  \/ /\ UNCHANGED <<task[a].status, task[a].passed>>
     /\ \/ UNCHANGED HolderOf(a)
        \/ task[a].status = "open" /\ HolderOf(a)' \in {"run", "lost"}
        \/ HolderOf(a)' = NoApp
  \/ /\ task[a].status \in {"absent", "dead"} /\ task'[a].status = "open"
     /\ UNCHANGED <<task[a].passed, HolderOf(a)>>
  \/ /\ task[a].status = "open" /\ HolderOf(a) \in {"run", "lost"}
     /\ \/ /\ task'[a].passed = task[a].passed + 1 /\ task'[a].passed < 4
           /\ UNCHANGED <<task[a].status, HolderOf(a)>>
        \/ /\ task'[a].status = "complete" /\ task'[a].passed = 4 /\ HolderOf(a)' = NoApp
        \/ /\ task'[a].status = "dead" /\ HolderOf(a)' = NoApp /\ UNCHANGED task[a].passed

LEMMA PipelineMoves ==
  ASSUME Inv, Inv', \A a \in App : AppMoves(a)
  PROVE  Pipeline!Next
<1>1. \A a \in App : Pipeline!AppStep(a)
  BY DEF AppMoves, Pipeline!AppStep, Pipeline!Same, Pipeline!Enter, Pipeline!Take,
     Pipeline!Drop, Pipeline!Held, Pipeline!Pass, Pipeline!Complete, Pipeline!Bury,
     Pipeline!Revive, Pipeline!Stages
<1>2. [a \in App |-> task[a].status]' \in [App -> Pipeline!Phase]
  BY DEF Inv, QueueInv, Row, Pipeline!Phase
<1>3. [a \in App |-> task[a].passed]' \in [App -> 0..Pipeline!Stages]
  BY Lengths DEF Inv, QueueInv, Row, Pipeline!Stages
<1>4. [a \in App |-> HolderOf(a)]' \in [App -> {"run", "lost"} \cup {NoApp}]
  BY HolderFacts
<1>. QED
  BY <1>1, <1>2, <1>3, <1>4 DEF Pipeline!Next

\* A step that moves no task: the run may let go of the one it holds.
LEMMA QuietMoves ==
  ASSUME Inv, UNCHANGED <<task, leased>>, \A a \in App : Holds(a)' => Holds(a), NEW a \in App
  PROVE  AppMoves(a)
<1>1. UNCHANGED <<task[a].status, task[a].passed>>
  OBVIOUS
<1>2. UNCHANGED HolderOf(a) \/ HolderOf(a)' = NoApp
  BY HolderFacts
<1>. QED
  BY <1>1, <1>2 DEF AppMoves

LEMMA StoppedIsQuiet ==
  ASSUME run' = Idle, NEW a \in App
  PROVE  ~Holds(a)'
BY IdleFacts DEF Holds

LEMMA QuietSteps ==
  ASSUME Inv,
         \/ Start \/ Divide \/ EndPart \/ Deadline
         \/ LaunchWithdrawn \/ LaunchStage \/ SaveLaunch \/ LaunchFails \/ LaunchReturns
         \/ LaneIsEmpty \/ SaveDynamic \/ (\E b \in App : DynamicStage(b) \/ DynamicFails(b))
         \/ RefreshFailsLate \/ StageIsObserved \/ IngestStage
         \/ PauseEnds \/ (\E b \in App : ComesDue(b)) \/ Withdraw \/ Settle,
         NEW a \in App
  PROVE  AppMoves(a)
<1>1. run \in RunRecord /\ (run.pc \in {"idle", "launch", "launched"} => run.app = NoApp)
      /\ (run.pc = "part" /\ Kind = "dynamic" => run.app = NoApp)
  BY DEF Inv, RunInv
<1>2. UNCHANGED <<task, leased>>
  BY DEF queue, Start, Divide, EndPart, Deadline, LaunchWithdrawn, LaunchStage, SaveLaunch,
     LaunchFails, LaunchReturns, LaneIsEmpty, SaveDynamic, DynamicStage, DynamicFails,
     RefreshFailsLate, StageIsObserved, IngestStage, PauseEnds, ComesDue, Withdraw, Settle
<1>3. ASSUME NEW b \in App, Holds(b)' PROVE Holds(b)
  <2>1. CASE run' = Idle
    BY <1>3, <2>1, StoppedIsQuiet
  <2>2. CASE UNCHANGED run
    BY <1>3, <2>2 DEF Holds
  <2>3. CASE Start
    BY <1>3, <2>3, IdleFacts DEF Start, Holds, RunRecord
  <2>4. CASE Divide \/ EndPart
    BY <1>1, <1>3, <2>1, <2>4, IdleFacts, Lengths DEF Divide, EndPart, Holds, RunRecord
  <2>5. CASE LaunchStage \/ SaveLaunch \/ LaunchReturns
    BY <1>1, <1>3, <2>5, Lengths DEF LaunchStage, SaveLaunch, LaunchReturns, Holds, RunRecord
  <2>6. CASE LaneIsEmpty \/ SaveDynamic \/ \E c \in App : DynamicStage(c)
    BY <1>1, <1>3, <2>6, Lengths
       DEF LaneIsEmpty, Refreshing, SaveDynamic, DynamicStage, Holds, RunRecord
  <2>7. CASE StageIsObserved \/ IngestStage
    BY <1>1, <1>3, <2>7 DEF StageIsObserved, IngestStage, Ingesting, Spent, Holds, RunRecord
  <2>8. CASE LaunchWithdrawn \/ PauseEnds \/ (\E c \in App : ComesDue(c)) \/ Withdraw \/ Settle
    BY <2>2, <2>8 DEF LaunchWithdrawn, PauseEnds, ComesDue, Withdraw, Settle
  <2>9. CASE Deadline \/ LaunchFails \/ RefreshFailsLate \/ \E c \in App : DynamicFails(c)
    BY <2>1, <2>9 DEF Deadline, LaunchFails, RefreshFailsLate, DynamicFails
  <2>. QED
    BY <2>3, <2>4, <2>5, <2>6, <2>7, <2>8, <2>9
<1>. QED
  BY <1>2, <1>3, QuietMoves

\* The oldest free task is taken.
LEMMA ClaimTaskMoves == ASSUME Inv, ClaimTask, NEW a \in App PROVE AppMoves(a)
<1>1. PICK i \in Claimable : run' = [run EXCEPT !.app = line[i]]
  BY DEF ClaimTask
<1>2. /\ run.pc = "part" /\ run.app = NoApp /\ run \in RunRecord
      /\ UNCHANGED <<task, leased>>
  BY DEF ClaimTask, Ingesting, queue, Inv, RunInv
<1>3. line[i] \in OpenTasks \ leased
  BY <1>1 DEF Claimable, Inv, QueueInv, Range
<1>4. ~Holds(a) /\ (Holds(a)' => a = line[i])
  BY <1>1, <1>2, Lengths DEF Holds, RunRecord
<1>5. CASE Holds(a)'
  BY <1>2, <1>3, <1>4, <1>5, HolderFacts DEF AppMoves, OpenTasks
<1>6. CASE ~Holds(a)'
  BY <1>2, <1>4, <1>6, HolderFacts DEF AppMoves
<1>. QED
  BY <1>5, <1>6

\* The holder finishes a stage.
LEMMA AdvanceTaskMoves == ASSUME Inv, AdvanceTask, NEW a \in App PROVE AppMoves(a)
<1>1. PICK b : b = run.app
  OBVIOUS
<1>2. /\ run.pc = "ingested" /\ run \in RunRecord
      /\ Holds(b) /\ b \in OpenTasks \ leased /\ Advance(b)
      /\ UNCHANGED <<leased, paused>>
  BY <1>1 DEF AdvanceTask, Inv, RunInv, HeldInv, Holds
<1>3. /\ \A c \in App \ {b} : task'[c] = task[c]
      /\ \/ /\ task'[b].status = "complete" /\ task'[b].passed = 4
         \/ /\ task'[b].status = "open"
            /\ task'[b].passed = task[b].passed + 1 /\ task'[b].passed < 4
  BY <1>2, AdvanceFacts DEF Inv
<1>4. /\ run'.pc = "part"
      /\ run'.app = IF task'[b].status = "complete" THEN NoApp ELSE b
  BY <1>1, <1>2 DEF AdvanceTask, RunRecord
<1>5. CASE a # b
  <2>1. ~Holds(a) /\ ~Holds(a)'
    BY <1>1, <1>4, <1>5, Lengths DEF Holds
  <2>. QED
    BY <1>2, <1>3, <1>5, <2>1, HolderFacts DEF AppMoves
<1>6. CASE a = b
  <2>1. HolderOf(a) = "run" /\ task[a].status = "open"
    BY <1>2, <1>6, HolderFacts DEF OpenTasks
  <2>2. CASE task'[b].status = "complete"
    <3>1. HolderOf(a)' = NoApp
      BY <1>2, <1>4, <1>6, <2>2, HolderFacts, Lengths DEF Holds
    <3>. QED
      BY <1>3, <1>6, <2>1, <2>2, <3>1 DEF AppMoves
  <2>3. CASE task'[b].status # "complete"
    <3>1. HolderOf(a)' = "run"
      BY <1>2, <1>4, <1>6, <2>3, HolderFacts DEF Holds
    <3>. QED
      BY <1>3, <1>6, <2>1, <2>3, <3>1 DEF AppMoves
  <2>. QED
    BY <2>2, <2>3
<1>. QED
  BY <1>5, <1>6

\* The holder gives the task back, for a retry or for good.
LEMMA IngestFailsMoves == ASSUME Inv, IngestFails, NEW a \in App PROVE AppMoves(a)
<1>1. PICK b : b = run.app
  OBVIOUS
<1>2. /\ Ingesting /\ b # NoApp /\ GiveBack(b)
      /\ run' = Idle /\ UNCHANGED leased
  BY <1>1 DEF IngestFails
<1>3. run.pc = "part" /\ b \in OpenTasks \ leased /\ Holds(b)
  BY <1>1, <1>2, IngestingFacts DEF Holds
<1>4. /\ \A c \in App \ {b} : task'[c] = task[c]
      /\ task'[b].status \in {"open", "dead"} /\ task'[b].passed = task[b].passed
  BY <1>2, <1>3, GiveBackFacts DEF Inv
<1>5. ~Holds(a)'
  BY <1>2, StoppedIsQuiet
<1>6. CASE a # b
  <2>1. ~Holds(a)
    BY <1>1, <1>6 DEF Holds
  <2>. QED
    BY <1>2, <1>4, <1>5, <1>6, <2>1, HolderFacts DEF AppMoves
<1>7. CASE a = b
  <2>1. /\ HolderOf(a) = "run" /\ HolderOf(a)' = NoApp
        /\ task[a].status = "open"
    BY <1>2, <1>3, <1>5, <1>7, HolderFacts DEF OpenTasks
  <2>. QED
    BY <1>4, <1>7, <2>1 DEF AppMoves
<1>. QED
  BY <1>6, <1>7

\* A cut-off leaves the task to a lease nobody renews.
LEMMA CrashMoves == ASSUME Inv, Crash, NEW a \in App PROVE AppMoves(a)
<1>1. /\ run' = Idle /\ UNCHANGED task
      /\ leased \subseteq leased'
      /\ \A b \in leased' : b \in leased \/ b = run.app
  BY DEF Crash
<1>2. ~Holds(a)'
  BY <1>1, StoppedIsQuiet
<1>3. CASE a \in leased
  BY <1>1, <1>3, HolderFacts DEF AppMoves
<1>4. CASE a \notin leased'
  BY <1>1, <1>2, <1>4, HolderFacts DEF AppMoves
<1>5. CASE a \in leased' /\ a \notin leased
  <2>1. run.parts # <<>> /\ Kind = "integrated" /\ run.app = a
    BY <1>5 DEF Crash
  <2>2. run.pc \in {"part", "ingested"}
    <3>1. run.pc \notin {"idle", "launch", "launched"} /\ run.pc # "refreshed"
      BY <2>1, Lengths DEF Inv, RunInv
    <3>. QED
      BY <3>1 DEF Inv, RunInv, RunRecord
  <2>3. task[a].status = "open"
    BY <2>1, <2>2 DEF Inv, HeldInv, Holds, OpenTasks
  <2>. QED
    BY <1>1, <1>5, <2>3, HolderFacts DEF AppMoves
<1>. QED
  BY <1>3, <1>4, <1>5

LEMMA LeaseRunsOutMoves ==
  ASSUME Inv, NEW b \in App, LeaseRunsOut(b), NEW a \in App
  PROVE  AppMoves(a)
<1>1. leased' = leased \ {b} /\ b \in leased /\ UNCHANGED <<task, run>>
  BY DEF LeaseRunsOut
<1>2. ~Holds(b)
  BY <1>1 DEF Inv, HeldInv
<1>3. Holds(a)' = Holds(a)
  BY <1>1 DEF Holds
<1>. QED
  BY <1>1, <1>2, <1>3, HolderFacts DEF AppMoves

LEMMA EnterMoves ==
  ASSUME Inv, NEW b \in App, Enter(b), NEW a \in App
  PROVE  AppMoves(a)
<1>1. UNCHANGED <<leased, run>>
  BY DEF Enter
<1>2. /\ task[b].status \in {"absent", "dead"}
      /\ task'[b].status = "open" /\ task'[b].passed = task[b].passed
      /\ \A c \in App \ {b} : task'[c] = task[c]
  BY EnterFacts DEF Inv
<1>3. HolderOf(a)' = HolderOf(a)
  BY <1>1 DEF HolderOf
<1>. QED
  BY <1>2, <1>3 DEF AppMoves

LEMMA PipelineSteps == Inv /\ Inv' /\ [Next]_vars => [Pipeline!Next]_(Pipeline!pipeline)
<1> SUFFICES ASSUME Inv, Inv', [Next]_vars PROVE [Pipeline!Next]_(Pipeline!pipeline)
  OBVIOUS
<1>1. CASE Next
  <2>1. ASSUME NEW a \in App PROVE AppMoves(a)
    BY <1>1, QuietSteps, ClaimTaskMoves, AdvanceTaskMoves, IngestFailsMoves, CrashMoves,
       LeaseRunsOutMoves, EnterMoves DEF Next, RunStep, Time
  <2>. QED
    BY <2>1, PipelineMoves
<1>2. CASE UNCHANGED vars
  BY <1>2 DEF vars, Pipeline!pipeline, HolderOf
<1>. QED
  BY <1>1, <1>2

LEMMA PipelineInit == Init => Pipeline!Init
<1> SUFFICES ASSUME Init PROVE Pipeline!Init
  OBVIOUS
<1>1. \A a \in App : task[a].status = "absent" /\ task[a].passed = 0
  BY DEF Init
<1>2. \A a \in App : HolderOf(a) = NoApp
  BY IdleFacts, HolderFacts DEF Init, Holds
<1>. QED
  BY <1>1, <1>2 DEF Pipeline!Init

\* The run moves the games of the queue as IngestionPipeline promises: stage by
\* stage, never one that another holds, whatever is cut off, fails or times out
\* (claim_tasks, advance_stage, retry_stage, defer_ingestion_job).
THEOREM MovesGamesThroughThePipeline == Spec => ImplementsPipeline
<1>1. Init => Pipeline!Init
  BY PipelineInit
<1>2. Inv /\ Inv' /\ [Next]_vars => [Pipeline!Next]_(Pipeline!pipeline)
  BY PipelineSteps
<1>. QED
  BY <1>1, <1>2, Invariance, PTL DEF Spec, ImplementsPipeline, Pipeline!Spec
=============================================================================
