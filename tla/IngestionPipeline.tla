--------------------------- MODULE IngestionPipeline ---------------------------
(***************************************************************************)
(* What the ingestion queue promises for each discovered app: the app goes *)
(* through its stages in order and at most once, moved only by the worker  *)
(* that holds it; it ends complete, for good, or dead at the stage that    *)
(* failed, from where an operator may revive it.                           *)
(***************************************************************************)
EXTENDS Integers

CONSTANTS App, Owner, NoOwner

VARIABLES phase,    \* absent, open, complete or dead
          passed,   \* how many of the stages are behind the app
          holder    \* the worker that may move the app

pipeline == <<phase, passed, holder>>

Phase == {"absent", "open", "complete", "dead"}

Stages == 4

Init ==
  /\ phase = [a \in App |-> "absent"]
  /\ passed = [a \in App |-> 0]
  /\ holder = [a \in App |-> NoOwner]

-----------------------------------------------------------------------------
(* What one step may do to one app.                                        *)

Same(a) == UNCHANGED <<phase[a], passed[a], holder[a]>>

Enter(a) ==
  /\ phase[a] = "absent"
  /\ phase'[a] = "open"
  /\ UNCHANGED <<passed[a], holder[a]>>

\* A claim of a free app, or of one whose holder is taken to have crashed.
Take(a) ==
  /\ phase[a] = "open"
  /\ holder'[a] \in Owner
  /\ UNCHANGED <<phase[a], passed[a]>>

Drop(a) ==
  /\ holder'[a] = NoOwner
  /\ UNCHANGED <<phase[a], passed[a]>>

Held(a) == phase[a] = "open" /\ holder[a] \in Owner

\* The holder finishes a stage: the next one is due, or the app is complete.
Pass(a) ==
  /\ Held(a)
  /\ passed'[a] = passed[a] + 1
  /\ passed'[a] < Stages
  /\ UNCHANGED <<phase[a], holder[a]>>

Complete(a) ==
  /\ Held(a)
  /\ phase'[a] = "complete"
  /\ passed'[a] = Stages
  /\ holder'[a] = NoOwner

Bury(a) ==
  /\ Held(a)
  /\ phase'[a] = "dead"
  /\ holder'[a] = NoOwner
  /\ UNCHANGED passed[a]

Revive(a) ==
  /\ phase[a] = "dead"
  /\ phase'[a] = "open"
  /\ UNCHANGED <<passed[a], holder[a]>>

AppStep(a) ==
  \/ Same(a) \/ Enter(a) \/ Take(a) \/ Drop(a)
  \/ Pass(a) \/ Complete(a) \/ Bury(a) \/ Revive(a)

\* A claim, a pause or a recovery touches several apps in one step.
Next ==
  /\ \A a \in App : AppStep(a)
  /\ phase' \in [App -> Phase]
  /\ passed' \in [App -> 0..Stages]
  /\ holder' \in [App -> Owner \cup {NoOwner}]

Spec == Init /\ [][Next]_pipeline
=============================================================================
