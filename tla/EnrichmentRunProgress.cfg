SPECIFICATION FairSpec
CONSTANTS
  a1 = a1
  a2 = a2
  App <- MCApp
  LaneStage <- MCLaneStage
  StageLimit = {1, 2}
  FailureLimit = 2
  Broken <- MCBroken
  Unknown <- MCUnknown
  NoApp = NoApp
INVARIANTS
  TypeOK
  LaunchesGoFirst
PROPERTIES
  ForgetsOnlyTheUnsaved
  ImplementsPipeline
  OpenTasksSettle
  LanesTakeTurns
