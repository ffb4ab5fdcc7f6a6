SPECIFICATION FairSpec
CONSTANTS
  a1 = a1
  a2 = a2
  App <- MCApp
  LaneStage <- MCLaneStage
  StageLimit = {3}
  FailureLimit = 2
  Broken <- MCBrokenLaunch
  Unknown <- MCUnknown
  NoApp = NoApp
PROPERTY OpenTasksSettle
