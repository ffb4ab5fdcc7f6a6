SPECIFICATION FairSpec
CONSTANTS
  b1 = b1
  b2 = b2
  enrich = enrich
  retrieval = retrieval
  Invocation <- MCInvocation
  Lane <- MCLane
  SourceOf <- MCSourceOf
  SelfTimed <- MCSelfTimed
  Interval <- MCInterval
  LeaseMs = 2
  Continue = 1
  RetryMs = {1}
  RestMs = {3}
  MaxRun = 1
  Horizon = 0
  MaxAttempts = 2
  JobLimit = 2
  NoInvocation = NoInvocation
INVARIANTS
  TypeOK
  LeaseExcludes
  SteamIsLeftAlone
PROPERTY
  NoLaneIsLost
