SPECIFICATION FairSpec
CONSTANTS
  k1 = k1
  k2 = k2
  o1 = o1
  o2 = o2
  scheduled = scheduled
  cleanup = cleanup
  steam = steam
  avatar = avatar
  Key <- MCKey
  Owner <- MCOwner
  Lane <- MCLane
  Source <- MCSource
  SourceOf <- MCSourceOf
  ScheduledLane <- MCScheduledLane
  Request <- MCRequest
  Completion <- MCCompletion
  Category <- MCCategory
  LeaseMs = {2}
  DelayMs = {0, 1}
  Limit = {1, 2}
  MaxLag = 1
  NoRequest = NoRequest
  NoOwner = NoOwner
  NoCompletion = NoCompletion
  NoError = NoError
INVARIANTS
  TypeOK
  AttemptsAccounted
  OneActivePerLane
PROPERTIES
  OnlyItsOwnerEndsALiveLease
  SettledIsFinal
  ImplementsLifecycle
  CrashLoopsEnd
