SPECIFICATION Spec
CONSTANTS
  c1 = c1
  c2 = c2
  s1 = s1
  s2 = s2
  s3 = s3
  Tab <- OneTab
  Session <- ThreeSessions
  NoSession = NoSession
  Does <- OneReader
INVARIANT
  NoFalseAlarm
CHECK_DEADLOCK FALSE
