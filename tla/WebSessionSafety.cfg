SPECIFICATION Spec
CONSTANTS
  c1 = c1
  c2 = c2
  s1 = s1
  s2 = s2
  s3 = s3
  Tab <- MCTab
  Session <- TwoSessions
  NoSession = NoSession
  Does <- OneBusyTab
SYMMETRY Symmetry
INVARIANTS
  TypeOK
  LiveSessionsAreCurrent
  OneLivePerSignIn
  SignedOutStaysOut
PROPERTIES
  GivesUpOnlyTheLost
  ImplementsSignIns
CHECK_DEADLOCK FALSE
