SPECIFICATION Spec
CONSTANTS
  u1 = u1
  n1 = n1
  n2 = n2
  b1 = b1
  b2 = b2
  User <- MCUser
  Content <- MCContent
  Nonce <- MCNonce
  Invocation <- MCInvocation
  UploadWindow = 1
  Grace = 2
  RetireDelay = 1
  RetryDelay = 1
  CleanupLease = 1
  BatchLimit = 2
  MaxAttempts = 1
  MaxLag = 0
  NoObject = NoObject
  NoJob = NoJob
  NoRequest = NoRequest
  NoOwner = NoOwner
  NoCompletion = NoCompletion
  NoError = NoError
SYMMETRY Symmetry
INVARIANTS
  TypeOK
  ReferencedIsStored
  OrphansAreKnown
  DeletedKeepsNoAvatar
