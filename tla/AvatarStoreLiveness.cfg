SPECIFICATION FairSpec
CONSTANTS
  u1 = u1
  n1 = n1
  n2 = n2
  b1 = b1
  b2 = b2
  User <- MCUser
  Content <- MCContent
  Nonce <- OneNonce
  Invocation <- MCInvocation
  UploadWindow = 1
  Grace = 2
  RetireDelay = 1
  RetryDelay = 1
  CleanupLease = 1
  BatchLimit = 2
  MaxAttempts = 2
  MaxLag = 0
  NoObject = NoObject
  NoJob = NoJob
  NoRequest = NoRequest
  NoOwner = NoOwner
  NoCompletion = NoCompletion
  NoError = NoError
PROPERTY
  OrphansGoAway
