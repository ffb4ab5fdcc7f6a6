SPECIFICATION Spec
CONSTANTS
  a1 = a1
  a2 = a2
  o1 = o1
  o2 = o2
  App <- MCApp
  Demo <- MCDemo
  Owner <- MCOwner
  Category <- MCCategory
  DeterministicLimit = 2
  TransientLimit = 3
  LeaseMs = {2}
  DelayMs = {0, 1}
  Limit = {1}
  MaxLag = 1
  NoOwner = NoOwner
  NoError = NoError
SYMMETRY Symmetry
INVARIANTS
  TypeOK
  OnlyOpenTasksAreHeld
  FailuresAccounted
PROPERTIES
  PauseHolds
  OnlyItsOwnerMovesALeasedTask
  ImplementsPipeline
