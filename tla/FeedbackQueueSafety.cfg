SPECIFICATION Spec
CONSTANTS
  alice = alice
  bob = bob
  User <- MCUser
  MaxEntries = 2
  MaxStray = 1
  Nobody = Nobody
  NoEntry = NoEntry
  NoFeedback = NoFeedback
SYMMETRY Symmetry
INVARIANTS
  TypeOK
  RecordedForItsOwner
  NoFeedbackLost
  UndoIsNotForgotten
