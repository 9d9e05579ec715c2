SPECIFICATION MCSpec
CONSTANTS
  Calls = {c1, c2, c3, c4}
  Backend = "postgresql"
  InitialVersion = 1
  MaxTries = 2
  NoCall = NoCall
CHECK_DEADLOCK FALSE
INVARIANTS
  TypeOK
  NoLostUpdate
  ConflictMeansProgress
PROPERTIES
  ImplementsAtomicDocument
