SPECIFICATION Spec
CONSTANTS
  NoId = NoId
  Roots = {r1}
  MaxAttempt = 1
  Bridges = {b1, b2}
  Auditors = {}
  FullQty = 2
  MaxClock = 0
  MaxFaults = 1
SYMMETRY BridgeSymmetry
INVARIANTS
  TypeOK
  ReservedBeforeSent
  SubmittedAtMostOnce
  ClosedAgreesWithExchange
