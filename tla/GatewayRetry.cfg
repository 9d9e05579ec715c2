SPECIFICATION Spec
CONSTANTS
  NoId = NoId
  Roots = {r1, r2}
  MaxAttempt = 2
  Bridges = {b1}
  Auditors = {}
  FullQty = 1
  MaxClock = 0
  MaxFaults = 1
SYMMETRY IntentSymmetry
INVARIANTS
  OneAttemptExecutes
  LatchStopsSubmission
PROPERTIES
  UnresolvedBlocksSubmission
