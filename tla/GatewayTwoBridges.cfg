SPECIFICATION Spec
CONSTANTS
  NoId = NoId
  Roots = {r1, r2}
  MaxAttempt = 1
  Bridges = {b1, b2}
  Auditors = {}
  FullQty = 2
  MaxClock = 0
  MaxFaults = 0
PROPERTIES
  UnresolvedBlocksSubmission
