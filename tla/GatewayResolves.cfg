SPECIFICATION FairSpec
CONSTANTS
  NoId = NoId
  Roots = {r1}
  MaxAttempt = 1
  Bridges = {b1}
  Auditors = {a1}
  FullQty = 1
  MaxClock = 1
  MaxFaults = 0
INVARIANTS
  LiveOrderIsUnresolved
PROPERTIES
  EvidenceResolves
