SPECIFICATION Spec
CONSTANTS
  NoValue = NoValue
  Threads = {"a", "b"}
  FillIds = {"f", "g"}
  InitialCash = 320
  Mids = {64}
  UnitFee = 8
  Slip = 8
  Rates = {0, 1}
  RateUnit = 4
  MaxQuantity = 2
  MaximumFills = 4
  Retries = 2
  MaxTime = 2
  MaxOps = 3
  Procs = {"p1"}
  Decisions = {"d1", "d2", "d3"}
  Prices = {1, 2}
  MaxFaults = 1
  MaxCrashes = 3
  NoDecision = NoDecision
  Experiments = {"e1", "e2", "e3"}
  Prepared = {"e2", "e3"}
  Workers = {"w1", "w2"}
  Results = 2
  MaxOperations = 6
  MaxDeaths = 1
  Missing = Missing
CHECK_DEADLOCK FALSE
INVARIANTS
  EntryIsSound
  BooksAreExact
  CouncilIsSound
  CouncilIsShared
PROPERTIES
  DecisionIsEarned
  AccountIsSound
  PromotionIsEarned
  ReplayIsHonest
