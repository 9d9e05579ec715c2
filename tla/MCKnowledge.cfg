SPECIFICATION Spec
CONSTANTS
  NoValue = NoValue
  Decisions = {"d1", "d2"}
  Agents = {"a1", "a2"}
  Workers = {"w1", "w2"}
  MinOutcomes = 2
  MaxEdits = 1
  MaxDeaths = 0
  NoLabel = NoLabel
  Fixes = {"f1", "f2"}
  Succeeded = {"f1"}
  Verdicts = {"v1"}
  Callers = {"w1", "w2"}
  MaxOps = 6
  Absent = Absent
  Runners = {"r1", "r2"}
  MaxRuns = 2
  Ranges <- FinalRanges
  Dirs = {"d1", "d2"}
  Legacy <- OldReceipts
  Windows <- SomeWindows
  Sealed <- SealedRange
  MaxTime = 5
  MaxCrashes = 1
CHECK_DEADLOCK FALSE
INVARIANTS
  LearningIsSound
  EvidenceIsHonest
  HoldoutOpensOnce
PROPERTIES
  MemoryIsSound
  DevelopmentIsSound
  StorageStands
