SPECIFICATION Spec
CONSTANTS
  NoValue = NoValue
  MaxGens = 3
  Decisions = {"d1", "d2"}
  MaxHealingFaults = 4
  None = None
  Proposals = {"d1", "d2"}
  MaxCrashes = 2
  MaxLost = 1
  Unset = Unset
  Procs = {"p1", "p2"}
  Backoff1 = 1
  Backoff2 = 1
  Backoff3 = 1
  MaxAge = 1
  MaxTime = 4
  MaxFaults = 2
  Threads = {"t1", "t2"}
  MaxRequests = 2
  MaxDeployFaults = 1
  Nothing = Nothing
  Plain = {"u1"}
  Qualified = {"u2", "u3"}
  Dev = {"u4"}
  Workers = {"w1", "w2"}
  Subjects = {"s1"}
  Users = {"a", "b"}
  Chats = {"c1"}
  MaxWebhookFaults = 1
  Nobody = Nobody
CHECK_DEADLOCK FALSE
INVARIANTS
  HealingIsAuthorized
  DeployIsConfirmed
  UpdatesOnce
  WatchdogIsBounded
PROPERTIES
  PatchIsExact
  RecoveryIsBounded
