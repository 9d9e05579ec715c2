SPECIFICATION Spec
CONSTANTS
  Loop = "loop"
  Requests = {"req"}
  Trades = {"t", "u"}
  NoTrade = NoTrade
  MaxAge = 1
  MaxTime = 2
  MaxTicks = 2
  MaxDeaths = 1
  Procs = {"loop", "http"}
  Schedules = {"s"}
  MaxCampaigns = 2
  MaxOps = 2
  MaxFaults = 1
  Operators = {"p", "q"}
  MaxActivations = 2
  TTL = 1
  MaxClock = 2
  MaxFailures = 2
CHECK_DEADLOCK FALSE
PROPERTIES
  StreamIsSound
  MirrorIsFaithful
  MarketDataIsSound
  PreviewIsSafe
  CampaignIsSound
  AuthorityIsExclusive
