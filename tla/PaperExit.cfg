SPECIFICATION Spec
CONSTANTS
    Prices = {97, 100}
    Lowers = {90}
    Sides = {"BUY"}
    Shadows = {"recorded"}
    Delays = {"idle"}
    Depths = {TRUE}
    Mode = "enforce"
    Promoted = TRUE
    Closes = "none"
    NSymbols = 1
    Percent = 40
    InitialCash = 1000
    StartCash = 1000
    Spread = 1
    Slip = 1
    Fee = 1
    PacketCost = 2
    MinNotional = 290
    MaxMarket = 10
    StopLoss = 2
    TakeProfit = 3
    QuoteAge = 1
    MaxAge = 2
    Horizon = 3
    Window = 3
    Cooldown = 2
    WaitInterval = 3
    Interval = 2
    MaxRoundTrips = 1
    FeeShare = 5
    MaxRecords = 2
    MaxErrors = 1
    MaxTime = 6
    MaxTrades = 4
    MaxCrashes = 0
INVARIANT ExitsAreImmediate
CHECK_DEADLOCK FALSE
