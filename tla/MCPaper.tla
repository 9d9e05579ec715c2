------------------------------- MODULE MCPaper -------------------------------
(* The components of paper trading: the broker's books, the virtual account, *)
(* the council's decision, the entry and its exit, the council loop, the     *)
(* backtest and the walk-forward windows it runs in, and the experiments that *)
(* promote a strategy. A behaviour is about one of them, which part names;   *)
(* the others keep their initial state. The broker, the council loop and the *)
(* experiments, which have proofs, are extended; the others are instances.   *)
(* The council loop fails in one part and crashes more often in another;     *)
(* experiments are run and judged in one part and lead in another.           *)
EXTENDS PaperBroker, CouncilLoop, Experiments, Integers, Sequences, FiniteSets

CONSTANTS NoValue

VARIABLES part,  \* the component this behaviour is about
          entersClock, mem, saved, forecasts, entersConsumed, trace,
          entersGenerated, entersOp, refused, entersCrashes,
          path, bak, now, virtualOps, virtualCrashes, todo, virtualPc,
          virtualDoc, published,
          twoDoc, twoConsumed, twoSettled, twoHistory, twoUsed, twoProc,
          twoFaults, twoCrashes,
          ts, par, start, windows, walkPc,
          book, pending, last, testClock, curve, testPc, ending, seen, fills,
          decidesClock, quote, evidence, decidesGenerated, known, assessed,
          candidates, decisions, staged, decidesConsumed, decidesSettled,
          decidesOp, asked, decidesCrashes

\* The fills a process has staged are of one price.
OnePrice == \A p \in Procs : \A i \in proc[p].mem.pend \union proc[p].mem.prot : i.price = 1

Entry == INSTANCE PaperEntry WITH
    Prices <- {97, 100}, Lowers <- {90}, Sides <- {"BUY"},
    Shadows <- {"recorded"}, Delays <- {"idle"}, Depths <- {TRUE},
    Mode <- "enforce", Promoted <- TRUE, Closes <- "none", NSymbols <- 1,
    Percent <- 40, InitialCash <- 1000, StartCash <- 1000, Spread <- 1,
    Slip <- 1, Fee <- 1, PacketCost <- 2, MinNotional <- 250, MaxMarket <- 10,
    StopLoss <- 2, TakeProfit <- 3, QuoteAge <- 1, MaxAge <- 2, Horizon <- 3,
    Window <- 3, Cooldown <- 2, WaitInterval <- 3, Interval <- 2,
    MaxRoundTrips <- 1, FeeShare <- 5, MaxRecords <- 2, MaxErrors <- 1,
    MaxTime <- 7, MaxTrades <- 4, MaxCrashes <- 0, clock <- entersClock,
    consumed <- entersConsumed, generated <- entersGenerated, op <- entersOp,
    crashes <- entersCrashes

EntryFaults == INSTANCE PaperEntry WITH
    Prices <- {100, 104}, Lowers <- {90}, Sides <- {"BUY", "SELL", "WAIT"},
    Shadows <- {"recorded", "failed"},
    Delays <- {"idle", "forecast", "prepare"}, Depths <- {TRUE},
    Mode <- "enforce", Promoted <- TRUE, Closes <- "none", NSymbols <- 1,
    Percent <- 40, InitialCash <- 1000, StartCash <- 1000, Spread <- 1,
    Slip <- 1, Fee <- 1, PacketCost <- 2, MinNotional <- 250, MaxMarket <- 10,
    StopLoss <- 2, TakeProfit <- 3, QuoteAge <- 1, MaxAge <- 2, Horizon <- 3,
    Window <- 3, Cooldown <- 2, WaitInterval <- 3, Interval <- 2,
    MaxRoundTrips <- 2, FeeShare <- 5, MaxRecords <- 1, MaxErrors <- 1,
    MaxTime <- 4, MaxTrades <- 2, MaxCrashes <- 1, clock <- entersClock,
    consumed <- entersConsumed, generated <- entersGenerated, op <- entersOp,
    crashes <- entersCrashes

EntryVetoes == INSTANCE PaperEntry WITH
    Prices <- {100}, Lowers <- {40, 90}, Sides <- {"BUY", "SELL", "WAIT"},
    Shadows <- {"recorded"}, Delays <- {"idle", "forecast", "prepare"},
    Depths <- {TRUE, FALSE}, Mode <- "observe", Promoted <- TRUE,
    Closes <- "kept", NSymbols <- 1, Percent <- 40, InitialCash <- 1000,
    StartCash <- 1000, Spread <- 1, Slip <- 1, Fee <- 1, PacketCost <- 2,
    MinNotional <- 250, MaxMarket <- 10, StopLoss <- 2, TakeProfit <- 3,
    QuoteAge <- 1, MaxAge <- 2, Horizon <- 3, Window <- 3, Cooldown <- 2,
    WaitInterval <- 3, Interval <- 2, MaxRoundTrips <- 1, FeeShare <- 5,
    MaxRecords <- 2, MaxErrors <- 1, MaxTime <- 4, MaxTrades <- 2,
    MaxCrashes <- 0, clock <- entersClock, consumed <- entersConsumed,
    generated <- entersGenerated, op <- entersOp, crashes <- entersCrashes

Account == INSTANCE VirtualAccount WITH
    Actors <- {"a1", "a2"}, NSymbols <- 1, Prices <- {102}, Start <- 100000,
    MaxOpen <- 2, MaxStreak <- 1, MaxHold <- 2, Reserve <- 20, Total <- 80,
    Position <- 50, CatchUp <- 2, Legacy <- FALSE, MaxTime <- 1, MaxOps <- 2,
    MaxCrashes <- 1, ops <- virtualOps, crashes <- virtualCrashes,
    pc <- virtualPc, doc <- virtualDoc

AccountAlone == INSTANCE VirtualAccount WITH
    Actors <- {"a1"}, NSymbols <- 1, Prices <- {98, 100}, Start <- 100000,
    MaxOpen <- 2, MaxStreak <- 1, MaxHold <- 2, Reserve <- 20, Total <- 80,
    Position <- 50, CatchUp <- 2, Legacy <- FALSE, MaxTime <- 2, MaxOps <- 3,
    MaxCrashes <- 0, ops <- virtualOps, crashes <- virtualCrashes,
    pc <- virtualPc, doc <- virtualDoc

AccountLegacy == INSTANCE VirtualAccount WITH
    Actors <- {"a1"}, NSymbols <- 1, Prices <- {98, 100, 102},
    Start <- 100000, MaxOpen <- 2, MaxStreak <- 1, MaxHold <- 2,
    Reserve <- 20, Total <- 80, Position <- 50, CatchUp <- 2, Legacy <- TRUE,
    MaxTime <- 1, MaxOps <- 2, MaxCrashes <- 1, ops <- virtualOps,
    crashes <- virtualCrashes, pc <- virtualPc, doc <- virtualDoc

CouncilTwo == INSTANCE CouncilLoop WITH
    Procs <- {"p1", "p2"}, Decisions <- {"d1"}, Prices <- {1}, MaxFaults <- 0,
    MaxCrashes <- 0, NoDecision <- NoValue, doc <- twoDoc,
    consumed <- twoConsumed, settled <- twoSettled, history <- twoHistory,
    used <- twoUsed, proc <- twoProc, faults <- twoFaults,
    crashes <- twoCrashes

Walk == INSTANCE WalkForward WITH
    MaxRows <- 6, MaxTrain <- 2, MaxTest <- 2, MaxStep <- 3, MaxEmbargo <- 2,
    MinWindows <- 2, InitialCash <- 5, MaxMove <- 1, pc <- walkPc

Test == INSTANCE Backtest WITH
    NSymbols <- 2, Majors <- {1, 2}, Spread <- 2, InitialCash <- 1000,
    MaxOpen <- 2, MinNotional <- 100, Reserve <- 20, Total <- 80,
    Position <- 50, Correlated <- 60, MaxRisk <- 2, Slip <- 1, ThinLimit <- 1,
    Bids <- {90, 130}, Timing <- "auto", ForceClose <- TRUE,
    Fundings <- {"paid"}, Sources <- {"quote", "close"}, Depths <- {"deep"},
    Risks <- {3}, MaxEvents <- 3, clock <- testClock, pc <- testPc

TestThin == INSTANCE Backtest WITH
    NSymbols <- 2, Majors <- {1, 2}, Spread <- 2, InitialCash <- 1000,
    MaxOpen <- 2, MinNotional <- 100, Reserve <- 20, Total <- 80,
    Position <- 50, Correlated <- 60, MaxRisk <- 2, Slip <- 1, ThinLimit <- 1,
    Bids <- {90, 130}, Timing <- "auto", ForceClose <- TRUE,
    Fundings <- {"none", "received"}, Sources <- {"quote"},
    Depths <- {"deep", "thin"}, Risks <- {1, 3}, MaxEvents <- 3,
    clock <- testClock, pc <- testPc

Decision == INSTANCE CouncilDecision WITH
    Procs <- {"p1", "p2"}, QuoteTimes <- {1}, Changes <- {40},
    Liquids <- {TRUE}, Deviations <- {10}, SourceCounts <- {3},
    Memories <- {<<<<[id |-> "s1", impact |-> 20, credibility |-> 90, unconfirmed |-> FALSE, fresh |-> TRUE]>>>>},
    Books <- {[cash |-> 1000, equity |-> 1000, peak |-> 1000, open |-> 0], [cash |-> 0, equity |-> 800, peak |-> 1000, open |-> 1]},
    Rows <- {}, MaxRows <- 0, Interval <- 2, MaxTime <- 3, MaxCrashes <- 1,
    clock <- decidesClock, generated <- decidesGenerated,
    consumed <- decidesConsumed, settled <- decidesSettled, op <- decidesOp,
    crashes <- decidesCrashes

DecisionInputs == INSTANCE CouncilDecision WITH
    Procs <- {"p1"}, QuoteTimes <- {1}, Changes <- {-130, -30, 0, 40},
    Liquids <- {TRUE, FALSE}, Deviations <- {10, 80}, SourceCounts <- {2, 3},
    Memories <- {<<>>, <<<<[id |-> "s1", impact |-> 20, credibility |-> 90, unconfirmed |-> FALSE, fresh |-> TRUE]>>, <<[id |-> "s1", impact |-> 20, credibility |-> 90, unconfirmed |-> FALSE, fresh |-> TRUE]>>, <<[id |-> "s1", impact |-> 20, credibility |-> 90, unconfirmed |-> FALSE, fresh |-> TRUE], [id |-> "s2", impact |-> 20, credibility |-> 60, unconfirmed |-> TRUE, fresh |-> TRUE]>>>>, <<<<[id |-> "s1", impact |-> -30, credibility |-> 90, unconfirmed |-> FALSE, fresh |-> TRUE]>>>>},
    Books <- {[cash |-> 1000, equity |-> 1000, peak |-> 1000, open |-> 0], [cash |-> 0, equity |-> 800, peak |-> 1000, open |-> 1]},
    Rows <- {}, MaxRows <- 0, Interval <- 2, MaxTime <- 7, MaxCrashes <- 0,
    clock <- decidesClock, generated <- decidesGenerated,
    consumed <- decidesConsumed, settled <- decidesSettled, op <- decidesOp,
    crashes <- decidesCrashes

Asked == INSTANCE CouncilDecision WITH
    Procs <- {"p1"}, QuoteTimes <- {}, Changes <- {}, Liquids <- {},
    Deviations <- {}, SourceCounts <- {}, Memories <- {}, Books <- {},
    Rows <- [agent : {"market_intelligence", "news_intelligence", "risk_engine"}, action : {"BUY", "SELL", "WAIT"}, verified : BOOLEAN, confidence : {60, 90}, evidence : {80}, risk : {20}],
    MaxRows <- 2, Interval <- 2, MaxTime <- 1, MaxCrashes <- 0,
    clock <- decidesClock, generated <- decidesGenerated,
    consumed <- decidesConsumed, settled <- decidesSettled, op <- decidesOp,
    crashes <- decidesCrashes

entersVars == <<entersClock, mem, saved, forecasts, entersConsumed, trace,
                entersGenerated, entersOp, refused, entersCrashes>>
virtualVars == <<path, bak, now, virtualOps, virtualCrashes, todo, virtualPc,
                 virtualDoc, published>>
twoVars == <<twoDoc, twoConsumed, twoSettled, twoHistory, twoUsed, twoProc,
             twoFaults, twoCrashes>>
walkVars == <<ts, par, start, windows, walkPc>>
testVars == <<book, pending, last, testClock, curve, testPc, ending, seen,
              fills>>
decidesVars == <<decidesClock, quote, evidence, decidesGenerated, known,
                 assessed, candidates, decisions, staged, decidesConsumed,
                 decidesSettled, decidesOp, asked, decidesCrashes>>
vars == <<part, entersVars, brokerVars, virtualVars, councilVars, twoVars,
          experimentVars, walkVars, testVars, decidesVars>>

Init ==
    /\ part \in {"entry", "entry_faults", "entry_vetoes", "broker", "account",
                "account_alone", "account_legacy", "council", "council_crash",
                "council_two", "experiments", "leadership", "walk_forward",
                "backtest", "backtest_thin", "decision", "decision_inputs",
                "controller"}
    /\ IF part = "entry_faults" THEN EntryFaults!Init
       ELSE IF part = "entry_vetoes" THEN EntryVetoes!Init
       ELSE Entry!Init
    /\ BrokerInit
    /\ IF part = "account_alone" THEN AccountAlone!Init
       ELSE IF part = "account_legacy" THEN AccountLegacy!Init
       ELSE Account!Init
    /\ CouncilInit
    /\ CouncilTwo!CouncilInit
    /\ ExperimentInit
    /\ Walk!Init
    /\ IF part = "backtest_thin" THEN TestThin!Init
       ELSE Test!Init
    /\ IF part = "decision_inputs" THEN DecisionInputs!Init
       ELSE IF part = "controller" THEN Asked!Init
       ELSE Decision!Init

Next ==
    \/ part = "entry" /\ Entry!Next
       /\ UNCHANGED <<part, brokerVars, virtualVars, councilVars, twoVars,
                       experimentVars, walkVars, testVars, decidesVars>>
    \/ part = "entry_faults" /\ EntryFaults!Next
       /\ UNCHANGED <<part, brokerVars, virtualVars, councilVars, twoVars,
                       experimentVars, walkVars, testVars, decidesVars>>
    \/ part = "entry_vetoes" /\ EntryVetoes!Next
       /\ UNCHANGED <<part, brokerVars, virtualVars, councilVars, twoVars,
                       experimentVars, walkVars, testVars, decidesVars>>
    \/ part = "broker" /\ BrokerNext
       /\ UNCHANGED <<part, entersVars, virtualVars, councilVars, twoVars,
                       experimentVars, walkVars, testVars, decidesVars>>
    \/ part = "account" /\ Account!Next
       /\ UNCHANGED <<part, entersVars, brokerVars, councilVars, twoVars,
                       experimentVars, walkVars, testVars, decidesVars>>
    \/ part = "account_alone" /\ AccountAlone!Next
       /\ UNCHANGED <<part, entersVars, brokerVars, councilVars, twoVars,
                       experimentVars, walkVars, testVars, decidesVars>>
    \/ part = "account_legacy" /\ AccountLegacy!Next
       /\ UNCHANGED <<part, entersVars, brokerVars, councilVars, twoVars,
                       experimentVars, walkVars, testVars, decidesVars>>
    \/ part = "council" /\ CouncilNext
       /\ crashes' <= 1 /\ OnePrice'
       /\ UNCHANGED <<part, entersVars, brokerVars, virtualVars, twoVars,
                       experimentVars, walkVars, testVars, decidesVars>>
    \/ part = "council_crash" /\ CouncilNext
       /\ faults' = 0 /\ "d3" \notin used'
       /\ UNCHANGED <<part, entersVars, brokerVars, virtualVars, twoVars,
                       experimentVars, walkVars, testVars, decidesVars>>
    \/ part = "council_two" /\ CouncilTwo!CouncilNext
       /\ UNCHANGED <<part, entersVars, brokerVars, virtualVars, councilVars,
                       experimentVars, walkVars, testVars, decidesVars>>
    \/ part = "experiments" /\ ExperimentNext
       /\ \A w \in Workers : op'[w].e \in {Missing, "e1"}
       /\ UNCHANGED <<part, entersVars, brokerVars, virtualVars, councilVars,
                       twoVars, walkVars, testVars, decidesVars>>
    \/ part = "leadership" /\ ExperimentNext
       /\ \A w \in Workers : /\ op'[w].e # "e1"
                             /\ op'[w].kind \in Leading \union {"free", "reject"}
       /\ UNCHANGED <<part, entersVars, brokerVars, virtualVars, councilVars,
                       twoVars, walkVars, testVars, decidesVars>>
    \/ part = "walk_forward" /\ Walk!Next
       /\ UNCHANGED <<part, entersVars, brokerVars, virtualVars, councilVars,
                       twoVars, experimentVars, testVars, decidesVars>>
    \/ part = "backtest" /\ Test!Next
       /\ UNCHANGED <<part, entersVars, brokerVars, virtualVars, councilVars,
                       twoVars, experimentVars, walkVars, decidesVars>>
    \/ part = "backtest_thin" /\ TestThin!Next
       /\ UNCHANGED <<part, entersVars, brokerVars, virtualVars, councilVars,
                       twoVars, experimentVars, walkVars, decidesVars>>
    \/ part = "decision" /\ Decision!Next
       /\ UNCHANGED <<part, entersVars, brokerVars, virtualVars, councilVars,
                       twoVars, experimentVars, walkVars, testVars>>
    \/ part = "decision_inputs" /\ DecisionInputs!Next
       /\ UNCHANGED <<part, entersVars, brokerVars, virtualVars, councilVars,
                       twoVars, experimentVars, walkVars, testVars>>
    \/ part = "controller" /\ Asked!Next
       /\ UNCHANGED <<part, entersVars, brokerVars, virtualVars, councilVars,
                       twoVars, experimentVars, walkVars, testVars>>

Spec == Init /\ [][Next]_vars

-----------------------------------------------------------------------------
\* A paper entry is paid for by a fresh promoted forecast at 1.5 times the
\* exact cost of both legs, closings stay within the turnover limit, a stopped
\* thesis waits out its cooldown, cash is what the trades left of it and a
\* close reports what it really added, and the shadow's records tell of what
\* happened (council_loop.py, forecast_contract.py, paper_reentry.py,
\* runtime_e2e_shadow_v2.py).
EntryIsSound ==
    /\ part = "entry" =>
           /\ Entry!TypeOK /\ Entry!EntryIsPaidFor /\ Entry!TurnoverIsBounded
           /\ Entry!StoppedStaysOut /\ Entry!CashIsExplained
    /\ part = "entry_faults" =>
           /\ EntryFaults!TypeOK /\ EntryFaults!TurnoverIsBounded
           /\ EntryFaults!CashIsExplained /\ EntryFaults!RecordsAreHonest
    /\ part = "entry_vetoes" =>
           /\ EntryVetoes!TypeOK /\ EntryVetoes!EntryIsPaidFor
           /\ EntryVetoes!RecordsAreHonest

\* A paper authorization follows the direction of the quote it was made from,
\* with a directional word of the news counted once, no risk block and fresh
\* data; what is consumed was authorized and stored, stored records of a
\* decision never change, and the controller treats both sides alike
\* (council_provider.py, general_controller_v2.py, canonical_runtime.py).
DecisionIsEarned ==
    /\ [](/\ part = "decision" =>
                 /\ Decision!TypeOK /\ Decision!AuthorizedIsEarned
                 /\ Decision!ConsumedWasAuthorized
          /\ part = "decision_inputs" =>
                 /\ DecisionInputs!TypeOK /\ DecisionInputs!AuthorizedIsEarned
                 /\ DecisionInputs!StoriesCountOnce
          /\ part = "controller" => Asked!TypeOK /\ Asked!ControllerIsFair)
    /\ [][part = "decision" => Decision!RecordsStayStep]_vars

\* The virtual account that was saved last is the one a restart loads, its
\* equity is its cash and its open trades, the cash reserve is kept and a
\* losing streak holds entries back (market_paper_engine.py,
\* paper_activity_engine.py, capital_allocation.py).
AccountIsSound ==
    /\ [](/\ part = "account" =>
                 /\ Account!TypeOK /\ Account!LastSavedLoads
                 /\ Account!Balanced /\ Account!ReserveKept
          /\ part = "account_alone" => AccountAlone!TypeOK
          /\ part = "account_legacy" =>
                 /\ AccountLegacy!TypeOK /\ AccountLegacy!LastSavedLoads)
    /\ [][part = "account_alone" => AccountAlone!StreakHoldsStep]_vars

\* Two processes on one account keep it as sound: what they store was
\* consumed, the position is what both their trades leave open, and history
\* tells only of saved trades (council_loop.py).
CouncilIsShared ==
    /\ CouncilTwo!CouncilTypeOK /\ CouncilTwo!TradeIsConsumed
    /\ CouncilTwo!PositionMatchesTrades /\ CouncilTwo!HistoryIsBacked

\* Neither the windows nor the replay look ahead: train and test rows are
\* apart and whole batches, an order fills on a later event than the one that
\* decided it, every cost is booked, exposure limits hold at entry, and the
\* reported equity, result and drawdown are those of the curve (backtest.py).
ReplayIsHonest ==
    /\ [](/\ Walk!NoLookahead /\ Walk!WholeBatches /\ Walk!EnoughRows
          /\ Walk!DisjointTests /\ Walk!EndingSums
          /\ part = "backtest" =>
                 /\ Test!Balanced /\ Test!CostsAddUp /\ Test!NoLookahead
                 /\ Test!EndsFlat /\ Test!DrawdownIsLargest
          /\ part = "backtest_thin" =>
                 /\ TestThin!Balanced /\ TestThin!CostsAddUp
                 /\ TestThin!EndsFlat /\ TestThin!DrawdownIsLargest)
    /\ Test!ExposureKept
=============================================================================
