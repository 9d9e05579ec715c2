----------------------------- MODULE MCExchange -----------------------------
(* The components between the exchange and the execution path: the private   *)
(* stream, the Testnet bridge, verified quotes, the consensus of market      *)
(* prices, the order book, the order preview, campaigns and the scaling      *)
(* authority. A behaviour is about one of them, which part names; the others *)
(* keep their initial state. The bridge, campaigns and scaling, which have   *)
(* proofs, are extended; the others are instances. The bridge mirrors one    *)
(* trade with a request beside it in one part, and two trades alone in       *)
(* another; two campaigns run without faults, and one with a fault. Quotes   *)
(* have four parts: two callers who wait for a sample, two on tickers of     *)
(* different prices, two who call again, and one with a fault; the book holds *)
(* fewer levels than the topic.                                              *)
EXTENDS TestnetBridge, Campaign, Scaling, Integers, Sequences, FiniteSets

VARIABLES part,  \* the component this behaviour is about
          streamClock, streamFaults, exch, link, wire, streamWorker, ret,
          snap, control, mem, health, orders, ledger, conflicts, streamHeard,
          reused,
          quoteClock, published, quoteWorker, state, quoteHeard, cache,
          samples, lastSample, call, got, calls, quoteFaults,
          bookClock, book, update, net, bids, asks, seq, mirror, lost,
          evidence, cross, bookSent, restarts, bookFaults,
          answers, price, decided,
          previewClock, exchangeTick, previewTicks, rules, order, preview,
          verdict

Stream == INSTANCE PrivateStream WITH
    FullQty <- 2, MaxClock <- 2, MaxAge <- 0, MaxLag <- 0, MaxFaults <- 1,
    clock <- streamClock, faults <- streamFaults, worker <- streamWorker,
    heard <- streamHeard

Quote == INSTANCE VerifiedQuote WITH
    Callers <- {"a", "b"}, Prices <- {100}, MaxAge <- 1, MaxAlign <- 1,
    MaxLag <- 1, MaxDeviation <- 1, SampleEvery <- 2, Horizon <- 3,
    MaxTicks <- 1, MaxCalls <- 1, MaxFaults <- 0, clock <- quoteClock,
    worker <- quoteWorker, heard <- quoteHeard, faults <- quoteFaults

QuoteShared == INSTANCE VerifiedQuote WITH
    Callers <- {"a", "b"}, Prices <- {100, 104}, MaxAge <- 1, MaxAlign <- 0,
    MaxLag <- 0, MaxDeviation <- 1, SampleEvery <- 2, Horizon <- 2,
    MaxTicks <- 2, MaxCalls <- 1, MaxFaults <- 0, clock <- quoteClock,
    worker <- quoteWorker, heard <- quoteHeard, faults <- quoteFaults

QuoteAgain == INSTANCE VerifiedQuote WITH
    Callers <- {"a", "b"}, Prices <- {100}, MaxAge <- 1, MaxAlign <- 1,
    MaxLag <- 1, MaxDeviation <- 1, SampleEvery <- 2, Horizon <- 1,
    MaxTicks <- 2, MaxCalls <- 2, MaxFaults <- 0, clock <- quoteClock,
    worker <- quoteWorker, heard <- quoteHeard, faults <- quoteFaults

QuoteFaults == INSTANCE VerifiedQuote WITH
    Callers <- {"a"}, Prices <- {100}, MaxAge <- 1, MaxAlign <- 1,
    MaxLag <- 1, MaxDeviation <- 1, SampleEvery <- 2, Horizon <- 2,
    MaxTicks <- 2, MaxCalls <- 2, MaxFaults <- 1, clock <- quoteClock,
    worker <- quoteWorker, heard <- quoteHeard, faults <- quoteFaults

Book == INSTANCE OrderBook WITH
    BidPrices <- {1, 2, 3, 4}, AskPrices <- {5}, MaxSize <- 1, Depth <- 3,
    MaxLevels <- 2, MaxAge <- 1, MaxDivergence <- 1, Horizon <- 1,
    MaxUpdates <- 3, FirstUpdate <- 7, MaxRestarts <- 1, MaxFaults <- 1,
    Damage <- {"snapshot", "delta"}, clock <- bookClock, sent <- bookSent,
    faults <- bookFaults

Consensus == INSTANCE MarketConsensus WITH
    Sources <- {"bybit", "binance", "okx", "kraken", "coinbase"},
    Faulty <- {"kraken", "coinbase"},
    HonestPrices <- {1000, 1002, 1004, 1010},
    Prices <- {600, 996, 1000, 1002, 1004, 1010, 1012, 4000}, MinSources <- 3,
    MaxDeviation <- 35

Preview == INSTANCE OrderPreview WITH
    Equity <- 800, MaxRisk <- 5, FeeRate <- 20, Slippage <- 5, Leverage <- 2,
    Ticks <- {2, 3}, QtyStep <- 2, MinNotional <- 30, MaxQty <- 6,
    MaxPrice <- 60, Asset <- 2, Ttl <- 2, MaxRulesAge <- 1,
    References <- {20, 23}, Levels <- {10, 14, 30, 37},
    Quantities <- {1, 3, 4}, Balances <- {0, 200}, Horizon <- 1,
    clock <- previewClock, ticks <- previewTicks

PreviewAge == INSTANCE OrderPreview WITH
    Equity <- 800, MaxRisk <- 5, FeeRate <- 20, Slippage <- 5, Leverage <- 2,
    Ticks <- {2, 3}, QtyStep <- 2, MinNotional <- 30, MaxQty <- 6,
    MaxPrice <- 60, Asset <- 2, Ttl <- 2, MaxRulesAge <- 1,
    References <- {20}, Levels <- {14, 30}, Quantities <- {2},
    Balances <- {200}, Horizon <- 4, clock <- previewClock,
    ticks <- previewTicks

streamVars == <<streamClock, streamFaults, exch, link, wire, streamWorker,
                ret, snap, control, mem, health, orders, ledger, conflicts,
                streamHeard, reused>>
quoteVars == <<quoteClock, published, quoteWorker, state, quoteHeard, cache,
               samples, lastSample, call, got, calls, quoteFaults>>
bookVars == <<bookClock, book, update, net, bids, asks, seq, mirror, lost,
              evidence, cross, bookSent, restarts, bookFaults>>
pricesVars == <<answers, price, decided>>
previewVars == <<previewClock, exchangeTick, previewTicks, rules, order,
                 preview, verdict>>
vars == <<part, streamVars, bridgeVars, quoteVars, bookVars, campaignVars,
          scalingVars, pricesVars, previewVars>>

Init ==
    /\ part \in {"stream", "bridge", "bridge_alone", "quote", "quote_shared",
                "quote_again", "quote_faults", "book", "campaign",
                "campaign_faults", "scaling", "consensus", "preview",
                "preview_age"}
    /\ Stream!Init
    /\ BridgeInit
    /\ IF part = "quote_shared" THEN QuoteShared!Init
       ELSE IF part = "quote_again" THEN QuoteAgain!Init
       ELSE IF part = "quote_faults" THEN QuoteFaults!Init
       ELSE Quote!Init
    /\ Book!Init /\ (part # "book" => book = CHOOSE b \in Book!Books : TRUE)
    /\ CampaignInit
    /\ ScalingInit
    /\ Consensus!Init
    /\ IF part = "preview_age" THEN PreviewAge!Init
       ELSE Preview!Init
    /\ part \notin {"preview", "preview_age"} => exchangeTick = 2

Next ==
    \/ part = "stream" /\ Stream!Next
       /\ UNCHANGED <<part, bridgeVars, quoteVars, bookVars, campaignVars,
                       scalingVars, pricesVars, previewVars>>
    \/ part = "bridge" /\ BridgeNext
       /\ created'["u"] = 0
       /\ UNCHANGED <<part, streamVars, quoteVars, bookVars, campaignVars,
                       scalingVars, pricesVars, previewVars>>
    \/ part = "bridge_alone" /\ BridgeNext
       /\ thread'["req"] = IdleThread
       /\ UNCHANGED <<part, streamVars, quoteVars, bookVars, campaignVars,
                       scalingVars, pricesVars, previewVars>>
    \/ part = "quote" /\ Quote!Next
       /\ UNCHANGED <<part, streamVars, bridgeVars, bookVars, campaignVars,
                       scalingVars, pricesVars, previewVars>>
    \/ part = "quote_shared" /\ QuoteShared!Next
       /\ UNCHANGED <<part, streamVars, bridgeVars, bookVars, campaignVars,
                       scalingVars, pricesVars, previewVars>>
    \/ part = "quote_again" /\ QuoteAgain!Next
       /\ UNCHANGED <<part, streamVars, bridgeVars, bookVars, campaignVars,
                       scalingVars, pricesVars, previewVars>>
    \/ part = "quote_faults" /\ QuoteFaults!Next
       /\ UNCHANGED <<part, streamVars, bridgeVars, bookVars, campaignVars,
                       scalingVars, pricesVars, previewVars>>
    \/ part = "book" /\ Book!Next
       /\ UNCHANGED <<part, streamVars, bridgeVars, quoteVars, campaignVars,
                       scalingVars, pricesVars, previewVars>>
    \/ part = "campaign" /\ CampaignNext
       /\ faults' = 0
       /\ UNCHANGED <<part, streamVars, bridgeVars, quoteVars, bookVars,
                       scalingVars, pricesVars, previewVars>>
    \/ part = "campaign_faults" /\ CampaignNext
       /\ UNCHANGED camps[2]
       /\ UNCHANGED <<part, streamVars, bridgeVars, quoteVars, bookVars,
                       scalingVars, pricesVars, previewVars>>
    \/ part = "scaling" /\ ScalingNext
       /\ UNCHANGED <<part, streamVars, bridgeVars, quoteVars, bookVars,
                       campaignVars, pricesVars, previewVars>>
    \/ part = "consensus" /\ Consensus!Next
       /\ UNCHANGED <<part, streamVars, bridgeVars, quoteVars, bookVars,
                       campaignVars, scalingVars, previewVars>>
    \/ part = "preview" /\ Preview!Next
       /\ UNCHANGED <<part, streamVars, bridgeVars, quoteVars, bookVars,
                       campaignVars, scalingVars, pricesVars>>
    \/ part = "preview_age" /\ PreviewAge!Next
       /\ UNCHANGED <<part, streamVars, bridgeVars, quoteVars, bookVars,
                       campaignVars, scalingVars, pricesVars>>

Spec == Init /\ [][Next]_vars

-----------------------------------------------------------------------------
\* What the private stream lets others rely on: the gate is open only while
\* the worker has heard the exchange, reconciled evidence is complete, a
\* stored fill is never rewritten and an order's evidence never goes back,
\* over lost, repeated and late messages, reconnects and restarts
\* (bybit_private_order_ws.py, bybit_order_state.py,
\* bybit_execution_state.py).
StreamIsSound ==
    /\ [](/\ Stream!TypeOK /\ Stream!ReadyMeansHeard
          /\ Stream!ReconciledIsComplete)
    /\ Stream!FillsAreWriteOnce
    /\ Stream!EvidenceIsMonotone

\* A price that is served can be stood behind: a quote is fresh after the save
\* it waited for, is a ticker that was really received, agrees with the bid,
\* ask and consensus it carries and never goes back for a caller, with two
\* callers on different tickers and one cache; a quorum of honest exchanges
\* that agree is not blocked by a minority of wrong ones, and a price has a
\* quorum behind it; and a book rebuilt from snapshot and deltas is the
\* exchange's book, less the levels it dropped (verified_quote.py,
\* multi_exchange_consensus.py, order_book_stream.py).
MarketDataIsSound ==
    /\ [](/\ part = "quote" => Quote!FreshAfterSample /\ Quote!SamplesSpaced
          /\ part = "quote_shared" =>
                 /\ QuoteShared!NeverRelabelled /\ QuoteShared!Coherent
          /\ part = "quote_again" =>
                 /\ QuoteAgain!NeverRelabelled /\ QuoteAgain!Coherent
          /\ part = "quote_faults" => QuoteFaults!NeverRelabelled
          /\ Consensus!NotBlocked /\ Consensus!QuorumBehind
          /\ Book!BookFaithful /\ Book!BestFaithful)
    /\ [][part = "quote_again" => QuoteAgain!NoneGoesBackStep]_vars
    /\ [][part = "quote_faults" => QuoteFaults!NoneGoesBackStep]_vars

\* A preview's quantity never risks more than the budget after rounding, fees
\* and slippage, its levels are rounded against the trader, a bound order is
\* refused only for age, and never bound to rules older than allowed (order
\* preview and its binding).
PreviewIsSafe ==
    /\ [](/\ part = "preview" =>
                 /\ Preview!LossCovered /\ Preview!Conservative
                 /\ Preview!RefusedOnlyForAge
          /\ part = "preview_age" => PreviewAge!RefusedOnlyForAge)
    /\ PreviewAge!BoundYoung
=============================================================================
