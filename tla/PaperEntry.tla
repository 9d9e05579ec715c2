----------------------------- MODULE PaperEntry -----------------------------
(***************************************************************************)
(* The paper loop between a proposal and a fill (council_loop.py): the     *)
(* prospective forecast of the proposal (forecast_contract.py), the shadow *)
(* controller beside it (runtime_e2e_shadow_v2.py,                         *)
(* runtime_shadow_integration_v2.py, shadow_dual_run_v2.py), the           *)
(* anti-churn and post-stop vetoes (risk_engine/paper_reentry.py), the     *)
(* preparation of an executable fill (trading_core/costs.py), the exact    *)
(* cost check, the trades and the last close they leave, the suppression   *)
(* of repeated WAIT events and the decision trace                          *)
(* (traced_council_provider.py, decision_trace.py).  Who authorizes a      *)
(* decision is the subject of CouncilDecision, how a staged fill survives  *)
(* failures that of CouncilLoop.  One symbol; its quantity step and tick   *)
(* are one.  Prices are integers, money is in thousandths, returns, fees   *)
(* and slippage are in thousandths of a price.                             *)
(***************************************************************************)
EXTENDS Integers, Sequences, FiniteSets, SequencesExt, FiniteSetsExt

CONSTANTS Prices, Lowers,       \* midpoints of quotes, and conservative returns the model predicts for them
          Sides, Shadows,       \* what the council may authorize, and how the shadow controller may end
          Delays,               \* the steps of a tick at which time may pass
          Depths,               \* whether the participation of an order is within its limit
          Mode,                 \* post_stop_policy_mode
          Promoted,             \* the artifact is reviewed, validated and its holdout receipt is complete
          Closes,               \* a close left by an earlier version: "none", "kept", "lost"
          NSymbols, Percent, InitialCash, StartCash,
          Spread, Slip, Fee, PacketCost, MinNotional, MaxMarket, StopLoss, TakeProfit,
          QuoteAge, MaxAge, Horizon, Window, Cooldown, WaitInterval, Interval,
          MaxRoundTrips, FeeShare, MaxRecords, MaxErrors,
          MaxTime, MaxTrades, MaxCrashes

VARIABLES clock,
          mem,          \* the loop's _state
          saved,        \* the document it was last persisted to
          forecasts,    \* paper_prospective_forecasts
          consumed,     \* decisions whose authorization is spent
          trace,        \* the decision trace of the symbol
          generated,    \* time of the last proposal
          op,           \* the tick in progress
          refused,      \* a protective exit whose preparation was rejected
          crashes
vars == <<clock, mem, saved, forecasts, consumed, trace, generated, op, refused, crashes>>

Idle == [pc |-> "idle"]
None == [none |-> TRUE]
Least(a, b) == IF a < b THEN a ELSE b
Most(a, b) == IF a < b THEN b ELSE a
Abs(n) == IF n < 0 THEN -n ELSE n
CeilDiv(a, b) == (a + b - 1) \div b
Sum(S, F(_)) == FoldSet(LAMBDA x, acc : F(x) + acc, 0, S)
-----------------------------------------------------------------------------
(* Prices, costs and executable fills.                                     *)

Bid(q) == q.price - Spread
Ask(q) == q.price + Spread
Bbo(q, side) == IF side = "BUY" THEN Ask(q) ELSE Bid(q)
\* ExecutionCostModel.estimate(): slippage against the trader, then the tick, again against the trader.
ExecutionPrice(q, side) ==
    IF side = "BUY" THEN CeilDiv(Ask(q) * (1000 + Slip), 1000) ELSE (Bid(q) * 1000) \div (1000 + Slip)
FillFee(price, qty) == Fee * price * qty
LegCost(q, side, qty) ==
    1000 * qty * (Abs(Bbo(q, side) - q.price) + Abs(ExecutionPrice(q, side) - Bbo(q, side)))
        + FillFee(ExecutionPrice(q, side), qty)
RoundTrip(q, qty) == LegCost(q, "BUY", qty) + LegCost(q, "SELL", qty)
\* _packet_reported_cost() of the notional.
PacketFloor(q, qty) == PacketCost * q.price * qty
\* A mutant: the way out is not paid for.
EntryLegOnly(q, qty) == Most(LegCost(q, "BUY", qty), PacketFloor(q, qty))
AllIn(q, qty) == Most(RoundTrip(q, qty), PacketFloor(q, qty))

\* _prepare_execution(): the set of executable fills, empty when it rejects.
Executable(q, side, wanted) ==
    {f \in {[side |-> side, qty |-> Least(wanted, MaxMarket), price |-> ExecutionPrice(q, side), mid |-> q.price, bbo |-> Bbo(q, side)]} :
        /\ wanted >= 1 /\ q.deep /\ Bid(q) > 0
        /\ f.price * f.qty >= MinNotional}
\* _entry_position_percent(): half the size while the flat book is below its initial cash.
Recovering(m) == m.pos = None /\ m.equity < 1000 * InitialCash
Budget(m) == Least((m.cash * (IF Recovering(m) THEN Percent \div 2 ELSE Percent)) \div 100, m.cash \div NSymbols)
\* _prepare_open(): a recovery size is raised to the minimum the instrument takes, if cash can pay it.
EntryQuantity(m, q) ==
    LET wanted == Budget(m) \div (1000 * Ask(q))
        floor == Most(1, CeilDiv(MinNotional, Ask(q)))
    IN IF Recovering(m) /\ 1000 * floor * Ask(q) <= m.cash THEN Most(wanted, floor) ELSE wanted
\* _anti_churn_quantity(): the estimate raises a recovery budget to the minimum notional, and falls back on the last size.
EstimateQuantity(m, q) ==
    LET budget == IF Recovering(m) /\ Budget(m) < 1000 * MinNotional /\ 1000 * MinNotional <= m.cash
                  THEN 1000 * MinNotional ELSE Budget(m)
    IN Most(budget \div (1000 * Ask(q)), 1)
-----------------------------------------------------------------------------
(* The vetoes of a new BUY.                                                *)

InWindow(m) == SelectSeq(m.trades, LAMBDA t : t.at >= clock - Window)
\* _anti_churn_turnover_reason()
Churning(m) ==
    LET recent == InWindow(m)
        fees == Sum(DOMAIN recent, LAMBDA i : recent[i].fee)
    IN \/ Len(SelectSeq(recent, LAMBDA t : t.side = "SELL")) >= MaxRoundTrips
       \/ m.equity > 0 /\ 1000 * (fees \div 1000) > FeeShare * (m.equity \div 1000)
\* _last_close_for(): a row of an earlier version is completed from its own trade, if that is still there.
LastClose(m) ==
    IF m.close # None /\ ~m.close.complete /\ Closes = "kept"
    THEN [m.close EXCEPT !.complete = TRUE, !.reason = "protective_take_profit"] ELSE m.close
Stops == {"protective_stop_loss", "stop_loss"}
OtherExits == {"protective_take_profit", "take_profit", "protective_momentum_exit", "canonical_council_sell"}
\* post_stop_reentry_block(): the veto, or "" for none.
PostStop(c) ==
    IF c = None THEN ""
    ELSE IF ~c.complete \/ clock < c.at \/ c.reason \notin Stops \cup OtherExits THEN "evidence"
    ELSE IF c.reason \in Stops /\ clock < c.at + Cooldown THEN "cooldown" ELSE ""
\* validate_forecast(): what the forecast of the packet is worth now; -1 for nothing.
Edge(o) ==
    IF o.forecast = None THEN -1
    ELSE LET f == forecasts[o.forecast.id] IN
         IF /\ f.cutoff <= f.asof /\ f.asof <= f.created /\ f.created <= clock /\ f.asof - f.cutoff <= QuoteAge
            /\ f.asof = o.forecast.asof /\ clock - f.asof <= MaxAge /\ clock < f.expires
            /\ f.quote = o.q.at /\ f.status = "PROMOTED"
         THEN f.lower ELSE -1
\* 1.5 times the cost: ANTI_CHURN_COST_MARGIN.
Covers(edge, q, qty, cost) == edge >= 0 /\ 2 * edge * q.price * qty > 3 * cost
\* _anti_churn_buy_block_reason(): "" lets the entry go on.
AntiChurn(m, o) ==
    LET c == LastClose(m)
        qty == EstimateQuantity(m, o.q)
    IN IF Churning(m) THEN "turnover"
       ELSE IF PostStop(c) # "" /\ Mode = "enforce" THEN PostStop(c)
       ELSE IF ~o.q.deep \/ Bid(o.q) <= 0 THEN "cost_unavailable"
       ELSE IF c # None /\ c.d = o.d THEN "reentry"
       ELSE IF ~Covers(Edge(o), o.q, qty, AllIn(o.q, qty)) THEN "cost_not_covered" ELSE ""
BlockReasons == {"turnover", "cost_unavailable"}
-----------------------------------------------------------------------------
(* Events, the trace and the shadow controller.                            *)

\* _suppress_wait_event(): the same reason again within the interval is counted and not emitted.
Repeats(m, reason) == m.wait.reason = reason /\ m.wait.at > 0 /\ clock - m.wait.at < WaitInterval
Waited(m, reason) == IF Repeats(m, reason) THEN m ELSE [m EXCEPT !.wait = [reason |-> reason, at |-> clock]]
NewPhases == {"preflight", "market_evidence", "market_verification", "market_stream", "quote", "proposal_provider",
              "proposal_interval", "council", "protective_exit"}
\* persist_decision_trace(): a new observation or another decision starts the trace again, anything else adds to it.
Traced(status, phase, d) ==
    trace' = [status |-> status, phase |-> phase,
              d |-> IF phase \in NewPhases \/ d # 0 THEN d ELSE trace.d]
Newest(S) == IF Cardinality(S) <= MaxRecords THEN S
             ELSE {r \in S : Cardinality({s \in S : s.at > r.at \/ (s.at = r.at /\ s.d < r.d)}) < MaxRecords}
\* build_runtime_shadow_record(): the evidence and what the authoritative path said of it.
ShadowRecord(o, side) == [d |-> o.d, at |-> o.asof, seen |-> o.q.at, said |-> side, settled |-> 0]
\* idempotent_upsert_record(): the first record of a decision stays; then the newest are kept.
Recorded(m, o, side) ==
    IF \E r \in m.records : r.d = o.d THEN m
    ELSE [m EXCEPT !.records = Newest(@ \cup {ShadowRecord(o, side)})]
\* _record_v2_shadow_error(): the last error is not repeated; the last hundred are kept.
Errored(m, o) ==
    LET rows == IF m.errors # <<>> /\ Last(m.errors) = o.d THEN m.errors ELSE Append(m.errors, o.d) IN
    [m EXCEPT !.errors = SubSeq(rows, Most(1, Len(rows) - MaxErrors + 1), Len(rows))]
\* _evaluate_v2_shadow(): it records, or it fails or times out; it decides nothing.
Shadowed(m, o, side, shadow) == IF shadow = "recorded" THEN Recorded(m, o, side) ELSE Errored(m, o)
\* attach_paper_settlement(): it raises, and attaches nothing, for a settlement before the decision.
SettledRecords(m, d) ==
    {IF r.d = d /\ r.seen <= r.at /\ clock >= r.at THEN [r EXCEPT !.settled = clock] ELSE r : r \in m.records}
-----------------------------------------------------------------------------
(* Fills.                                                                  *)

Mark(m, q) == [m EXCEPT !.equity = m.cash + (IF m.pos = None THEN 0 ELSE 1000 * m.pos.qty * q.price)]
Trade(m, t) == [m EXCEPT !.trades = Append(@, t)]
\* _open() and _trade(): it raises when cash cannot pay notional and fee.
Opened(m, o) ==
    LET f == o.fill
        fee == FillFee(f.price, f.qty)
    IN Trade([m EXCEPT !.cash = @ - 1000 * f.price * f.qty - fee,
                       !.pos = [qty |-> f.qty, price |-> f.price, mid |-> f.mid, fee |-> fee, d |-> o.d, exit |-> o.forecast.asof + Horizon]],
             [side |-> "BUY", at |-> clock, d |-> o.d, qty |-> f.qty, price |-> f.price, mid |-> f.mid, fee |-> fee, net |-> 0,
              reason |-> "canonical_council_allow", edge |-> o.edge])
Affordable(m, f) == 1000 * f.price * f.qty + FillFee(f.price, f.qty) <= m.cash
\* _close(): the result is the midpoint's move less spread, slippage and fees of both legs; _record_last_close() and
\* _bind_last_close_trade_id() remember it for the vetoes.
Closed(m, f, reason) ==
    LET p == m.pos
        fee == FillFee(f.price, f.qty)
        spread == Spread * p.qty + Abs(f.bbo - f.mid) * p.qty
        slippage == Abs(p.price - (p.mid + Spread)) * p.qty + Abs(f.price - f.bbo) * p.qty
        net == 1000 * ((f.mid - p.mid) * p.qty - spread - slippage) - p.fee - fee
    IN Trade([m EXCEPT !.cash = @ + 1000 * f.price * f.qty - fee, !.pos = None,
                       !.close = [d |-> p.d, at |-> clock, reason |-> reason, complete |-> TRUE],
                       !.records = SettledRecords(m, p.d)],
             [side |-> "SELL", at |-> clock, d |-> p.d, qty |-> f.qty, price |-> f.price, mid |-> f.mid, fee |-> fee, net |-> net,
              reason |-> reason, edge |-> -1])
-----------------------------------------------------------------------------
Fresh == [cash |-> 1000 * StartCash, equity |-> 1000 * StartCash, pos |-> None, trades |-> <<>>,
          close |-> IF Closes = "none" THEN None ELSE [d |-> -1, at |-> 0, reason |-> "", complete |-> FALSE],
          wait |-> [reason |-> "", at |-> 0], records |-> {}, errors |-> <<>>]
Init ==
    /\ clock = 1 /\ mem = Fresh /\ saved = Fresh /\ forecasts = <<>> /\ consumed = {}
    /\ trace = [status |-> "", phase |-> "", d |-> 0] /\ generated = 0
    /\ op = Idle /\ refused = FALSE /\ crashes = 0

\* The end of a tick: the book is marked and persisted.
Finish(m, q) == mem' = Mark(m, q) /\ saved' = mem' /\ op' = Idle
Room == Len(mem.trades) < MaxTrades

\* _manage_protective_exit(): which exit the quote calls for.
Protective(m, q) ==
    LET move == 100 * (q.price - m.pos.price) IN
    IF move <= -StopLoss * m.pos.price THEN "protective_stop_loss"
    ELSE IF move >= TakeProfit * m.pos.price THEN "protective_take_profit"
    ELSE IF clock >= m.pos.exit THEN "protective_forecast_horizon" ELSE ""
Quotes == {[at |-> clock, price |-> p, deep |-> v, lower |-> l] : p \in Prices, v \in Depths, l \in Lowers}

\* A quote that calls for a protective exit: prepared and filled, or rejected with a BLOCK event.
Protect ==
    /\ op = Idle /\ mem.pos # None
    /\ \E q \in Quotes :
        /\ Protective(mem, q) # ""
        /\ LET fills == Executable(q, "SELL", mem.pos.qty) IN
           IF \E f \in fills : f.qty = mem.pos.qty
           THEN /\ Finish(Closed(mem, CHOOSE f \in fills : TRUE, Protective(mem, q)), q)
                /\ Traced("SELL", "protective_exit", mem.pos.d) /\ UNCHANGED refused
           ELSE Finish(mem, q) /\ Traced("BLOCK", "protective_exit", 0) /\ refused' = TRUE
    /\ UNCHANGED <<clock, forecasts, consumed, generated, crashes>>

\* No proposal: the wrapper says why, unless the trace still shows the last decision of this interval.
NoProposal ==
    /\ op = Idle
    /\ \E q \in Quotes :
        /\ mem.pos # None => Protective(mem, q) = ""
        /\ IF generated > 0 /\ clock - generated < Interval
           THEN IF trace.d # 0 \/ trace.phase = "proposal_interval" THEN UNCHANGED trace ELSE Traced("WAIT", "proposal_interval", 0)
           ELSE Traced("WAIT", "preflight", 0)
        /\ IF trace'.status = "BLOCK" THEN Finish(mem, q)
           ELSE Finish(Waited(mem, "no_proposal"), q)
    /\ UNCHANGED <<clock, forecasts, consumed, generated, refused, crashes>>

Propose ==
    /\ op = Idle /\ Room /\ (generated = 0 \/ clock - generated >= Interval) /\ generated' = clock
    /\ \E q \in Quotes :
        /\ mem.pos # None => Protective(mem, q) = ""
        /\ op' = [pc |-> "forecast", q |-> q, d |-> q.at, asof |-> 0, forecast |-> None, edge |-> -1]
        /\ Traced("PROPOSAL", "council", q.at)
    /\ UNCHANGED <<clock, mem, saved, forecasts, consumed, refused, crashes>>

\* forecast(): the features must be fresh; the forecast is stored once under its digest.  Without it the packet has none.
ForecastOf(o) == [cutoff |-> o.q.at, asof |-> clock, created |-> clock, expires |-> clock + MaxAge, quote |-> o.q.at,
                  lower |-> o.q.lower, status |-> IF Promoted THEN "PROMOTED" ELSE "SHADOW"]
Forecast ==
    /\ op.pc = "forecast"
    /\ IF clock - op.q.at <= QuoteAge
       THEN /\ forecasts' = Append(forecasts, ForecastOf(op))
            /\ op' = [op EXCEPT !.pc = "assess", !.asof = clock, !.forecast = [id |-> Len(forecasts) + 1, asof |-> clock]]
       ELSE op' = [op EXCEPT !.pc = "assess", !.asof = clock] /\ UNCHANGED forecasts
    /\ UNCHANGED <<clock, mem, saved, consumed, trace, generated, refused, crashes>>

\* assess_entry() and _evaluate_v2_shadow(): it raises for a spent decision; the shadow records, fails or times out, and
\* the authorization is what it was.
Assess ==
    /\ op.pc = "assess"
    /\ IF op.d \in consumed THEN Finish(mem, op.q) /\ Traced("BLOCK", "decision_quality", op.d)
       ELSE \E shadow \in Shadows, side \in Sides :
            LET m == Shadowed(mem, op, side, shadow) IN
            IF side = "WAIT"
            THEN Finish(Waited(m, "not_authorized"), op.q) /\ Traced("WAIT", "decision_quality", op.d)
            ELSE /\ mem' = m /\ op' = [op EXCEPT !.pc = side] /\ Traced(side, "decision_quality", op.d)
                 /\ UNCHANGED saved
    /\ UNCHANGED <<clock, forecasts, consumed, generated, refused, crashes>>

\* An authorized SELL closes the long position, if it can be prepared, and opens nothing.
Sell ==
    /\ op.pc = "SELL"
    /\ IF mem.pos = None
       THEN Finish(Waited(mem, "no_short"), op.q) /\ Traced("WAIT", "execution_gate", 0) /\ UNCHANGED consumed
       ELSE LET fills == Executable(op.q, "SELL", mem.pos.qty) IN
            IF \E f \in fills : f.qty = mem.pos.qty
            THEN /\ Finish(Closed(mem, CHOOSE f \in fills : TRUE, "canonical_council_sell"), op.q)
                 /\ consumed' = consumed \cup {op.d} /\ Traced("SELL", "virtual_execution", op.d)
            ELSE Finish(mem, op.q) /\ Traced("BLOCK", "virtual_execution", 0) /\ UNCHANGED consumed
    /\ UNCHANGED <<clock, forecasts, generated, refused, crashes>>

\* The gate of an authorized BUY: no second position, no churn, an edge that covers the estimated cost.
Gate ==
    /\ op.pc = "BUY"
    /\ LET veto == IF mem.pos # None THEN "long_already" ELSE AntiChurn(mem, op) IN
       IF mem.pos # None THEN Finish(Waited(mem, veto), op.q) /\ Traced("WAIT", "execution_gate", 0)
       ELSE IF veto = "" THEN op' = [op EXCEPT !.pc = "prepare"] /\ UNCHANGED <<mem, saved, trace>>
       ELSE IF veto \in BlockReasons THEN Finish(mem, op.q) /\ Traced("BLOCK", "anti_churn", op.d)
       ELSE Finish(Waited(mem, veto), op.q) /\ Traced("WAIT", "anti_churn", op.d)
    /\ UNCHANGED <<clock, forecasts, consumed, generated, refused, crashes>>

\* _prepare_open() and _prepared_entry_cost_block(): expiry and cost again, at the exact size and for both legs.
Prepare ==
    /\ op.pc = "prepare"
    /\ LET fills == Executable(op.q, "BUY", EntryQuantity(mem, op.q)) IN
       IF fills = {} \/ \E f \in fills : Executable(op.q, "SELL", f.qty) = {}
       THEN Finish(mem, op.q) /\ Traced("BLOCK", "virtual_execution", 0)
       ELSE LET f == CHOOSE x \in fills : TRUE IN
            IF ~Covers(Edge(op), op.q, f.qty, AllIn(op.q, f.qty))
            THEN Finish(Waited(mem, "exact_cost"), op.q) /\ Traced("WAIT", "forecast_exact_cost", 0)
            ELSE op' = [pc |-> "fill", q |-> op.q, d |-> op.d, asof |-> op.asof, forecast |-> op.forecast, edge |-> Edge(op), fill |-> f]
                 /\ UNCHANGED <<mem, saved, trace>>
    /\ UNCHANGED <<clock, forecasts, consumed, generated, refused, crashes>>

\* Staged, consumed and applied.
Fill ==
    /\ op.pc = "fill"
    /\ consumed' = consumed \cup {op.d}
    /\ IF Affordable(mem, op.fill)
       THEN Finish(Opened(mem, op), op.q) /\ Traced("BUY", "virtual_execution", op.d)
       ELSE Finish(mem, op.q) /\ Traced("BLOCK", "virtual_execution", 0)
    /\ UNCHANGED <<clock, forecasts, generated, refused, crashes>>

Crash ==
    /\ crashes < MaxCrashes /\ op # Idle
    /\ crashes' = crashes + 1 /\ mem' = saved /\ op' = Idle
    /\ UNCHANGED <<clock, saved, forecasts, consumed, trace, generated, refused>>
Tick == /\ clock < MaxTime /\ op.pc \in Delays /\ clock' = clock + 1
        /\ UNCHANGED <<mem, saved, forecasts, consumed, trace, generated, op, refused, crashes>>

Next == Protect \/ NoProposal \/ Propose \/ Forecast \/ Assess \/ Sell \/ Gate \/ Prepare \/ Fill \/ Crash \/ Tick
Spec == Init /\ [][Next]_vars
-----------------------------------------------------------------------------
TypeOK ==
    /\ clock \in 1..MaxTime /\ generated \in 0..MaxTime
    /\ Cardinality(mem.records) <= MaxRecords /\ Len(mem.errors) <= MaxErrors
    /\ \A i \in DOMAIN mem.trades : mem.trades[i].side \in {"BUY", "SELL"} /\ mem.trades[i].qty > 0

\* Every entry rests on a promoted forecast whose conservative return pays 1.5 times the fees, spread and slippage of the
\* way in and of the way out at the size that was filled (council_loop.py: "Prospective edge must cover this multiple").
EntryIsPaidFor ==
    \A i \in DOMAIN mem.trades : mem.trades[i].side = "BUY" =>
        LET t == mem.trades[i]
            q == [price |-> t.mid]
        IN /\ Promoted
           /\ 2 * t.edge * t.mid * t.qty > 3 * (LegCost(q, "BUY", t.qty) + LegCost(q, "SELL", t.qty))

\* No window of the anti-churn length holds more closings than the limit, although the limit is only looked at before
\* an entry, and a decision never opens two positions (council_loop.py).
TurnoverIsBounded ==
    /\ \A i \in DOMAIN mem.trades :
        Cardinality({j \in DOMAIN mem.trades : mem.trades[j].side = "SELL" /\ mem.trades[j].at \in (mem.trades[i].at - Window)..mem.trades[i].at}) <= MaxRoundTrips
    /\ \A i, j \in DOMAIN mem.trades : (mem.trades[i].side = "BUY" /\ mem.trades[j].side = "BUY" /\ mem.trades[i].d = mem.trades[j].d) => i = j

\* Where the policy is enforced a stopped thesis is not bought again before its cooldown, whatever the restarts
\* (paper_reentry.py: "Replacing a quote timestamp does not invalidate the memory of a stopped thesis").
StoppedStaysOut ==
    Mode = "enforce" => \A i, j \in DOMAIN mem.trades :
        (i < j /\ mem.trades[i].reason \in Stops /\ mem.trades[j].side = "BUY") => mem.trades[j].at >= mem.trades[i].at + Cooldown

\* Cash never goes below zero; the book's cash is what its trades left; what a close reports as its result is what it
\* added to the cash since the entry, and no fill is better than the quote (council_loop.py).
CashIsExplained ==
    /\ mem.cash >= 0
    /\ mem.cash = 1000 * StartCash + Sum(DOMAIN mem.trades, LAMBDA i :
            (IF mem.trades[i].side = "SELL" THEN 1000 ELSE -1000) * mem.trades[i].price * mem.trades[i].qty - mem.trades[i].fee)
    /\ mem.pos = None => mem.cash = 1000 * StartCash + Sum(DOMAIN mem.trades, LAMBDA i : mem.trades[i].net)
    /\ \A i \in DOMAIN mem.trades : IF mem.trades[i].side = "BUY" THEN mem.trades[i].price >= mem.trades[i].mid + Spread
                                    ELSE mem.trades[i].price <= mem.trades[i].mid - Spread

\* A shadow record is settled no earlier than it was decided and was decided from evidence it could know, and it tells of an
\* entry that was closed; a trace that
\* shows a filled BUY names the open position (runtime_e2e_shadow_v2.py, decision_trace.py).
RecordsAreHonest ==
    /\ \A r \in mem.records : r.seen <= r.at /\ (r.settled # 0 => r.settled >= r.at /\ r.said = "BUY" /\ \E i \in DOMAIN mem.trades : mem.trades[i].side = "SELL" /\ mem.trades[i].d = r.d)
    /\ (trace.status = "BUY" /\ trace.phase = "virtual_execution" /\ op = Idle) => mem.pos # None /\ mem.pos.d = trace.d

\* A protective exit the quote calls for is executed (council_loop.py: "Capital-preservation exits are intentionally
\* local and immediate").
ExitsAreImmediate == ~refused
=============================================================================
