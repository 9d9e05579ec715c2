---------------------------- MODULE OrderPreview -----------------------------
(***************************************************************************)
(* A non-executing order preview: instrument rules fetched from the        *)
(* exchange and cached (exchange_connector/bybit_instrument_rules.py), the *)
(* arithmetic of the preview (order_preview.py) and its later binding to a *)
(* trading candidate (preview_candidate_bridge.py).                        *)
(*                                                                         *)
(* Decimals are exact, so prices and quantities are integers of a finer    *)
(* unit than the tick and the step, fee rates are in thousandths and money *)
(* is in thousandths of a price unit.                                      *)
(***************************************************************************)
EXTENDS Integers, FiniteSets

CONSTANTS References,   \* reference prices asked with
          Levels,       \* stop and take-profit prices asked with
          Quantities,   \* quantities asked with
          Balances,     \* available_balance
          Equity, MaxRisk,       \* account_equity and max_risk_percent
          FeeRate,      \* fee_rate and exit_fee_rate, in thousandths
          Slippage,     \* slippage_percent of a market order
          Leverage,     \* leverage of a linear order
          Ticks,        \* tick sizes the exchange may set
          QtyStep, MinNotional, MaxQty, MaxPrice,
          Asset,        \* available_asset_quantity
          Ttl,          \* ttl_seconds of the cached rules
          MaxRulesAge,  \* max_instrument_age_ms of the binding
          Horizon

NoRules == [tick |-> 0, at |-> 0]
NoPreview == [qty |-> 0]

VARIABLES clock,
          exchangeTick,  \* the tick size in force at the exchange
          ticks,         \* for every instant so far the tick sizes that were in force
          rules,         \* the cached rules and when they were fetched
          order,         \* the payload of the request previewed last
          preview,       \* the preview built last
          verdict        \* "none", "bound" or "refused": the binding of that preview
vars == <<clock, exchangeTick, ticks, rules, order, preview, verdict>>

Orders == [side : {"buy", "sell"}, type : {"market", "limit"}, category : {"spot", "linear"},
           ref : References, limit : References, stop : Levels, take : Levels,
           qty : Quantities, balance : Balances]
NoOrder == [side |-> "none"]

Init ==
    /\ clock = 1 /\ exchangeTick \in Ticks /\ ticks = [t \in {1} |-> {exchangeTick}]
    /\ rules = NoRules /\ order = NoOrder /\ preview = NoPreview /\ verdict = "none"

Tick ==
    /\ clock < Horizon /\ clock' = clock + 1
    /\ ticks' = [t \in 1..clock + 1 |-> IF t <= clock THEN ticks[t] ELSE {exchangeTick}]
    /\ UNCHANGED <<exchangeTick, rules, order, preview, verdict>>
\* The exchange changes the instrument (environment).
NewTick(k) ==
    /\ k # exchangeTick /\ exchangeTick' = k
    /\ ticks' = [ticks EXCEPT ![clock] = @ \cup {k}]
    /\ UNCHANGED <<clock, rules, order, preview, verdict>>

-----------------------------------------------------------------------------
\* get(): the cached rules while they are young enough, else a fetch.
Cached == rules # NoRules /\ clock - rules.at <= Ttl
Fetch ==
    /\ ~Cached
    /\ rules' = [tick |-> exchangeTick, at |-> clock]
    /\ UNCHANGED <<clock, exchangeTick, ticks, order, preview, verdict>>
Invalidate ==
    /\ rules # NoRules /\ rules' = NoRules
    /\ UNCHANGED <<clock, exchangeTick, ticks, order, preview, verdict>>

\* _round_step, down and up.
Down(v, step) == (v \div step) * step
Up(v, step) == ((v + step - 1) \div step) * step
Abs(x) == IF x < 0 THEN -x ELSE x
Buy(o) == o.side = "buy"

\* The entry a market order may slip to, or the limit, in hundredths before
\* rounding to the tick.
Entry(o, k) ==
    IF o.type = "market"
    THEN IF Buy(o) THEN Up(o.ref * (100 + Slippage), 100 * k) \div 100
         ELSE Down(o.ref * (100 - Slippage), 100 * k) \div 100
    ELSE IF Buy(o) THEN Down(o.limit, k) ELSE Up(o.limit, k)
Stop(o, k) == IF Buy(o) THEN Down(o.stop, k) ELSE Up(o.stop, k)
Take(o, k) == IF Buy(o) THEN Down(o.take, k) ELSE Up(o.take, k)

Ordered(o, entry, stop, take) == IF Buy(o) THEN stop < entry /\ entry < take ELSE take < entry /\ entry < stop
Fee(qty, price) == qty * price * FeeRate
Loss(qty, entry, stop) == qty * Abs(entry - stop) * 1000 + Fee(qty, entry) + Fee(qty, stop)
Reward(qty, entry, take) == qty * Abs(take - entry) * 1000 - Fee(qty, entry) - Fee(qty, take)
Capital(o, qty, entry) ==
    IF o.category = "linear" THEN (qty * entry * 1000) \div Leverage + Fee(qty, entry)
    ELSE IF Buy(o) THEN qty * entry * 1000 + Fee(qty, entry) ELSE 0

\* build_order_preview: the figures of a preview.
Built(o, k) ==
    [qty |-> Down(o.qty, QtyStep), entry |-> Entry(o, k), stop |-> Stop(o, k), take |-> Take(o, k),
     loss |-> Loss(Down(o.qty, QtyStep), Entry(o, k), Stop(o, k)),
     reward |-> Reward(Down(o.qty, QtyStep), Entry(o, k), Take(o, k)),
     slippage |-> IF o.type = "market" THEN Down(o.qty, QtyStep) * Abs(Entry(o, k) - o.ref) ELSE 0,
     capital |-> Capital(o, Down(o.qty, QtyStep), Entry(o, k)),
     balance |-> o.balance, tick |-> k, rulesAt |-> rules.at]
\* The risk is compared with the price distance alone.
AcceptedPriceRisk(o, p) ==
    /\ p.qty \in QtyStep..MaxQty
    /\ {p.entry, p.stop, p.take} \subseteq 1..MaxPrice
    /\ Ordered(o, p.entry, p.stop, p.take)
    /\ p.qty * p.entry >= MinNotional
    /\ p.loss > 0 /\ p.reward > 0
    /\ p.qty * Abs(p.entry - p.stop) * 100 <= MaxRisk * Equity
    /\ p.capital <= p.balance * 1000
    /\ (o.category = "spot" /\ ~Buy(o)) => p.qty <= Asset
\* Every check of a built preview.
Accepted(o, p) ==
    /\ p.qty \in QtyStep..MaxQty
    /\ {p.entry, p.stop, p.take} \subseteq 1..MaxPrice
    /\ Ordered(o, p.entry, p.stop, p.take)
    /\ p.qty * p.entry >= MinNotional
    /\ p.loss > 0 /\ p.reward > 0
    /\ p.loss * 100 <= MaxRisk * Equity * 1000
    /\ p.capital <= p.balance * 1000
    /\ (o.category = "spot" /\ ~Buy(o)) => p.qty <= Asset

\* Requests are independent of one another: one is followed.
Preview(o) ==
    /\ Cached /\ preview = NoPreview
    /\ \E p \in {Built(o, rules.tick)} :
        /\ Accepted(o, p)
        /\ preview' = p /\ order' = o
    /\ UNCHANGED <<clock, exchangeTick, ticks, rules, verdict>>

-----------------------------------------------------------------------------
\* The checks of the binding, made from the preview alone: the numbers'
\* signs, and every figure calculated again.
Consistent(o, p) ==
    /\ p.qty > 0 /\ p.entry > 0 /\ p.stop > 0 /\ p.take > 0 /\ p.loss > 0 /\ p.reward > 0 /\ p.balance > 0
    /\ p.loss * 100 <= MaxRisk * Equity * 1000
    /\ Ordered(o, p.entry, p.stop, p.take)
    /\ o.type = "market" => /\ Buy(o) => p.entry >= o.ref
                            /\ ~Buy(o) => p.entry <= o.ref
    /\ p.slippage = (IF o.type = "market" THEN p.qty * Abs(p.entry - o.ref) ELSE 0)
    /\ p.loss = p.qty * Abs(p.entry - p.stop) * 1000 + Fee(p.qty, p.entry) + Fee(p.qty, p.stop)
    /\ p.reward = p.qty * Abs(p.take - p.entry) * 1000 - Fee(p.qty, p.entry) - Fee(p.qty, p.take)
    /\ p.capital = Capital(o, p.qty, p.entry) /\ p.capital <= p.balance * 1000
RulesYoung(p) == clock - p.rulesAt <= MaxRulesAge
\* bind_preview_to_candidate, with a candidate that carries the preview's
\* digest and passes its own validation.
Bind ==
    /\ preview # NoPreview /\ verdict = "none"
    /\ verdict' = IF Consistent(order, preview) /\ RulesYoung(preview) THEN "bound" ELSE "refused"
    /\ UNCHANGED <<clock, exchangeTick, ticks, rules, order, preview>>

Next ==
    \/ Tick \/ Fetch \/ Invalidate \/ Bind
    \/ \E k \in Ticks : NewTick(k)
    \/ \E o \in Orders : Preview(o)
Spec == Init /\ [][Next]_vars

-----------------------------------------------------------------------------
\* Where a fill at least as good as the preview's entry can happen.
Fills == LET lo == IF order.type = "market" /\ Buy(order) THEN order.ref ELSE preview.entry - 3
             hi == IF order.type = "market" /\ ~Buy(order) THEN order.ref ELSE preview.entry + 3
         IN  {f \in lo..hi : f > 0 /\ IF Buy(order) THEN f <= preview.entry ELSE f >= preview.entry}

\* The risk limit holds for what really happens: wherever the order is filled
\* between the reference and the entry, or at the limit or better, and is
\* stopped out at the price asked for, the loss with both fees stays within
\* the permitted share of the equity.
LossCovered ==
    preview # NoPreview
    => \A f \in Fills :
         (IF Buy(order) THEN f > order.stop ELSE f < order.stop)
         => (preview.qty * Abs(f - order.stop) * 1000 + Fee(preview.qty, f) + Fee(preview.qty, order.stop)) * 100
            <= MaxRisk * Equity * 1000

\* Rounding never flatters the order: the reward shown is at most, and the loss
\* at least, what the prices asked for would give at the same entry.
Conservative ==
    preview # NoPreview
    => /\ preview.reward <= Reward(preview.qty, preview.entry, order.take)
       /\ preview.loss >= Loss(preview.qty, preview.entry, order.stop)

\* The binding's own arithmetic agrees with the builder's: a preview is refused
\* only because its rules have grown old, or because the balance is zero (a
\* sale of coins needs none to be built, yet the binding wants one).
RefusedOnlyForAge ==
    verdict = "refused" => preview.balance = 0 \/ \E t \in 1..Horizon : t <= clock /\ t - preview.rulesAt > MaxRulesAge

\* A preview is bound only if its prices lie on a tick size the exchange had at
\* most MaxRulesAge ago, though the cache keeps rules longer than that.
BoundYoung ==
    [][verdict' = "bound" /\ verdict = "none"
       => \E t \in 1..clock : t >= clock - MaxRulesAge /\ preview.tick \in ticks[t] /\ preview.entry % preview.tick = 0]_vars
=============================================================================
