------------------------------ MODULE Backtest ------------------------------
(***************************************************************************)
(* EventDrivenBacktester of trading_core/backtest.py with the execution    *)
(* costs of costs.py and the allocator of capital_allocation.py.  Market   *)
(* events of several symbols are processed one by one; a strategy answers  *)
(* each with BUY, SELL or nothing.  A signal decided on a quote derived    *)
(* from a bar's close waits for the next event of its symbol; any other    *)
(* one is filled on the event it was decided on.  Money is in whole units. *)
(***************************************************************************)
EXTENDS Integers, Sequences, SequencesExt, FiniteSets, FiniteSetsExt

CONSTANTS
    NSymbols,    \* symbols, in the order that breaks ties of a timestamp
    Majors,      \* symbols of the correlation group crypto_beta
    Bids,        \* bids an event may show
    Spread,      \* ask minus bid
    Fundings,    \* funding of an event: "paid" by a long position, "received", "none"
    Sources,     \* price source of an event: "quote" or "close"
    Depths,      \* volume of an event: "deep" or "thin"
    ThinLimit,   \* largest quantity that a thin event can fill
    Risks,       \* requested_risk_percent of a signal
    Timing,      \* execution_timing: "auto", "same_event" or "next_event"
    ForceClose,  \* force_close_at_end
    InitialCash, MaxOpen, MinNotional,
    Reserve, Total, Position, Correlated, MaxRisk, \* percentages of the policy
    Slip,        \* slippage and impact of a unit
    MaxEvents    \* bound on the events of a history

Symbols == 1..NSymbols

VARIABLES
    book,     \* cash, realized PnL, gross trading PnL, fees, funding and positions
    pending,  \* the signal of each symbol that waits for its next event
    last,     \* last event of each symbol
    clock,    \* key (timestamp, symbol) of the last event
    curve,    \* equity_curve
    pc,       \* "run", "done" or "failed"
    ending,   \* ending_equity of the result
    seen,     \* ghost: symbol and source of every event processed
    fills     \* ghost: symbol, side, event that decided and event that filled
vars == <<book, pending, last, clock, curve, pc, ending, seen, fills>>

None == [none |-> TRUE]
Held(b) == {s \in Symbols : b.pos[s] # None}
SumOf(S, f(_)) == FoldSet(LAMBDA s, acc : acc + f(s), 0, S)
Mid(e) == e.bid + Spread \div 2
Ask(e) == e.bid + Spread
Group(s) == IF s \in Majors THEN 0 ELSE s

Fee(notional) == notional \div 100

\* estimate raises when the order takes too much of the event's volume.
TooLarge(e, q) == e.depth = "thin" /\ q > ThinLimit

\* _snapshot: positions are worth their bid.
Equity(b, l) == b.cash + SumOf(Held(b), LAMBDA s : b.pos[s].qty * l[s].bid)

Least(S) == Min(S)
Room(cap, used) == IF cap > used THEN cap - used ELSE 0
Deployed(b, l, S) == SumOf(S, LAMBDA s : b.pos[s].qty * Mid(l[s]))
\* build_capital_allocation: the notional granted, 0 when it is refused.  The
\* stop of a signal and the fees of a round trip together are 3% of a position.
Allocate(b, l, s, risk) ==
    LET eq == Equity(b, l)
        free == Room(Least({eq - (eq * Reserve) \div 100, (eq * Total) \div 100}), Deployed(b, l, Held(b)))
        kin == {h \in Held(b) : Group(h) = Group(s)}
        n == Least({free, (eq * Position) \div 100,
                    Room((eq * Correlated) \div 100, Deployed(b, l, kin)),
                    (eq * Least({risk, MaxRisk})) \div 3})
    IN IF eq <= 0 \/ Cardinality(Held(b)) >= MaxOpen \/ n < MinNotional THEN 0 ELSE n
-----------------------------------------------------------------------------
\* What execute does with a signal on event e: the book and the fill, or a failure.
Nothing(b) == [book |-> b, filled |-> FALSE, failed |-> FALSE]

Buy(b, e, q) ==
    LET s == e.sym
        cost == (Ask(e) + Slip) * q
    IN IF q = 0 \/ cost + Fee(cost) > b.cash THEN Nothing(b)
       ELSE [Nothing(b) EXCEPT !.filled = TRUE,
               !.book = [b EXCEPT !.cash = @ - cost - Fee(cost), !.fees = @ + Fee(cost),
                           !.pos[s] = [qty |-> q, notional |-> cost, fee |-> Fee(cost),
                                       funding |-> 0, funded |-> e.t]]]

\* _close_position at event e, the last of symbol s.
Close(b, e, s) ==
    LET p == b.pos[s] got == (e.bid - Slip) * p.qty gross == got - p.notional
    IN [b EXCEPT !.cash = @ + got - Fee(got), !.gross = @ + gross, !.fees = @ + Fee(got),
                 !.realized = @ + gross - p.fee - Fee(got) - p.funding, !.pos[s] = None]

Sell(b, e) ==
    IF b.pos[e.sym] = None THEN Nothing(b)
    ELSE [Nothing(b) EXCEPT !.filled = TRUE, !.book = Close(b, e, e.sym)]

\* A buy of a symbol already held does nothing; a fill beyond the volume raises.
Quantity(b, l, e, sig) ==
    IF sig.side = "sell" THEN IF b.pos[e.sym] = None THEN 0 ELSE b.pos[e.sym].qty
    ELSE IF b.pos[e.sym] # None THEN 0 ELSE Allocate(b, l, e.sym, sig.risk) \div Ask(e)
Execute(b, l, e, sig) ==
    LET q == Quantity(b, l, e, sig)
    IN IF TooLarge(e, q) THEN [Nothing(b) EXCEPT !.failed = TRUE]
       ELSE IF sig.side = "buy" THEN Buy(b, e, q) ELSE Sell(b, e)

\* _apply_funding since the position's last funding.
ApplyFunding(b, e) ==
    LET s == e.sym
        p == b.pos[s]
        sign == CASE e.funding = "paid" -> 1 [] e.funding = "received" -> -1 [] OTHER -> 0
        amount == sign * ((p.qty * Mid(e) * (e.t - p.funded)) \div 100)
    IN IF p = None THEN b
       ELSE [b EXCEPT !.cash = @ - amount, !.funding = @ + amount,
                      !.pos[s].funding = @ + amount, !.pos[s].funded = e.t]

\* A signal fills on the event it was decided on, whatever its price is made of.
FillsNow(e) == Timing # "next_event"
\* _execution_timing, which refuses to fill a close-derived signal at once.
SameEvent(e) == Timing # "next_event" /\ e.source = "quote"
UnsafeTiming(e) == Timing = "same_event" /\ e.source = "close"
-----------------------------------------------------------------------------
Init ==
    /\ book = [cash |-> InitialCash, realized |-> 0, gross |-> 0, fees |-> 0, funding |-> 0,
               pos |-> [s \in Symbols |-> None]]
    /\ pending = [s \in Symbols |-> None] /\ last = [s \in Symbols |-> None]
    /\ clock = <<1, 0>> /\ curve = <<>> /\ pc = "run" /\ ending = 0 /\ seen = <<>> /\ fills = {}

Events == [t : clock[1]..clock[1] + 1, sym : Symbols, bid : Bids, funding : Fundings,
           source : Sources, depth : Depths]
Signals == {None} \cup [side : {"buy", "sell"}, risk : Risks]
InOrder(e) == e.t > clock[1] \/ e.sym > clock[2]

\* What an event makes of the book: funding, then the waiting signal, then the
\* strategy's own one when it may be filled at once.
Funded(b, e) == {[Nothing(ApplyFunding(b, e)) EXCEPT !.failed = ~InOrder(e)]}
Fill(r, l, e, sig, now) == IF sig = None \/ ~now \/ r.failed THEN {[r EXCEPT !.filled = FALSE]} ELSE {Execute(r.book, l, e, sig)}

\* The body of the loop of run for one event, and the answer of the strategy.  An
\* event out of order, a fill beyond the volume and an unsafe timing raise: the run
\* has no result.
OnMarket(e, sig) ==
    /\ pc = "run" /\ Len(seen) < MaxEvents
    /\ \E l \in {[last EXCEPT ![e.sym] = e]}, n \in {Len(seen) + 1}, now \in {SameEvent(e)} :
       \E funded \in Funded(book, e) :
       \E first \in Fill(funded, l, e, pending[e.sym], TRUE) :
       \E second \in Fill(first, l, e, sig, now) :
         IF second.failed \/ (sig # None /\ UnsafeTiming(e))
         THEN pc' = "failed" /\ UNCHANGED <<book, pending, last, clock, curve, ending, seen, fills>>
         ELSE /\ book' = second.book
              /\ last' = l
              /\ pending' = [pending EXCEPT ![e.sym] =
                    IF sig # None /\ ~now THEN [side |-> sig.side, risk |-> sig.risk, at |-> n] ELSE None]
              /\ clock' = <<e.t, e.sym>>
              /\ curve' = Append(curve, Equity(second.book, l))
              /\ seen' = Append(seen, [sym |-> e.sym, source |-> e.source])
              /\ fills' = fills
                    \cup (IF first.filled THEN {[sym |-> e.sym, side |-> pending[e.sym].side,
                                                 decided |-> pending[e.sym].at, at |-> n]} ELSE {})
                    \cup (IF second.filled THEN {[sym |-> e.sym, side |-> sig.side, decided |-> n, at |-> n]} ELSE {})
              /\ UNCHANGED <<pc, ending>>

\* Closing what is left, in the order of the symbols.
ForceClosed(b) ==
    FoldLeft(LAMBDA acc, s : IF acc.pos[s] = None THEN acc ELSE Close(acc, last[s], s), b,
             [s \in Symbols |-> s])

Finish ==
    /\ pc = "run"
    /\ \A s \in Held(book) : ForceClose => ~TooLarge(last[s], book.pos[s].qty)
    /\ book' = IF ForceClose THEN ForceClosed(book) ELSE book
    /\ curve' = IF ForceClose /\ Held(book) # {} THEN Append(curve, book'.cash) ELSE curve
    /\ ending' = Equity(book', last)
    /\ pc' = "done"
    /\ UNCHANGED <<pending, last, clock, seen, fills>>

\* The closing itself exceeds the volume of the last event and raises.
FinishFails ==
    /\ pc = "run" /\ ForceClose
    /\ \E s \in Held(book) : TooLarge(last[s], book.pos[s].qty)
    /\ pc' = "failed"
    /\ UNCHANGED <<book, pending, last, clock, curve, ending, seen, fills>>

Next == (\E e \in Events, sig \in Signals : OnMarket(e, sig)) \/ Finish \/ FinishFails
Spec == Init /\ [][Next]_vars
-----------------------------------------------------------------------------
\* _maximum_drawdown_percent, in whole percent.
Drawdown(initial, c) ==
    FoldLeft(LAMBDA acc, e :
        LET peak == Max({acc.peak, e})
        IN [peak |-> peak, worst |-> Max({acc.worst, ((peak - e) * 100) \div peak})],
        [peak |-> initial, worst |-> 0], c).worst
-----------------------------------------------------------------------------
\* Nothing is left out of the account: cash is the initial cash plus what closed
\* positions realized minus what the open ones cost, over any sequence of funding,
\* deferred fills, fills at once and closings at the end (backtest.py:103-174, 365-445).
Balanced ==
    book.cash = InitialCash + book.realized
                - SumOf(Held(book), LAMBDA s : book.pos[s].notional + book.pos[s].fee + book.pos[s].funding)

\* The gross result less every fee and funding reported is the net one, open
\* positions' own costs apart: no cost is counted twice or never (backtest.py:294-363).
CostsAddUp ==
    book.gross - book.fees - book.funding
        = book.realized - SumOf(Held(book), LAMBDA s : book.pos[s].fee + book.pos[s].funding)

\* A signal decided on a close-derived quote is filled by the next event of its own
\* symbol, never by its own event, another symbol's event or a later one ("an
\* intervening ETH event can never fill a BTC signal", backtest.py:209-211).
NoLookahead ==
    \A f \in fills :
        /\ seen[f.at].sym = f.sym /\ seen[f.decided].sym = f.sym
        /\ \A i \in f.decided + 1..f.at - 1 : seen[i].sym # f.sym
        /\ seen[f.decided].source = "close" => f.at > f.decided

\* Taking a position leaves the reserve of the equity in cash, execution costs apart,
\* and the correlated positions within their share, at the quotes of that moment and
\* after the funding and any deferred fill of the same event (capital_allocation.py:163-227).
Entered(s) ==
    LET p == book'.pos[s]
        q == p.qty * Ask(last'[s])
        others == Held(book') \ {s}
        before == book'.cash + p.notional + p.fee + SumOf(others, LAMBDA h : book'.pos[h].qty * last'[h].bid)
        kin == {h \in others : Group(h) = Group(s)}
    IN /\ 100 * (book'.cash + p.notional + p.fee - q) >= Reserve * before
       /\ 100 * (Deployed(book', last', kin) + q) <= Correlated * before
ExposureKept == [][\A s \in Symbols : book'.pos[s] # None /\ book.pos[s] = None => Entered(s)]_vars

\* A forced end leaves nothing open, the equity reported is the cash and the last
\* sample of the curve, and the net result is the realized one (backtest.py:256-312).
EndsFlat ==
    pc = "done" /\ ForceClose =>
        /\ Held(book) = {} /\ ending = InitialCash + book.realized
        /\ curve = <<>> \/ Last(curve) = ending

\* The drawdown reported is the largest fall from the initial capital or an earlier
\* sample to a later sample, the closing at the end included (backtest.py:710-717).
DrawdownIsLargest ==
    pc = "done" =>
        LET c == <<InitialCash>> \o curve
        IN Drawdown(InitialCash, curve) =
           Max({((c[p[1]] - c[p[2]]) * 100) \div c[p[1]] : p \in {q \in (DOMAIN c) \X (DOMAIN c) : q[1] <= q[2]}})
=============================================================================
