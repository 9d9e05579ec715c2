--------------------------- MODULE VirtualAccount ---------------------------
(***************************************************************************)
(* The file-backed virtual account: market_paper_engine.py on top of       *)
(* paper_activity_engine.py, the allocator capital_allocation.py and the   *)
(* profitability gate.  Several processes (the dashboard, the verifier of  *)
(* a deployment) each load the account, change their copy and save it; the *)
(* lock of the code is held inside the load and inside the save only, and  *)
(* only within one process.  Quotes are external and may be unverified.    *)
(***************************************************************************)
EXTENDS Integers, Sequences, SequencesExt, FiniteSets, FiniteSetsExt

CONSTANTS
    Actors,        \* processes that use the account's file
    NSymbols,      \* length of the symbol rotation
    Prices,        \* verified prices a quote may show
    Start,         \* STARTING_CASH in the smallest unit
    MaxOpen,       \* max_open_positions
    MaxStreak,     \* max_negative_streak of the profitability gate
    MaxHold,       \* MAX_HOLD_SECONDS, in intervals of a tick
    Reserve, Total, Position, \* percentages of the allocation policy
    CatchUp,       \* bootstrap_ticks and max_catch_up_ticks of the legacy engine
    Legacy,        \* TRUE: the legacy engine, FALSE: the market-backed one
    MaxTime, MaxOps, MaxCrashes \* bounds of the instance

VARIABLES path, bak,   \* the state file and its last-known-good backup
          now, ops, crashes,
          todo,        \* what the operation under way still has to do
          pc, doc,     \* where the save of an actor is, and what it saves
          published    \* ghost: the document of the last completed save
vars == <<path, bak, now, ops, crashes, todo, pc, doc, published>>

None == [none |-> TRUE]
Unverified == 0
Symbols == 0..NSymbols - 1

\* What _market_payload may show for the symbols: a verified price or nothing.
Quotes == [Symbols -> Prices \cup {Unverified}]
Default == [cash |-> Start, equity |-> Start, trades |-> <<>>, ticks |-> 0, skipped |-> 0, last |-> 0]

Load == IF path # None THEN path ELSE IF bak # None THEN bak ELSE Default

OpenOf(d) == {i \in DOMAIN d.trades : d.trades[i].open}
Fee(notional) == notional \div 1000
Gross(t, price) == (IF t.buy THEN 1 ELSE -1) * (((price - t.entry) * t.notional) \div t.entry)
SumOver(d, S, f(_)) == FoldSet(LAMBDA i, acc : acc + f(d.trades[i]), 0, S)
Equity(d) == d.cash + SumOver(d, OpenOf(d), LAMBDA t : t.value)
WithEquity(d) == [d EXCEPT !.equity = Equity(d)]

Marked(t, price) ==
    IF ~t.open \/ price = Unverified THEN t
    ELSE [t EXCEPT !.cur = price, !.value = Gross(t, price) - Fee(t.notional),
                   !.net = Gross(t, price) - t.fee - Fee(t.notional)]

Refreshed(d, q) ==
    WithEquity([d EXCEPT !.trades = [i \in DOMAIN d.trades |-> Marked(d.trades[i], q[d.trades[i].sym])]])

Closed(d, i, price) ==
    LET t == d.trades[i] gross == Gross(t, price) exit == Fee(t.notional)
    IN WithEquity([d EXCEPT !.trades[i] = [t EXCEPT !.open = FALSE, !.cur = price, !.value = 0,
                                                    !.fee = t.fee + exit, !.net = gross - t.fee - exit],
                            !.cash = @ + gross - exit])

\* Take profit at 1.2%, stop loss at 0.8%, maximum holding time.
SignedPermille(t) == (IF t.buy THEN 1 ELSE -1) * (((t.cur - t.entry) * 1000) \div t.entry)
Triggered(d) == {i \in OpenOf(d) : LET t == d.trades[i]
                    IN SignedPermille(t) >= 12 \/ SignedPermille(t) <= -8 \/ now - t.at >= MaxHold}
Oldest(d, S) == CHOOSE i \in S : \A j \in S : d.trades[i].at < d.trades[j].at
                                     \/ (d.trades[i].at = d.trades[j].at /\ i <= j)

\* build_capital_allocation as the engine calls it: no symbol, no group.
DeployedNotional(d) == SumOver(d, OpenOf(d), LAMBDA t : t.notional)
Allocate(d) ==
    LET deployable == Min({d.equity - ((d.equity * Reserve) \div 100), ((d.equity * Total) \div 100)})
        available == Max({0, deployable - DeployedNotional(d)})
        riskCap == ((d.equity * 10) \div (8 + 2))       \* 1% risk over stop loss and two fees
    IN Min({available, ((d.equity * Position) \div 100), riskCap})
Allowed(d) == d.equity > 0 /\ Cardinality(OpenOf(d)) < MaxOpen /\ Allocate(d) >= Start \div 400

NegativeStreak(d) ==
    LET closed == SelectSeq(d.trades, LAMBDA t : ~t.open)
        stops == {i \in DOMAIN closed : closed[i].net >= 0}
    IN Len(closed) - (IF stops = {} THEN 0 ELSE Max(stops))

Opened(d, sym, buy, price) ==
    LET n == Allocate(d)
    IN WithEquity([d EXCEPT !.trades = Append(@,
            [id |-> <<now, d.ticks>>, sym |-> sym, buy |-> buy, open |-> TRUE, notional |-> n,
             entry |-> price, cur |-> price, fee |-> Fee(n), value |-> -Fee(n),
             net |-> -2 * Fee(n), at |-> now, base |-> d.equity]),
        !.cash = @ - Fee(n)])

Skipped(d) == [d EXCEPT !.skipped = @ + 1]
-----------------------------------------------------------------------------
Init == /\ path = None /\ bak = None /\ now = 1 /\ ops = 0 /\ crashes = 0
        /\ todo = [a \in Actors |-> <<>>] /\ pc = [a \in Actors |-> "idle"]
        /\ doc = [a \in Actors |-> None] /\ published = Default

\* A dashboard request or a script begins an operation of the engine.
Begin(a, phases) ==
    /\ todo[a] = <<>> /\ pc[a] = "idle" /\ ops < MaxOps
    /\ ops' = ops + 1 /\ todo' = [todo EXCEPT ![a] = phases]
    /\ UNCHANGED <<path, bak, now, crashes, pc, doc, published>>
BeginState(a) == ~Legacy /\ Begin(a, <<"state">>)
BeginTick(a) == \E phase \in {"tick", "force"} : Begin(a, IF Legacy THEN <<phase>> ELSE <<phase, "state">>)
MissedTicks == IF Load.last = 0 THEN CatchUp ELSE Min({CatchUp, now - Load.last})
BeginCatchUp(a) ==
    /\ Load.last = 0 \/ now - Load.last >= 1
    /\ Begin(a, IF Legacy THEN [i \in 1..MissedTicks |-> "force"] \o <<"touch">>
                          ELSE <<"force", "state", "touch">>)
BeginReset(a) == Begin(a, IF Legacy THEN <<"reset">> ELSE <<"reset", "state">>)

Phase(a) == todo[a] # <<>> /\ pc[a] = "idle"
Prepare(a, d) ==
    /\ doc' = [doc EXCEPT ![a] = d] /\ pc' = [pc EXCEPT ![a] = "check"]
    /\ UNCHANGED <<path, bak, now, ops, crashes, todo, published>>

LoadState(a) == /\ Phase(a) /\ Head(todo[a]) = "state"
                /\ \E q \in Quotes : Prepare(a, Refreshed(Load, q))
LoadTouch(a) == Phase(a) /\ Head(todo[a]) = "touch" /\ Prepare(a, Load)
LoadReset(a) == Phase(a) /\ Head(todo[a]) = "reset" /\ Prepare(a, Default)
WaitInterval(a) ==
    /\ Phase(a) /\ Head(todo[a]) = "tick" /\ now - Load.last < 1
    /\ Prepare(a, Load)

Due(a) == Phase(a) /\ (Head(todo[a]) = "force" \/ (Head(todo[a]) = "tick" /\ now - Load.last >= 1))
Count == Max({Load.ticks, Load.skipped})
Ticked(q) == Refreshed([Load EXCEPT !.ticks = Count + 1, !.last = now], q)

TickClose(a) ==
    /\ ~Legacy /\ Due(a)
    /\ \E q \in Quotes, price \in Prices :
        LET d == Ticked(q) IN /\ Triggered(d) # {}
                              /\ Prepare(a, Closed(d, Oldest(d, Triggered(d)), price))

TickEntry(a) ==
    /\ ~Legacy /\ Due(a)
    /\ \E q \in Quotes, price \in Prices, buy \in BOOLEAN :
        LET d == Ticked(q)
        IN /\ Cardinality(OpenOf(d)) < MaxOpen /\ Allowed(d) /\ NegativeStreak(d) < MaxStreak
           /\ Prepare(a, Opened(d, Count % NSymbols, buy, price))

TickRotate(a) ==
    /\ ~Legacy /\ Due(a)
    /\ \E q \in Quotes, price \in Prices :
        LET d == Ticked(q) IN /\ Cardinality(OpenOf(d)) >= MaxOpen
                              /\ Prepare(a, Closed(d, Oldest(d, OpenOf(d)), price))

\* No quote, blocked gate, weak signal, no capital, or no expected profit.
TickWait(a) ==
    /\ ~Legacy /\ Due(a)
    /\ \E q \in Quotes :
        Prepare(a, Skipped(Ticked(q)))

\* The legacy engine: fixed size, invented results, no quotes.  The ticks it
\* makes up for carry the current interval here, backdated ones in the code.
LegacyOpened(d, buy) ==
    [d EXCEPT !.trades = Append(@, [id |-> <<now, d.ticks>>, sym |-> d.ticks % NSymbols, buy |-> buy,
                 open |-> TRUE, notional |-> 1000, entry |-> 1, cur |-> 1, fee |-> 1, value |-> 0,
                 net |-> -1, at |-> now, base |-> d.equity]),
              !.cash = @ - 1, !.ticks = @ + 1, !.last = now]
LegacyClosed(d, i, pnl) ==
    LET fee == d.trades[i].fee + 1
    IN [d EXCEPT !.trades[i] = [@ EXCEPT !.open = FALSE, !.fee = fee, !.net = pnl - fee],
                 !.cash = @ + pnl - fee, !.ticks = @ + 1, !.last = now]
LegacyTick(a) ==
    /\ Legacy /\ Due(a)
    /\ \/ Prepare(a, [Load EXCEPT !.last = now, !.skipped = @ + 1])
       \/ /\ Cardinality(OpenOf(Load)) >= MaxOpen
          /\ \E pnl \in {-1, 3} : Prepare(a, LegacyClosed(Load, Oldest(Load, OpenOf(Load)), pnl))
       \/ /\ Cardinality(OpenOf(Load)) < MaxOpen
          /\ Prepare(a, [Load EXCEPT !.last = now, !.ticks = @ + 1, !.skipped = @ + 1])
       \/ /\ Cardinality(OpenOf(Load)) < MaxOpen /\ NegativeStreak(Load) < MaxStreak
          /\ Prepare(a, LegacyOpened(Load, Load.ticks % 3 # 2))
-----------------------------------------------------------------------------
\* _save: look whether the file is readable, move it to the backup, publish.
Check(a) ==
    /\ pc[a] = "check"
    /\ pc' = [pc EXCEPT ![a] = IF path # None THEN "rotate" ELSE "publish"]
    /\ UNCHANGED <<path, bak, now, ops, crashes, todo, doc, published>>

EndWith(a, rest) == /\ todo' = [todo EXCEPT ![a] = rest] /\ pc' = [pc EXCEPT ![a] = "idle"]
                    /\ doc' = [doc EXCEPT ![a] = None]

\* Another process took the file away between the look and the move: raises.
RotateFails(a) == /\ pc[a] = "rotate" /\ path = None /\ EndWith(a, <<>>)
                  /\ UNCHANGED <<path, bak, now, ops, crashes, published>>
RotateDeletes(a) == /\ pc[a] = "rotate" /\ path # None /\ path' = None
                    /\ pc' = [pc EXCEPT ![a] = "publish"]
                    /\ UNCHANGED <<bak, now, ops, crashes, todo, doc, published>>
Rotate(a) == /\ pc[a] = "rotate" /\ path # None /\ bak' = path /\ path' = None
             /\ pc' = [pc EXCEPT ![a] = "publish"]
             /\ UNCHANGED <<now, ops, crashes, todo, doc, published>>
Publish(a) == /\ pc[a] = "publish" /\ path' = doc[a] /\ published' = doc[a] /\ EndWith(a, Tail(todo[a]))
              /\ UNCHANGED <<bak, now, ops, crashes>>

Crash(a) == /\ todo[a] # <<>> /\ crashes < MaxCrashes /\ crashes' = crashes + 1 /\ EndWith(a, <<>>)
            /\ UNCHANGED <<path, bak, now, ops, published>>
Advance == now < MaxTime /\ now' = now + 1 /\ UNCHANGED <<path, bak, ops, crashes, todo, pc, doc, published>>

Next == \/ Advance
        \/ \E a \in Actors : \/ BeginState(a) \/ BeginTick(a) \/ BeginCatchUp(a) \/ BeginReset(a)
                             \/ LoadState(a) \/ LoadTouch(a) \/ LoadReset(a) \/ WaitInterval(a)
                             \/ TickClose(a) \/ TickEntry(a) \/ TickRotate(a) \/ TickWait(a) \/ LegacyTick(a)
                             \/ Check(a) \/ RotateFails(a) \/ Rotate(a) \/ Publish(a) \/ Crash(a)
Spec == Init /\ [][Next]_vars
-----------------------------------------------------------------------------
DocOK(d) == /\ d.ticks \in Nat /\ d.skipped \in Nat /\ d.last \in 0..MaxTime
            /\ d.equity = IF Legacy THEN d.equity ELSE Equity(d)
            /\ \A i \in DOMAIN d.trades : d.trades[i].sym \in Symbols /\ d.trades[i].notional > 0

\* The types, and the equity of every saved account is its cash plus what its
\* open positions contribute (_open_equity_contribution after every change).
TypeOK == /\ \A d \in {path, bak} \ {None} : DocOK(d)
          /\ \A a \in Actors : pc[a] \in {"idle", "check", "rotate", "publish"}

\* "keep one last-known-good backup": whatever crashed in the middle of a save,
\* and whichever processes save at once, a load gives the last account saved.
LastSavedLoads == Load = published

\* Every fee and every result is booked in the cash exactly once: the cash is
\* the starting cash, plus what closed trades earned net, less the entry fees
\* of the open ones.
Balanced == published.cash = Start + SumOver(published, DOMAIN published.trades \ OpenOf(published), LAMBDA t : t.net)
                                   - SumOver(published, OpenOf(published), LAMBDA t : t.fee)

\* The reserve: all open positions together never exceed the share of equity
\* that the newest of them was allowed to be sized against.
ReserveKept ==
    OpenOf(published) # {} =>
        DeployedNotional(published) * 100 <= Total * published.trades[Max(OpenOf(published))].base

\* A trade taken while the streak of losing trades is at its limit.
OpensIn(d, e) == Len(e.trades) > Len(d.trades)
StreakHoldsStep ==
    \A a \in Actors : (doc'[a] # None /\ doc[a] = None /\ NegativeStreak(Load) >= MaxStreak)
       => ~OpensIn(Load, doc'[a])

=============================================================================
