------------------------------ MODULE PaperBroker ------------------------------
(***************************************************************************)
(* The restart-safe paper broker (trading_core/paper_broker.py): one       *)
(* account document, read and put back with its version by fills and       *)
(* marks, with up to Retries attempts.  One symbol.                        *)
(*                                                                         *)
(* Money is an integer in units small enough for the divisions of the      *)
(* instances to be exact.  The average entry price is kept as the cost of  *)
(* the whole position, its product with the quantity.                      *)
(***************************************************************************)
EXTENDS Integers, Sequences, FiniteSets, SequencesExt

CONSTANTS Threads, FillIds,
          InitialCash, Mids, UnitFee, Slip,  \* prices, fee and slippage per unit
          Rates, RateUnit,  \* funding per unit of time, in RateUnit-ths
          MaxQuantity, MaximumFills, Retries,
          MaxTime,          \* last event time
          MaxOps            \* fills and marks that can begin

VARIABLES account,  \* the account document
          at,       \* where each thread is, and its locals
          ops,
          applied,  \* history: how often each fill id changed the account
          answers   \* history: the fills execute returned for each id

brokerVars == <<account, at, ops, applied, answers>>

NoPosition == [qty |-> 0, cost |-> 0, fees |-> 0, funding |-> 0, funded |-> 0]
IdleThread == [pc |-> "idle", call |-> "none", fill |-> "none", side |-> "none",
               qty |-> 0, event |-> [time |-> 0, mid |-> 0, rate |-> 0],
               seen |-> <<>>, tries |-> 0]

Events == [time : 1..MaxTime, mid : Mids, rate : Rates]

\* _ensure_account.
BrokerInit ==
    /\ account = [cash |-> InitialCash, realized |-> 0, pos |-> NoPosition,
                  fills |-> <<>>, ver |-> 1]
    /\ at = [t \in Threads |-> IdleThread]
    /\ ops = 0
    /\ applied = [f \in FillIds |-> 0]
    /\ answers = [f \in FillIds |-> {}]

\* _normalize_state refuses what cannot be a paper account.
Readable(a) == a.cash >= 0

----------------------------------------------------------------------------
\* _apply_funding: the position pays for the time since it last paid; an
\* event from before that time pays nothing.
Funding(a, e) ==
    LET amount == IF a.pos.qty = 0 \/ e.time <= a.pos.funded THEN 0
                  ELSE (a.pos.qty * e.mid * e.rate * (e.time - a.pos.funded))
                       \div RateUnit
    IN [a EXCEPT !.cash = @ - amount, !.pos.funding = @ + amount,
                 !.pos.funded = IF a.pos.qty > 0 /\ e.time > @ THEN e.time
                                ELSE @]

\* ExecutionCostModel.estimate.
Price(e, side) == IF side = "buy" THEN e.mid + Slip ELSE e.mid - Slip

Accepts(a, l) ==
    IF l.side = "buy" THEN l.qty * (Price(l.event, "buy") + UnitFee) <= a.cash
    ELSE l.qty <= a.pos.qty

Buy(a, l) ==
    LET paid == l.qty * Price(l.event, "buy")
    IN [a EXCEPT !.cash = @ - paid - l.qty * UnitFee,
                 !.pos.qty = @ + l.qty,
                 !.pos.cost = @ + paid,
                 !.pos.fees = @ + l.qty * UnitFee,
                 !.pos.funded = IF a.pos.qty = 0 THEN l.event.time ELSE @]

\* A sale takes its share of entry cost, entry fees and funding along.
Sell(a, l) ==
    LET part(x) == (x * l.qty) \div a.pos.qty
        proceeds == l.qty * (Price(l.event, "sell") - UnitFee)
    IN [a EXCEPT !.cash = @ + proceeds,
                 !.realized = @ + proceeds - part(a.pos.cost)
                                - part(a.pos.fees) - part(a.pos.funding),
                 !.pos = IF l.qty = a.pos.qty THEN NoPosition
                         ELSE [a.pos EXCEPT
                                   !.qty = @ - l.qty,
                                   !.cost = @ - part(a.pos.cost),
                                   !.fees = @ - part(a.pos.fees),
                                   !.funding = @ - part(a.pos.funding)]]

FillOf(l) == [id |-> l.fill, side |-> l.side, qty |-> l.qty,
              price |-> Price(l.event, l.side)]

\* The last MaximumFills fills are kept.
Kept(fills) ==
    SubSeq(fills, IF Len(fills) > MaximumFills
                  THEN Len(fills) - MaximumFills + 1 ELSE 1, Len(fills))

Stored(fills, id) == {f \in ToSet(fills) : f.id = id}

----------------------------------------------------------------------------
ExecuteBegins(t) ==
    /\ at[t].pc = "idle" /\ ops < MaxOps /\ ops' = ops + 1
    /\ \E f \in FillIds, s \in {"buy", "sell"}, q \in 1..MaxQuantity,
          e \in Events :
           at' = [at EXCEPT ![t] = [IdleThread EXCEPT !.pc = "read",
                      !.call = "execute", !.fill = f, !.side = s, !.qty = q,
                      !.event = e]]
    /\ UNCHANGED <<account, applied, answers>>

MarkBegins(t) ==
    /\ at[t].pc = "idle" /\ ops < MaxOps /\ ops' = ops + 1
    /\ \E e \in Events :
           at' = [at EXCEPT ![t] = [IdleThread EXCEPT !.pc = "read",
                      !.call = "mark", !.event = e]]
    /\ UNCHANGED <<account, applied, answers>>

\* The account is read: an unreadable one raises, a fill that is stored is
\* returned as it is.
Read(t) ==
    LET stored == Stored(account.fills, at[t].fill) IN
    /\ at[t].pc = "read"
    /\ IF Readable(account) /\ stored # {}
       THEN /\ answers' = [answers EXCEPT ![at[t].fill] = @ \union stored]
            /\ at' = [at EXCEPT ![t] = IdleThread]
       ELSE /\ at' = [at EXCEPT ![t] =
                          IF Readable(account)
                          THEN [@ EXCEPT !.pc = "put", !.seen = account]
                          ELSE IdleThread]
            /\ UNCHANGED answers
    /\ UNCHANGED <<account, ops, applied>>

\* What the call makes of the account it read.
Funded(l) == Funding(l.seen, l.event)
Result(l) ==
    IF l.call = "mark" THEN Funded(l)
    ELSE [(IF l.side = "buy" THEN Buy(Funded(l), l) ELSE Sell(Funded(l), l))
          EXCEPT !.fills = Kept(Append(@, FillOf(l)))]

Raises(l) == l.call = "execute" /\ ~Accepts(Funded(l), l)

PutBlindly(t) ==
    LET l == at[t] IN
    /\ l.pc = "put" /\ ~Raises(l)
    /\ account' = [Result(l) EXCEPT !.ver = @ + 1]
    /\ IF l.call = "execute"
       THEN /\ applied' = [applied EXCEPT ![l.fill] = @ + 1]
            /\ answers' = [answers EXCEPT ![l.fill] = @ \union {FillOf(l)}]
       ELSE UNCHANGED <<applied, answers>>
    /\ at' = [at EXCEPT ![t] = IdleThread]
    /\ UNCHANGED ops

\* The put, with the version that was read.
Put(t) ==
    LET l == at[t] IN
    /\ l.pc = "put" /\ ~Raises(l) /\ account.ver = l.seen.ver
    /\ account' = [Result(l) EXCEPT !.ver = @ + 1]
    /\ IF l.call = "execute"
       THEN /\ applied' = [applied EXCEPT ![l.fill] = @ + 1]
            /\ answers' = [answers EXCEPT ![l.fill] = @ \union {FillOf(l)}]
       ELSE UNCHANGED <<applied, answers>>
    /\ at' = [at EXCEPT ![t] = IdleThread]
    /\ UNCHANGED ops

\* A conflict reads again, Retries times; a refused order raises.
PutConflicts(t) ==
    LET l == at[t] IN
    /\ l.pc = "put" /\ ~Raises(l) /\ account.ver # l.seen.ver
    /\ at' = [at EXCEPT ![t] = IF l.tries + 1 < Retries
                               THEN [l EXCEPT !.pc = "read", !.seen = <<>>,
                                              !.tries = @ + 1]
                               ELSE IdleThread]
    /\ UNCHANGED <<account, ops, applied, answers>>

Refuses(t) ==
    /\ at[t].pc = "put" /\ Raises(at[t])
    /\ at' = [at EXCEPT ![t] = IdleThread]
    /\ UNCHANGED <<account, ops, applied, answers>>

BrokerNext == \E t \in Threads :
    \/ ExecuteBegins(t) \/ MarkBegins(t) \/ Read(t)
    \/ Put(t) \/ PutConflicts(t) \/ Refuses(t)

BrokerSpec == BrokerInit /\ [][BrokerNext]_brokerVars
----------------------------------------------------------------------------
BrokerTypeOK ==
    /\ account.cash \in Int /\ account.realized \in Int
    /\ account.ver \in Nat \ {0}
    /\ account.pos.qty \in Nat /\ account.pos.cost \in Nat
    /\ account.pos.fees \in Nat /\ account.pos.funding \in Int
    /\ Len(account.fills) <= MaximumFills
    /\ \A t \in Threads : at[t].tries < Retries

\* The books balance: cash, what the open position cost, its entry fees and
\* the funding it has paid add up to the initial cash and the realized
\* result, after any interleaving of fills, marks and partial sales.
BooksBalance ==
    account.cash + account.pos.cost + account.pos.fees + account.pos.funding
        = InitialCash + account.realized

\* "Each fill_id is idempotent: exact replay returns the existing fill and
\* does not change cash or positions."
AppliedOnce == \A f \in FillIds : applied[f] <= 1

\* Two calls that return a fill for one id return the same fill, whatever
\* they asked for and however they overlapped.
AnswersAgree == \A f \in FillIds : Cardinality(answers[f]) <= 1

\* What the broker promises; an id is forgotten once the history is cut.
BooksAreExact ==
    /\ BrokerTypeOK /\ BooksBalance
    /\ Len(account.fills) < MaximumFills => AppliedOnce /\ AnswersAgree
===============================================================================
