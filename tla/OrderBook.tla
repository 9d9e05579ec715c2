------------------------------ MODULE OrderBook ------------------------------
(***************************************************************************)
(* Reconstruction of one exchange order book from snapshots and deltas     *)
(* (bybit/order_book_stream.py), the evidence made of it                   *)
(* (bybit/order_book_evidence.py) and its comparison with a ticker         *)
(* (bybit/market_evidence_quality.py).  Messages of the exchange may be    *)
(* lost, repeated, overtaken or damaged on the way.                        *)
(* A book gives each price of a side a size, 0 for no level.               *)
(***************************************************************************)
EXTENDS Integers, Sequences, SequencesExt, FiniteSets, FiniteSetsExt

CONSTANTS BidPrices, AskPrices,  \* prices of the exchange's levels, bids below asks
          MaxSize,
          Depth,       \* levels per side of the exchange's topic
          MaxLevels,   \* max_levels of the reconstructor
          MaxAge,      \* max_age_ms of the book and of the ticker
          MaxDivergence, \* permitted distance of the two midpoints, in half price units
          Horizon, MaxUpdates,
          FirstUpdate, \* update id of the exchange's book at the subscription
          MaxRestarts, \* restarts of the exchange's service
          MaxFaults,   \* messages lost, repeated, overtaken
          Damage       \* kinds of message that may arrive with unreadable levels

Empty == [p \in BidPrices \cup AskPrices |-> 0]
NoSequence == 0
NoEvidence == [usable |-> FALSE, bid |-> 0, ask |-> 0, at |-> 0, img |-> Empty,
               lost |-> {}]
NoCross == [usable |-> FALSE, evaluated |-> 0, at |-> 0]

VARIABLES clock,
          book, update,    \* the exchange's book and its update id
          net,             \* messages on the way
          bids, asks,      \* the levels kept: _bids and _asks
          seq,             \* _sequence.update_id, NoSequence without a snapshot
          mirror,          \* the exchange's book at the last message applied
          lost,            \* history: levels that _trim dropped and no message has named since
          evidence,        \* the evidence emitted last
          cross,           \* the comparison with a ticker made last
          sent, restarts, faults
vars == <<clock, book, update, net, bids, asks, seq, mirror, lost, evidence, cross, sent, restarts, faults>>
exchange == <<book, update, sent, restarts>>
local == <<bids, asks, seq, mirror, lost, evidence>>

Levels(b, P) == {p \in P : b[p] > 0}
Books == {b \in [BidPrices \cup AskPrices -> 0..MaxSize] :
            Cardinality(Levels(b, BidPrices)) \in 1..Depth /\ Cardinality(Levels(b, AskPrices)) \in 1..Depth}

Init ==
    /\ clock = 1 /\ book \in Books /\ update = FirstUpdate /\ net = <<>>
    /\ bids = <<>> /\ asks = <<>> /\ seq = NoSequence /\ mirror = Empty
    /\ lost = {} /\ evidence = NoEvidence /\ cross = NoCross
    /\ sent = 0 /\ restarts = 0 /\ faults = 0

-----------------------------------------------------------------------------
\* The exchange (environment): a snapshot opens the subscription, each change
\* of the book is a delta with the next id, a restart begins again at id 1.
Present(b) == {p \in DOMAIN b : b[p] > 0}
Message(kind, u, b, changed) == [kind |-> kind, u |-> u, img |-> b, changed |-> changed, ts |-> clock]
Tick == clock < Horizon /\ clock' = clock + 1 /\ UNCHANGED <<exchange, local, net, cross, faults>>
Snapshot ==
    /\ sent = 0 /\ sent' = 1
    /\ net' = Append(net, Message("snapshot", update, book, Present(book)))
    /\ UNCHANGED <<clock, book, update, restarts, local, cross, faults>>
Change(b) ==
    /\ sent \in 1..MaxUpdates /\ Len(net) < 2 /\ b # book
    /\ Cardinality({p \in DOMAIN b : b[p] # book[p]}) = 1
    /\ sent' = sent + 1 /\ update' = update + 1 /\ book' = b
    /\ net' = Append(net, Message("delta", update + 1, b, {p \in DOMAIN b : b[p] # book[p]}))
    /\ UNCHANGED <<clock, restarts, local, cross, faults>>
Restart(b) ==
    /\ sent \in 1..MaxUpdates /\ Len(net) < 2 /\ restarts < MaxRestarts
    /\ restarts' = restarts + 1 /\ sent' = sent + 1 /\ update' = 1 /\ book' = b
    /\ \E kind \in {"snapshot", "delta"} : net' = Append(net, Message(kind, 1, b, Present(b)))
    /\ UNCHANGED <<clock, local, cross, faults>>
Lose(i) ==
    /\ faults < MaxFaults /\ faults' = faults + 1 /\ i \in 1..Len(net)
    /\ net' = RemoveAt(net, i)
    /\ UNCHANGED <<clock, exchange, local, cross>>

-----------------------------------------------------------------------------
\* check_bybit_sequence: a snapshot or id 1 is a new baseline; a delta must be
\* the next one.
Baseline(m) == m.kind = "snapshot" \/ m.u = 1
Usable(m) == Baseline(m) \/ (seq # NoSequence /\ m.u = seq + 1)

Kept(S, better(_, _)) == {p \in S : Cardinality({q \in S : better(q, p)}) < MaxLevels}
Restricted(f, S) == [p \in S |-> f[p]]
\* _trim keeps the best levels of each side: the highest bids, the lowest asks.
TrimBids(f) == Restricted(f, Kept(DOMAIN f, >))
TrimAsks(f) == Restricted(f, Kept(DOMAIN f, <))

\* reset(): the book is discarded.
Discard == bids' = <<>> /\ asks' = <<>> /\ seq' = NoSequence /\ mirror' = Empty /\ lost' = {} /\ evidence' = NoEvidence

\* The levels of one side after the updates of a message: a baseline replaces
\* them, a delta deletes at size 0, inserts or overwrites.
Merge(f, m, P) ==
    LET base == IF Baseline(m) THEN <<>> ELSE f
        D == (DOMAIN base \ m.changed) \cup {p \in m.changed \cap P : m.img[p] > 0}
    IN  [p \in D |-> IF p \in m.changed THEN m.img[p] ELSE base[p]]

\* build_order_book_evidence: fresh only if not late, both sides there and not
\* crossed.
Evidence(nb, na, m) ==
    IF nb = <<>> \/ na = <<>> THEN NoEvidence
    ELSE [usable |-> clock - m.ts <= MaxAge /\ Max(DOMAIN nb) < Min(DOMAIN na),
          bid |-> Max(DOMAIN nb), ask |-> Min(DOMAIN na), at |-> m.ts, img |-> m.img, lost |-> lost']

\* apply_message on message m: a sequence that does not fit discards the book
\* and raises, otherwise the levels are updated and trimmed.
Apply(m) ==
    IF ~Usable(m)
    THEN Discard
    ELSE \E fb \in {Merge(bids, m, BidPrices)}, fa \in {Merge(asks, m, AskPrices)} :
            /\ bids' = TrimBids(fb) /\ asks' = TrimAsks(fa) /\ seq' = m.u /\ mirror' = m.img
            /\ lost' = (IF Baseline(m) THEN {} ELSE lost \ m.changed)
                       \cup (DOMAIN fb \ DOMAIN bids') \cup (DOMAIN fa \ DOMAIN asks')
            /\ evidence' = Evidence(bids', asks', m)

\* The next message, or a later one, arrives; it may arrive once more.
Deliver(i) ==
    /\ i \in 1..Len(net) /\ Apply(net[i])
    /\ \/ i = 1 /\ net' = Tail(net) /\ UNCHANGED faults
       \/ /\ faults < MaxFaults /\ faults' = faults + 1
          /\ net' = (IF i = 1 THEN net ELSE RemoveAt(net, i))
    /\ UNCHANGED <<clock, exchange, cross>>
\* Levels that do not parse raise after the sequence was checked and before
\* anything is changed, unless the sequence itself did not fit.
DeliverDamaged ==
    /\ net # <<>> /\ Head(net).kind \in Damage /\ faults < MaxFaults /\ faults' = faults + 1
    /\ IF Usable(Head(net)) THEN UNCHANGED <<bids, asks, seq, mirror, lost>> /\ evidence' = NoEvidence
       ELSE Discard
    /\ net' = Tail(net)
    /\ UNCHANGED <<clock, exchange, cross>>

Best(b, P, best(_)) == best(Levels(b, P))
Distance(x, y) == IF x > y THEN x - y ELSE y - x
\* evaluate_cross_source_market_evidence with a ticker received at some
\* instant up to now, of the book as the exchange had it.
Evaluate(received) ==
    /\ received <= clock
    /\ cross' = [usable |-> /\ evidence.usable /\ clock - received <= MaxAge
                            /\ Distance(evidence.bid + evidence.ask, Best(book, BidPrices, Max) + Best(book, AskPrices, Min)) <= MaxDivergence,
                 evaluated |-> clock, at |-> evidence.at]
    /\ UNCHANGED <<clock, exchange, local, net, faults>>

Next ==
    \/ Tick \/ Snapshot \/ DeliverDamaged
    \/ \E b \in Books : Change(b) \/ Restart(b)
    \/ \E i \in 1..2 : Lose(i) \/ Deliver(i)
    \/ \E r \in 1..Horizon : Evaluate(r)
Spec == Init /\ [][Next]_vars

-----------------------------------------------------------------------------
\* The levels kept are those the exchange had at the update whose id is kept,
\* less the ones _trim dropped, which the exchange does not send again when a
\* better level goes: messages lost, repeated or overtaken are noticed by the
\* sequence, and a restart never mixes two books.
BookFaithful ==
    seq # NoSequence
    => /\ bids = Restricted(mirror, Levels(mirror, BidPrices) \ lost)
       /\ asks = Restricted(mirror, Levels(mirror, AskPrices) \ lost)

\* Evidence marked usable names the best bid and the best ask the exchange had
\* at that update, and these are not crossed; unless _trim had dropped a level
\* since the snapshot, when the levels it names are still the exchange's own.
BestFaithful ==
    evidence.usable
    => /\ evidence.img[evidence.bid] > 0 /\ evidence.img[evidence.ask] > 0
       /\ evidence.lost = {} =>
            /\ evidence.bid = Max(Levels(evidence.img, BidPrices))
            /\ evidence.ask = Min(Levels(evidence.img, AskPrices))

=============================================================================
