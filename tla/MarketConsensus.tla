--------------------------- MODULE MarketConsensus ---------------------------
(***************************************************************************)
(* The multi-exchange price consensus of exchange_connector/               *)
(* multi_exchange_consensus.py: five public exchanges are asked at once,   *)
(* answers that fail or do not validate are dropped, answers far from the  *)
(* raw median are dropped, and the price is the median of the rest.        *)
(*                                                                         *)
(* Prices are even integers so that the median of an even number of them   *)
(* is an integer; a deviation is in hundredths of a percent.               *)
(***************************************************************************)
EXTENDS Integers, Sequences, SequencesExt, FiniteSets, FiniteSetsExt

CONSTANTS Sources,        \* the exchanges asked
          Faulty,         \* the exchanges whose answers may be anything
          HonestPrices,   \* what the others may answer
          Prices,         \* what a faulty one may answer
          MinSources,     \* minimum_sources
          MaxDeviation    \* max_deviation_percent, in hundredths of a percent

Rejected == 0
Unavailable == 0

VARIABLES answers,  \* what each exchange that has answered said, Rejected for an unusable answer
          price,    \* the consensus price once decided, or Unavailable
          decided
vars == <<answers, price, decided>>

Init == answers = <<>> /\ price = Unavailable /\ decided = FALSE

\* A future completes, in any order: the provider raised, or its answer has
\* another source or symbol, is not verified or not positive, or it is a quote.
Answer(s) ==
    /\ s \in Sources \ DOMAIN answers
    /\ \E p \in (IF s \in Faulty THEN Prices ELSE HonestPrices) \cup {Rejected} :
        answers' = [x \in DOMAIN answers \cup {s} |-> IF x = s THEN p ELSE answers[x]]
    /\ UNCHANGED <<price, decided>>

Quoted(a) == {s \in DOMAIN a : a[s] # Rejected}

\* statistics.median of the prices of the sources in D.
Median(a, D) ==
    LET row == SetToSortSeq(D, LAMBDA s, t : a[s] < a[t])
        n == Len(row)
    IN  IF n % 2 = 1 THEN a[row[(n + 1) \div 2]]
        ELSE (a[row[n \div 2]] + a[row[n \div 2 + 1]]) \div 2

Distance(x, y) == IF x > y THEN x - y ELSE y - x
Accepted(a, D, raw) == {s \in D : Distance(a[s], raw) * 10000 <= MaxDeviation * raw}

Enough(D) == Cardinality(D) >= MinSources

\* After the last answer: two quorum checks around the removal of outliers.
Decide ==
    /\ DOMAIN answers = Sources /\ ~decided
    /\ decided' = TRUE
    /\ price' = IF ~Enough(Quoted(answers)) THEN Unavailable
                ELSE LET kept == Accepted(answers, Quoted(answers), Median(answers, Quoted(answers)))
                     IN  IF Enough(kept) THEN Median(answers, kept) ELSE Unavailable
    /\ UNCHANGED answers

Next == Decide \/ \E s \in Sources : Answer(s)
Spec == Init /\ [][Next]_vars

-----------------------------------------------------------------------------
HonestQuoted == Quoted(answers) \ Faulty
HonestRange == {answers[s] : s \in HonestQuoted}
Slack(p) == MaxDeviation * p

\* A minority of wrong answers cannot make the price unavailable while a
\* quorum of honest answers agrees to within the permitted deviation.
NotBlocked ==
    (/\ decided /\ Enough(HonestQuoted)
     /\ 2 * Cardinality(HonestQuoted) > Cardinality(Quoted(answers))
     /\ (Max(HonestRange) - Min(HonestRange)) * 10000 <= Slack(Min(HonestRange)))
    => price # Unavailable

\* No single exchange, nor two, can make a price: a price is the answer of a
\* quorum of exchanges close to one another, each within twice the permitted
\* deviation of it.
QuorumBehind ==
    price # Unavailable
    => Cardinality({s \in Quoted(answers) : Distance(answers[s], price) * 10000 <= 2 * Slack(price) + MaxDeviation})
       >= MinSources
=============================================================================
