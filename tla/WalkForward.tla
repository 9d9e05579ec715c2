----------------------------- MODULE WalkForward -----------------------------
(***************************************************************************)
(* Chronological out-of-sample windows of a research evaluation:           *)
(* _walk_forward_slices of trading_core/backtest.py and the two evaluators *)
(* that run a backtest on each window (WalkForwardBacktester and the       *)
(* purged one with an embargo).  Rows are numbered from 0 as in the code;  *)
(* rows with one timestamp (simultaneous symbols) form a batch.            *)
(***************************************************************************)
EXTENDS Integers, Sequences, SequencesExt, FiniteSets, FiniteSetsExt

CONSTANTS MaxRows,      \* longest history
          MaxTrain, MaxTest, MaxStep, MaxEmbargo, \* largest parameters
          MinWindows,   \* minimum_windows
          InitialCash,  \* initial_cash of the evaluation
          MaxMove       \* what a window may earn or lose

VARIABLES ts,       \* timestamp of each row, 1-based as a sequence
          par,      \* the configuration
          start,    \* test_start of the next window
          windows,  \* windows evaluated
          pc        \* "idle", "begin", "window", "done" or "refused"
vars == <<ts, par, start, windows, pc>>

N == Len(ts)
Boundaries == {0, N} \cup {i \in 1..N - 1 : ts[i] # ts[i + 1]}
CeilBoundary(i) == Min({b \in Boundaries : b >= i})
FloorBoundary(i) == Max({b \in Boundaries : b <= i})

\* Histories: non-decreasing timestamps, without gaps as only order matters.
Histories == UNION {{[i \in 1..n |-> 1 + Cardinality(new \cap (1..i))] : new \in SUBSET (2..n)} : n \in 1..MaxRows}
Params == {p \in [train : 1..MaxTrain, test : 1..MaxTest, step : 1..MaxStep, embargo : 0..MaxEmbargo,
                  anchored : BOOLEAN, chain : BOOLEAN] : p.step >= p.test}

Init == ts = <<>> /\ par = <<>> /\ start = 0 /\ windows = <<>> /\ pc = "idle"

\* The call, with the arguments its checks let through.
Call ==
    /\ pc = "idle" /\ pc' = "begin"
    /\ ts' \in Histories /\ par' \in Params
    /\ UNCHANGED <<start, windows>>

FirstTrainEnd == CeilBoundary(par.train)
Begin ==
    /\ pc = "begin"
    /\ IF \/ par.train + par.embargo + par.test > N
          \/ FirstTrainEnd + par.embargo + par.test > N
       THEN pc' = "refused" /\ UNCHANGED start
       ELSE /\ start' = CeilBoundary(FirstTrainEnd + par.embargo)
            /\ pc' = IF start' + par.test <= N THEN "window" ELSE "refused"
    /\ UNCHANGED <<ts, par, windows>>

TrainEnd == FloorBoundary(start - par.embargo)
TrainStart == IF par.anchored THEN 0 ELSE FloorBoundary(TrainEnd - par.train)
TestEnd == CeilBoundary(start + par.test)
NextStart == Max({TestEnd, start + par.step})

OpeningCash == IF par.chain /\ windows # <<>> THEN Last(windows).ending ELSE InitialCash

\* One window: train, run the backtest on the test rows (it earns or loses),
\* then go on a step or stop.
Window ==
    /\ pc = "window"
    /\ \E move \in {-MaxMove, MaxMove} :
        windows' = Append(windows, [train |-> <<TrainStart, TrainEnd>>, test |-> <<start, TestEnd>>,
                                    initial |-> OpeningCash, ending |-> OpeningCash + move])
    /\ IF NextStart + par.test > N
       THEN pc' = (IF Len(windows') < MinWindows THEN "refused" ELSE "done") /\ UNCHANGED start
       ELSE /\ start' = CeilBoundary(NextStart)
            /\ pc' = IF start' + par.test <= N THEN "window"
                     ELSE IF Len(windows') < MinWindows THEN "refused" ELSE "done"
    /\ UNCHANGED <<ts, par>>

Next == Call \/ Begin \/ Window
Spec == Init /\ [][Next]_vars

NetPnl(w) == w.ending - w.initial
EndingEquity ==
    IF par.chain THEN Last(windows).ending
    ELSE InitialCash + FoldSeq(LAMBDA w, acc : acc + NetPnl(w), 0, windows)
-----------------------------------------------------------------------------
W == {windows[i] : i \in DOMAIN windows}

\* "Train only on past events": the newest training row is strictly older than
\* the oldest test row of its window, and the embargo lies between them.
NoLookahead == \A w \in W : /\ w.train[2] + par.embargo <= w.test[1]
                            /\ ts[w.train[2]] < ts[w.test[1] + 1]

\* "Keep simultaneous symbols together": no window splits a batch.
WholeBatches == \A w \in W : {w.train[1], w.train[2], w.test[1], w.test[2]} \subseteq Boundaries

\* "Row budgets are minimums": each window trains and tests on enough rows.
EnoughRows == \A w \in W : /\ w.train[2] - w.train[1] >= par.train
                           /\ w.test[2] - w.test[1] >= par.test

\* oos_overlap_allowed is False: the test rows of two windows are disjoint,
\* and a later window tests later rows.
DisjointTests == \A i, j \in DOMAIN windows : i < j => windows[i].test[2] <= windows[j].test[1]

\* The reported ending equity is the initial cash and what all windows earned,
\* with chained and with reset capital.
EndingSums == pc = "done" =>
    EndingEquity = InitialCash + FoldSeq(LAMBDA w, acc : acc + NetPnl(w), 0, windows)

\* The generator of the windows ends for every history and configuration.
Ends == pc # "idle" ~> pc \in {"done", "refused"}
=============================================================================
