-------------------------- MODULE ForecastEvidence --------------------------
(***************************************************************************)
(* The evidence a forecast rests on, up to the request of an evaluation.   *)
(*   observer   opportunities are captured by the paper loop, queued and   *)
(*              assessed later against what was known when they were       *)
(*              decided (economic_observer.py, paper_economic_shadow.py);  *)
(*   labels     anchors, fixed-horizon labels and the purged split         *)
(*              (opportunity_markouts.py, prospective_validation.py);      *)
(*   readiness  the incremental check that may request an evaluation once  *)
(*              (forecast_readiness.py, paper_forecast_readiness.py).      *)
(* The evaluation's use of its holdout is HoldoutClaims.  A behaviour is   *)
(* about one of the three, which Uses names.  Times are ticks; prices and  *)
(* model scores matter only where a check compares them.                   *)
(***************************************************************************)
EXTENDS Integers, Sequences, FiniteSets, SequencesExt, FiniteSetsExt

CONSTANTS Uses, Builds,
          MaxTime,
          Horizon, Tolerance, QuoteAge,
          Templates, Registered,        \* observer: rows other components store, and the ones that are there at the start
          Capacity, SourceLimit, MaxCaptures, MaxFaults,
          RowShapes, MaxRows,           \* labels, readiness: how late a row's quote and its storage may be
          Plan, Checkers, Cooldown, BatchSize, Minimum,
          ClaimedRanges,                \* readiness: the ranges already consumed in the scope's registry
          MaxCrashes

VARIABLES clock,
          unseen, db,                   \* rows that are stamped and not committed; the tables
          batch, queue, worker, cache, events, counts,
          call,
          rows, state, checks, requests,
          crashes
observerVars == <<unseen, db, batch, queue, worker, cache, events, counts>>
readinessVars == <<rows, state, checks, requests>>
vars == <<clock, observerVars, call, readinessVars, crashes>>

None == [none |-> TRUE]
Idle == [pc |-> "idle"]
-----------------------------------------------------------------------------
(* As-of economics of one opportunity.                                     *)

Stored(S, ns) == {r \in S : r.ns = ns}
\* _epoch(): the build's epoch, if it was registered before known and begun by at.
Epoch(S, build, at, known) ==
    IF \E r \in Stored(S, "epoch") : r.key = build /\ r.stored < known /\ r.start <= at THEN build ELSE "unknown"
\* Exactly one BUY and one SELL, an outcome, their chronology, and money that adds up: all of it stored before the decision.
Matched(S, at) ==
    LET trades == {r \in Stored(S, "trade") : r.stored < at /\ r.created < at}
        Of(d, side) == {r \in trades : r.d = d /\ r.side = side}
        outcomes == {r \in Stored(S, "outcome") : r.stored < at /\ r.created < at}
    IN {p \in {[d |-> o.d, buy |-> b, sell |-> s, outcome |-> o] : b \in trades, s \in trades, o \in outcomes} :
            /\ Of(p.d, "BUY") = {p.buy} /\ Of(p.d, "SELL") = {p.sell}
            /\ p.buy.created <= p.sell.created /\ p.sell.created <= p.outcome.created
            /\ p.outcome.pnl = p.sell.pnl}
Eligible(S, at, build) ==
    LET epoch == Epoch(S, build, at, at) IN
    {p.d : p \in {q \in Matched(S, at) : epoch # "unknown" /\ Epoch(S, q.buy.build, q.buy.created, at) = epoch}}
\* _policy_cohort(): the latest version of each equivalence known at the decision; one, verified, over registered epochs.
Latest(S, at, build) ==
    LET links == {r \in Stored(S, "link") : r.stored < at /\ Epoch(S, build, at, at) # "unknown"} IN
    {l \in links : \A k \in links : k.key = l.key => k.stored <= l.stored}
PolicyCohort(S, at, build) ==
    LET links == Latest(S, at, build)
        l == CHOOSE x \in links : TRUE
        builds == {r.key : r \in {e \in Stored(S, "epoch") : e.stored <= l.stored}}
    IN IF links = {} THEN [status |-> "none", of |-> {}]
       ELSE IF Cardinality(links) # 1 THEN [status |-> "ambiguous", of |-> {}]
       ELSE IF l.status = "revoked" THEN [status |-> "revoked", of |-> {}]
       ELSE IF ~(l.members \subseteq builds) \/ build \notin l.members THEN [status |-> "invalid", of |-> {}]
       ELSE [status |-> "verified", of |-> {p.d : p \in {q \in Matched(S, at) :
                /\ Epoch(S, q.buy.build, q.buy.created, at) \in l.members
                /\ Epoch(S, q.sell.build, q.sell.created, at) \in l.members}}]
\* read_sources(): one snapshot before the cutoff, or nothing where it would have to be cut.
ReadSources(S, cutoff) ==
    LET known == {r \in S : r.stored < cutoff} IN
    IF Cardinality(known) > SourceLimit THEN [complete |-> FALSE, rows |-> {}] ELSE [complete |-> TRUE, rows |-> known]
\* assess_opportunity()
Assessment(src, row) ==
    [complete |-> src.complete, cohort |-> Eligible(src.rows, row.at, row.build),
     policy |-> IF src.complete THEN PolicyCohort(src.rows, row.at, row.build) ELSE [status |-> "incomplete", of |-> {}]]
-----------------------------------------------------------------------------
(* The observer.                                                           *)

\* Other components store trades, outcomes, epochs and policy links, each after the ones it follows.  The stamp is taken
\* before the transaction: a row is seen from its commit on, which may come after decisions that its stamp precedes.
Stamp ==
    /\ "observer" \in Uses
    /\ \E t \in Templates :
        /\ ~\E r \in db \cup unseen : r.id = t.id
        /\ \A k \in t.after : \E r \in db : r.id = k
        /\ unseen' = unseen \cup {[x \in (DOMAIN t \cup {"stored", "created"}) \ {"after"} |->
                                    IF x \in {"stored", "created"} THEN clock ELSE t[x]]}
    /\ UNCHANGED <<clock, db, batch, queue, worker, cache, events, counts, call, readinessVars, crashes>>
Store ==
    /\ \E r \in unseen : unseen' = unseen \ {r} /\ db' = db \cup {r @@ [seen |-> clock]}
    /\ UNCHANGED <<clock, batch, queue, worker, cache, events, counts, call, readinessVars, crashes>>

\* _capture_tick(): the rows of a tick carry the times at which their symbols were decided.
Capture ==
    /\ "observer" \in Uses /\ counts.captured < MaxCaptures
    /\ \E build \in Builds :
        batch' = Append(batch, [o |-> counts.captured + 1, at |-> clock, build |-> build])
    /\ counts' = [counts EXCEPT !.captured = @ + 1]
    /\ UNCHANGED <<clock, unseen, db, queue, worker, cache, events, call, readinessVars, crashes>>
\* submit(): the end of the tick.
Submit ==
    /\ batch # <<>> /\ batch' = <<>>
    /\ IF worker.stop \/ Len(queue) >= Capacity
       THEN counts' = [counts EXCEPT !.dropped = @ + Len(batch)] /\ UNCHANGED queue
       ELSE queue' = Append(queue, batch) /\ UNCHANGED counts
    /\ UNCHANGED <<clock, unseen, db, worker, cache, events, call, readinessVars, crashes>>
\* start() and stop(): a thread that is still alive is not replaced.
Start ==
    /\ worker.stop
    /\ worker' = [worker EXCEPT !.stop = FALSE, !.pc = IF @ = "dead" THEN "idle" ELSE @]
    /\ UNCHANGED <<clock, unseen, db, batch, queue, cache, events, counts, call, readinessVars, crashes>>
Stop ==
    /\ "observer" \in Uses /\ ~worker.stop /\ counts.faults < MaxFaults
    /\ worker' = [worker EXCEPT !.stop = TRUE] /\ counts' = [counts EXCEPT !.faults = @ + 1]
    /\ UNCHANGED <<clock, unseen, db, batch, queue, cache, events, call, readinessVars, crashes>>

\* _run(): the next batch, or the end once stopped and drained.
Take ==
    /\ worker.pc = "idle"
    /\ IF queue # <<>>
       THEN queue' = Tail(queue) /\ worker' = [worker EXCEPT !.pc = "mark", !.rows = Head(queue), !.next = 1]
       ELSE worker.stop /\ worker' = [worker EXCEPT !.pc = "dead"] /\ UNCHANGED queue
    /\ UNCHANGED <<clock, unseen, db, batch, cache, events, counts, call, readinessVars, crashes>>
CutoffOf(b) == Max({b[i].at : i \in DOMAIN b})
\* A mutant: revocations do not show in the watermark.
WatermarkOfDocuments(S) == {<<ns, Cardinality(Stored(S, ns))>> : ns \in {"trade", "outcome", "epoch"}}
\* The counts and latest times of the documents and links before the cutoff.
Watermark(S) == {<<ns, Cardinality(Stored(S, ns)), Max({0} \cup {r.stored : r \in Stored(S, ns)})>> : ns \in {"trade", "outcome", "epoch", "link"}}
Mark ==
    /\ worker.pc = "mark"
    /\ LET w == Watermark({r \in db : r.stored < CutoffOf(worker.rows)}) IN
       worker' = [worker EXCEPT !.pc = IF cache.mark = w THEN "record" ELSE "read", !.mark = w]
    /\ UNCHANGED <<clock, unseen, db, batch, queue, cache, events, counts, call, readinessVars, crashes>>
Read ==
    /\ worker.pc = "read"
    /\ cache' = [mark |-> worker.mark, src |-> ReadSources(db, CutoffOf(worker.rows))]
    /\ worker' = [worker EXCEPT !.pc = "record"]
    /\ UNCHANGED <<clock, unseen, db, batch, queue, events, counts, call, readinessVars, crashes>>
\* record_batch(): a row is stored once, with its assessment; the status follows the last.
Record ==
    /\ worker.pc = "record"
    /\ LET row == worker.rows[worker.next]
           last == worker.next = Len(worker.rows)
       IN /\ events' = events \cup {[o |-> row.o, at |-> row.at, build |-> row.build, stored |-> clock, found |-> Assessment(cache.src, row)]}
          /\ counts' = [counts EXCEPT !.recorded = @ + 1]
          /\ worker' = IF last THEN [worker EXCEPT !.pc = "idle", !.rows = <<>>, !.next = 0, !.mark = {}]
                       ELSE [worker EXCEPT !.next = @ + 1]
    /\ UNCHANGED <<clock, unseen, db, batch, queue, cache, call, readinessVars, crashes>>
\* A storage error ends the batch; all of it counts as failed.
FailBatch ==
    /\ worker.pc \in {"mark", "read", "record"} /\ counts.faults < MaxFaults
    /\ counts' = [counts EXCEPT !.failed = @ + Len(worker.rows), !.faults = @ + 1]
    /\ worker' = [worker EXCEPT !.pc = "idle", !.rows = <<>>, !.next = 0, !.mark = {}]
    /\ UNCHANGED <<clock, unseen, db, batch, queue, cache, events, call, readinessVars, crashes>>
Observing == Stamp \/ Store \/ Capture \/ Submit \/ Start \/ Stop \/ Take \/ Mark \/ Read \/ Record \/ FailBatch
-----------------------------------------------------------------------------
(* Anchors, labels and the purged split.                                   *)

\* _quote(): a verified quote that was fresh when the opportunity was decided.
QuoteValid(r) == r.received > 0 /\ r.at - r.received \in 0..QuoteAge
Key(r, i) == <<r.received, r.stored, i>>
Before(a, b) == a[1] < b[1] \/ (a[1] = b[1] /\ (a[2] < b[2] \/ (a[2] = b[2] /\ a[3] < b[3])))
\* The rows known by the cutoff, in the order of decisions.
Available(rs, cutoff) == {i \in DOMAIN rs : rs[i].stored <= cutoff}
Decided(rs, i, j) == rs[i].at < rs[j].at \/ (rs[i].at = rs[j].at /\ i < j)
Target(r) == r.at + Horizon
\* fixed_horizon_markouts(): an anchor reserves its horizon and tolerance whatever becomes of its label.
AnchorsOf(rs, cutoff) ==
    LET order == SetToSortSeq(Available(rs, cutoff), LAMBDA i, j : Decided(rs, i, j))
        Pick(acc, i) ==
            IF rs[i].at < acc.next THEN acc
            ELSE [next |-> Target(rs[i]) + Tolerance + 1, picked |-> acc.picked \cup {i}]
    IN FoldLeft(Pick, [next |-> 0, picked |-> {}], order).picked
\* The earliest quote at or after the target, by the time it was received.
LabelOf(rs, cutoff, i) ==
    LET later == {j \in Available(rs, cutoff) : QuoteValid(rs[j]) /\ rs[j].received >= Target(rs[i])} IN
    IF later = {} THEN 0 ELSE CHOOSE j \in later : \A k \in later \ {j} : Before(Key(rs[j], j), Key(rs[k], k))
StatusOf(rs, cutoff, i) ==
    LET j == LabelOf(rs, cutoff, i) IN
    IF ~QuoteValid(rs[i]) THEN "INVALID_ENTRY_QUOTE"
    ELSE IF ~rs[i].costed THEN "ENTRY_COST_UNAVAILABLE"
    ELSE IF rs[i].stored >= Target(rs[i]) THEN "CAPTURE_NOT_FROZEN_BEFORE_HORIZON"
    ELSE IF Target(rs[i]) > cutoff THEN "HORIZON_NOT_ELAPSED"
    ELSE IF j = 0 \/ rs[j].received > Target(rs[i]) + Tolerance THEN "MISSING_FUTURE_QUOTE"
    ELSE "OBSERVED"
Statuses == {"INVALID_ENTRY_QUOTE", "ENTRY_COST_UNAVAILABLE", "CAPTURE_NOT_FROZEN_BEFORE_HORIZON", "HORIZON_NOT_ELAPSED",
             "MISSING_FUTURE_QUOTE", "OBSERVED"}
\* _summary(), _abstention_summary(): the anchors by status; the missing ones stay in.
Coverage(rs, cutoff) ==
    LET status == [i \in AnchorsOf(rs, cutoff) |-> StatusOf(rs, cutoff, i)] IN
    [s \in Statuses |-> Cardinality({i \in DOMAIN status : status[i] = s})]
\* dataset(): samples whose label and entry have features of their own time.
Samples(rs, cutoff) ==
    {i \in AnchorsOf(rs, cutoff) : StatusOf(rs, cutoff, i) = "OBSERVED" /\ rs[i].fresh /\ rs[LabelOf(rs, cutoff, i)].fresh}
First(rs) == Min({rs[i].at : i \in DOMAIN rs})
Boundary(rs, cutoff, tenths) == First(rs) + (tenths * (cutoff - First(rs))) \div 10
LabelKnown(rs, cutoff, i) == rs[LabelOf(rs, cutoff, i)].stored
\* evaluate(): the samples decided in a period whose labels were physically there before its end.
Period(rs, cutoff, lo, hi) == {i \in Samples(rs, cutoff) : rs[i].at >= lo /\ rs[i].at < hi /\ LabelKnown(rs, cutoff, i) < hi}
Split(rs, cutoff) ==
    [train |-> Period(rs, cutoff, 0, Boundary(rs, cutoff, 6)),
     calibration |-> Period(rs, cutoff, Boundary(rs, cutoff, 6), Boundary(rs, cutoff, 8)),
     test |-> Period(rs, cutoff, Boundary(rs, cutoff, 8), cutoff + 1)]

Label ==
    /\ "labels" \in Uses /\ call = Idle
    /\ \E n \in 1..MaxRows : \E gaps \in [1..n -> {0, 1, 2}], shapes \in [1..n -> RowShapes] :
        LET At(i) == FoldFunctionOnSet(+, 1, gaps, 1..i)
            rs == [i \in 1..n |-> [at |-> At(i), received |-> IF shapes[i].quote < 0 THEN 0 ELSE At(i) - shapes[i].quote,
                                   stored |-> At(i) + shapes[i].delay, costed |-> shapes[i].costed, fresh |-> shapes[i].fresh]]
        IN \E cutoff \in {At(n), At(n) + 2} :
           call' = [pc |-> "split", rows |-> rs, cutoff |-> cutoff,
                    split |-> IF cutoff > First(rs) THEN Split(rs, cutoff) ELSE [train |-> {}, calibration |-> {}, test |-> {}],
                    coverage |-> Coverage(rs, cutoff), anchors |-> AnchorsOf(rs, cutoff)]
    /\ UNCHANGED <<clock, observerVars, readinessVars, crashes>>
Answered == call # Idle /\ call' = Idle /\ UNCHANGED <<clock, observerVars, readinessVars, crashes>>
-----------------------------------------------------------------------------
(* Readiness: counts and times only, over the events in the order of their *)
(* row ids.                                                                *)

Parts == {"train", "calibration", "test"}
NewState == [cursor |-> 0, last |-> 0, next |-> 0, pending |-> None, parts |-> [q \in Parts |-> [anchors |-> 0, matured |-> 0, valid |-> 0]],
             counted |-> {}, fatal |-> FALSE, trigger |-> "not_requested", checked |-> 0 - Cooldown]
PartOf(at) ==
    IF at < Plan.start \/ at >= Plan.end - Horizon - Tolerance THEN "none"
    ELSE IF at < Plan.calibration THEN "train" ELSE IF at < Plan.holdout THEN "calibration" ELSE "test"
EndOf(part) == IF part = "train" THEN Plan.calibration ELSE IF part = "calibration" THEN Plan.holdout ELSE Plan.end
\* _quality(): what already disqualifies an entry.
Quality(r) == QuoteValid(r) /\ r.stored < Target(r) /\ r.fresh /\ r.costed
\* _finish(): an anchor is settled once.
Finish(st, p, valid) ==
    [st EXCEPT !.pending = None, !.parts[p.part].matured = @ + 1, !.parts[p.part].valid = @ + (IF valid THEN 1 ELSE 0),
               !.counted = IF valid THEN @ \cup {p.row} ELSE @]
\* The label of the pending anchor: the first valid quote at or after the target, stored before the period ends.
Settled(st, r) ==
    LET p == st.pending IN
    IF p = None THEN st
    ELSE IF QuoteValid(r) /\ r.received >= p.target
         THEN Finish(st, p, p.good /\ Quality(r) /\ r.received <= p.target + Tolerance /\ r.stored < EndOf(p.part))
    ELSE IF r.at > p.target + Tolerance + QuoteAge THEN Finish(st, p, FALSE) ELSE st
Anchored(st, r, i) ==
    LET part == PartOf(r.at) IN
    IF part = "none" \/ r.at < st.next THEN st
    ELSE LET closed == IF st.pending = None THEN st ELSE Finish(st, st.pending, FALSE) IN
         [closed EXCEPT !.parts[part].anchors = @ + 1, !.next = Target(r) + Tolerance + 1,
                        !.pending = [row |-> i, target |-> Target(r), part |-> part, good |-> Quality(r)]]
\* advance() for one event; now is the clock that was read after the watermark.
Advance(st, i, now) ==
    LET r == rows[i]
        moved == [st EXCEPT !.cursor = i]
    IN IF r.at > r.stored \/ r.stored > now \/ r.at < st.last THEN [moved EXCEPT !.fatal = TRUE]
       ELSE Anchored(Settled([moved EXCEPT !.last = r.at], r), r, i)
\* readiness(): the reasons against it are data, minima, coverage and a holdout that is already consumed.
Ready(st, now, high) ==
    /\ ~st.fatal /\ now >= Plan.end /\ st.cursor = high
    /\ \A q \in Parts : st.parts[q].valid >= Minimum[q]
    /\ \A k \in ClaimedRanges : k[1] > Plan.end \/ k[2] < Plan.holdout

\* The paper loop's opportunities reach the table some time after they were decided.
Arrive ==
    /\ "readiness" \in Uses /\ Len(rows) < MaxRows
    /\ \E s \in RowShapes :
        /\ clock - s.delay > 0
        /\ LET at == clock - s.delay IN
           rows' = Append(rows, [at |-> at, received |-> IF s.quote < 0 THEN 0 ELSE at - s.quote, stored |-> clock,
                                 costed |-> s.costed, fresh |-> s.fresh])
    /\ UNCHANGED <<clock, observerVars, call, state, checks, requests, crashes>>
\* check(): the watermark, then the clock, then the state; the claim of the check is a save of the state.
Watch(c) ==
    /\ "readiness" \in Uses /\ checks[c] = Idle
    /\ checks' = [checks EXCEPT ![c] = [pc |-> "begin", high |-> Len(rows)]]
    /\ UNCHANGED <<clock, observerVars, call, rows, state, requests, crashes>>
Begin(c) ==
    /\ checks[c].pc = "begin"
    /\ IF clock - state.value.checked < Cooldown THEN checks' = [checks EXCEPT ![c] = Idle]
       ELSE checks' = [checks EXCEPT ![c] = [pc |-> "claim", high |-> @.high, now |-> clock, version |-> state.version,
                                             st |-> [state.value EXCEPT !.checked = clock]]]
    /\ UNCHANGED <<clock, observerVars, call, rows, state, requests, crashes>>
Put(c, v) ==
    IF checks[c].version = state.version
    THEN /\ state' = [version |-> state.version + 1, value |-> v]
         /\ checks' = [checks EXCEPT ![c].st = v, ![c].version = state.version + 1, ![c].pc = "batch"]
    ELSE UNCHANGED state /\ checks' = [checks EXCEPT ![c] = Idle]
ClaimCheck(c) ==
    /\ checks[c].pc = "claim" /\ Put(c, checks[c].st)
    /\ UNCHANGED <<clock, observerVars, call, rows, requests, crashes>>
Batch(c) ==
    /\ checks[c].pc = "batch" /\ checks[c].st.cursor < checks[c].high
    /\ LET from == checks[c].st.cursor
           to == Min({checks[c].high, from + BatchSize})
       IN Put(c, FoldLeft(LAMBDA st, i : Advance(st, i, checks[c].now), checks[c].st, [k \in 1..(to - from) |-> from + k]))
    /\ UNCHANGED <<clock, observerVars, call, rows, requests, crashes>>
\* Another checker has moved the cursor past this one's watermark: it raises.
Regressed(c) ==
    /\ checks[c].pc = "batch" /\ checks[c].st.cursor > checks[c].high
    /\ checks' = [checks EXCEPT ![c] = Idle]
    /\ UNCHANGED <<clock, observerVars, call, rows, state, requests, crashes>>
\* At the tail, or when the time or the row budget is over.  The request is part of the last save: it is made by the
\* checker whose save succeeds.
Conclude(c) ==
    /\ checks[c].pc = "batch" /\ checks[c].st.cursor <= checks[c].high
    /\ LET st == checks[c].st
           asks == Ready(st, checks[c].now, checks[c].high) /\ st.trigger = "not_requested"
       IN IF checks[c].version = state.version
          THEN /\ state' = [version |-> state.version + 1, value |-> [st EXCEPT !.trigger = IF asks THEN "requested_once" ELSE @]]
               /\ requests' = IF asks THEN requests + 1 ELSE requests
          ELSE UNCHANGED <<state, requests>>
    /\ checks' = [checks EXCEPT ![c] = Idle]
    /\ UNCHANGED <<clock, observerVars, call, rows, crashes>>
Checking(c) == Watch(c) \/ Begin(c) \/ ClaimCheck(c) \/ Batch(c) \/ Regressed(c) \/ Conclude(c)
\* A checker dies, or a step of it raises.
Die(c) ==
    /\ checks[c] # Idle /\ crashes < MaxCrashes /\ crashes' = crashes + 1
    /\ checks' = [checks EXCEPT ![c] = Idle]
    /\ UNCHANGED <<clock, observerVars, call, rows, state, requests>>
-----------------------------------------------------------------------------
Init ==
    /\ clock = 1
    /\ unseen = {} /\ db = Registered /\ batch = <<>> /\ queue = <<>> /\ events = {}
    /\ worker = [pc |-> "idle", stop |-> FALSE, rows |-> <<>>, next |-> 0, mark |-> {}]
    /\ cache = [mark |-> {}, src |-> [complete |-> TRUE, rows |-> {}]]
    /\ counts = [captured |-> 0, recorded |-> 0, dropped |-> 0, failed |-> 0, faults |-> 0]
    /\ call = Idle
    /\ rows = <<>> /\ state = [version |-> 1, value |-> NewState] /\ checks = [c \in Checkers |-> Idle] /\ requests = 0
    /\ crashes = 0
Tick == clock < MaxTime /\ clock' = clock + 1 /\ UNCHANGED <<observerVars, call, readinessVars, crashes>>
Next == \/ Observing \/ Label \/ Answered \/ Arrive \/ Tick
        \/ \E c \in Checkers : Checking(c) \/ Die(c)
Spec == Init /\ [][Next]_vars
-----------------------------------------------------------------------------
TypeOK ==
    /\ clock \in 1..MaxTime /\ Len(queue) <= Capacity /\ requests \in 0..1
    /\ worker.pc \in {"idle", "mark", "read", "record", "dead"}
    /\ crashes \in 0..MaxCrashes

\* Whenever it was written, and whatever the worker had cached, the assessment of an opportunity is the one of what was
\* stored before its decision: nothing later, and nothing missing that could be seen when it was decided.  Of the rows
\* whose stamp is earlier and whose commit is not it may have any (paper_economic_shadow.py: "Strictly exclude
\* outcomes/ingestion at or after the captured decision time"; economic_observer.py: the watermark).
AssessedAsOf ==
    \A e \in events :
        LET before == {r \in db : r.stored < e.at}
            late == {r \in before : r.seen >= e.at}
        IN
        IF e.found.complete
        THEN \E some \in SUBSET late :
                e.found = Assessment([complete |-> TRUE, rows |-> (before \ late) \cup some], e)
        ELSE e.found.cohort = {} /\ e.found.policy.of = {}
\* No captured row is lost without a trace: it is recorded, counted as dropped or failed, or still on its way
\* (economic_observer.py).
NothingIsSilent ==
    LET Rows(q) == FoldLeft(LAMBDA n, b : n + Len(b), 0, q) IN
    counts.captured <= counts.recorded + counts.dropped + counts.failed + Len(batch) + Rows(queue) + Len(worker.rows)

\* No label crosses into a later period: every label of the training set was there before the first calibration
\* decision, and of both before the first test decision; anchors do not overlap and none disappears from the coverage
\* (prospective_validation.py: "overlapping labels cannot cross any split").
SplitIsPurged ==
    call # Idle =>
        LET s == call.split
            rs == call.rows
            Known(i) == LabelKnown(rs, call.cutoff, i)
        IN /\ \A i \in s.train, j \in s.calibration \cup s.test : Known(i) < rs[j].at
           /\ \A i \in s.calibration, j \in s.test : Known(i) < rs[j].at
           /\ \A i \in s.train \cup s.calibration \cup s.test : rs[i].stored < rs[i].at + Horizon /\ Known(i) <= call.cutoff
           /\ \A i, j \in call.anchors : rs[i].at < rs[j].at => rs[i].at + Horizon + Tolerance < rs[j].at
           /\ Cardinality(call.anchors) = FoldFunctionOnSet(+, 0, call.coverage, Statuses)

\* The saved counts are those of one pass over the events up to the cursor, however many checkers, batches and deaths it
\* took, and a continuation is requested once (forecast_readiness.py; paper_forecast_readiness.py: "At most one request,
\* including across service restarts").
CountedOnce ==
    LET once == FoldLeft(LAMBDA st, i : Advance(st, i, clock), NewState, [k \in 1..state.value.cursor |-> k]) IN
    /\ ~state.value.fatal => state.value.parts = once.parts /\ state.value.counted = once.counted
    /\ requests <= 1
    /\ requests = 1 => state.value.trigger = "requested_once"
\* What readiness counted as valid is an observed anchor of the evaluation it asks for, and one of its samples as long as
\* its label is the first by the time of receipt too: readiness takes the first in the order of the rows
\* (forecast_readiness.py against opportunity_markouts.py).
CountedIsObserved ==
    LET rs == SubSeq(rows, 1, state.value.cursor)
        Overtaken(i) == LET j == LabelOf(rs, Plan.end, i) IN
            \E k \in 1..(j - 1) : QuoteValid(rs[k]) /\ rs[k].received >= Target(rs[i]) /\ rs[k].received > rs[j].received
    IN ~state.value.fatal =>
        \A i \in state.value.counted :
            /\ i \in AnchorsOf(rs, Plan.end) /\ StatusOf(rs, Plan.end, i) = "OBSERVED"
            /\ i \in Samples(rs, Plan.end) \/ Overtaken(i)
=============================================================================
