------------------------------ MODULE Experiments ------------------------------
(***************************************************************************)
(* Research experiments (experiments/registry.py, promotion.py, runner.py, *)
(* champion_challenger.py), the admin routes over them and the fill        *)
(* validation that attaches a result.  Every operation reads a document,   *)
(* decides and writes it back with the version it read; fresh says that    *)
(* the version has not changed since.  An experiment's results are known   *)
(* by number: 1 .. Results are the runner's, 0 is the attached validation. *)
(***************************************************************************)
EXTENDS Naturals, FiniteSets

CONSTANTS Experiments,
          Prepared,      \* experiments promoted before the model starts
          Workers,       \* runner and HTTP threads
          Results,       \* results the runner stores
          MaxOperations, MaxDeaths,
          Missing

VARIABLES exp,      \* research_experiments
          immut,    \* research_experiment_immutable_results
          events,   \* experiments with a manual_promotion_approved event
          lead,     \* strategy_leadership of the scope
          op,       \* what each worker is doing
          operations, deaths

experimentVars == <<exp, immut, events, lead, op, operations, deaths>>

Absent == [status |-> "none", res |-> {}, report |-> Missing, approved |-> FALSE]
Report(basis, eligible) == [basis |-> basis, eligible |-> eligible]
Promoted == [status |-> "promoted", res |-> 1 .. Results, approved |-> TRUE,
             report |-> Report(1 .. Results, TRUE)]
Free == [kind |-> "free", e |-> Missing, step |-> 0, fresh |-> FALSE,
         seen |-> Missing]

ExperimentInit ==
    /\ exp = [e \in Experiments |-> IF e \in Prepared THEN Promoted ELSE Absent]
    /\ immut = Prepared \X (1 .. Results)
    /\ events = Prepared
    /\ lead = [champion |-> Missing, entry |-> [e \in Experiments |-> "none"]]
    /\ op = [w \in Workers |-> Free]
    /\ operations = 0 /\ deaths = 0

Completed == {"completed", "promotion_pending", "promoted", "rejected"}

OnExperiment == {"run", "report", "approve", "reject", "attach"}
Leading == {"register", "promote"}
Stale(o, e) == IF o.kind \in OnExperiment /\ o.e = e
               THEN [o EXCEPT !.fresh = FALSE] ELSE o
OpGoes(w, next) == op' = [op EXCEPT ![w] = next]
At(w, kind, step) == op[w].kind = kind /\ op[w].step = step

\* put_json with the version last read; every other reader of e is stale now.
PutExperiment(w, e, value, next) ==
    /\ exp' = [exp EXCEPT ![e] = value]
    /\ op' = [v \in Workers |-> IF v = w THEN next ELSE Stale(op[v], e)]

\* The runner creates what is not there; the other operations start from a
\* read of an existing experiment.
Begin(w) ==
    /\ op[w] = Free /\ operations < MaxOperations
    /\ operations' = operations + 1
    /\ \E kind \in OnExperiment \union Leading, e \in Experiments :
        /\ (kind = "run") <=> (exp[e].status = "none")
        /\ OpGoes(w, [kind |-> kind, e |-> e, step |-> 1, fresh |-> TRUE,
                    seen |-> exp[e]])
    /\ UNCHANGED <<exp, immut, events, lead, deaths>>

Die(w) ==
    /\ op[w] # Free /\ deaths < MaxDeaths
    /\ deaths' = deaths + 1
    /\ OpGoes(w, Free)
    /\ UNCHANGED <<exp, immut, events, lead, operations>>

----------------------------------------------------------------------------
(* AutomaticExperimentRunner.run: step 1 creates, step 2k saves result k   *)
(* immutably, step 2k + 1 records it in the experiment, then it completes. *)
----------------------------------------------------------------------------
Recorded(d, n) ==
    [d EXCEPT !.res = @ \union {n},
              !.status = IF @ = "created" THEN "running" ELSE @]

RunRaises(o) == [o EXCEPT !.step = 0]

Create(w) ==
    LET o == op[w] IN
    /\ At(w, "run", 1)
    /\ IF o.fresh
       THEN PutExperiment(w, o.e, [Absent EXCEPT !.status = "created"],
                [o EXCEPT !.step = 2])
       ELSE OpGoes(w, Free) /\ UNCHANGED exp
    /\ UNCHANGED <<immut, events, lead, operations, deaths>>

\* ImmutableExperimentResultStore.save, or a backtest that raises.
SaveResult(w) ==
    LET o == op[w]
        n == o.step \div 2 IN
    /\ o.kind = "run" /\ o.step # 0 /\ o.step % 2 = 0 /\ n <= Results
    /\ \/ /\ <<o.e, n>> \notin immut
          /\ immut' = immut \union {<<o.e, n>>}
          /\ OpGoes(w, [o EXCEPT !.step = @ + 1])
       \/ OpGoes(w, RunRaises(o)) /\ UNCHANGED immut
    /\ UNCHANGED <<exp, events, lead, operations, deaths>>

RecordResult(w) ==
    LET o == op[w]
        n == o.step \div 2 IN
    /\ o.kind = "run" /\ o.step # 1 /\ o.step % 2 = 1
    /\ IF o.fresh
       THEN PutExperiment(w, o.e, Recorded(exp[o.e], n),
                [o EXCEPT !.step = @ + 1])
       ELSE OpGoes(w, RunRaises(o)) /\ UNCHANGED exp
    /\ UNCHANGED <<immut, events, lead, operations, deaths>>

CompleteRun(w) ==
    LET o == op[w] IN
    /\ At(w, "run", 2 * Results + 2)
    /\ IF o.fresh
       THEN PutExperiment(w, o.e, [exp[o.e] EXCEPT !.status = "completed"], Free)
       ELSE OpGoes(w, RunRaises(o)) /\ UNCHANGED exp
    /\ UNCHANGED <<immut, events, lead, operations, deaths>>

\* The handler reads again and marks the run failed; a conflict is ignored.
RunFails(w) ==
    LET o == op[w] IN
    /\ At(w, "run", 0)
    /\ \/ /\ exp[o.e].status \in {"created", "running"}
          /\ PutExperiment(w, o.e, [exp[o.e] EXCEPT !.status = "failed"], Free)
       \/ OpGoes(w, Free) /\ UNCHANGED exp
    /\ UNCHANGED <<immut, events, lead, operations, deaths>>

\* Phase12FillValidationService._attach_experiment_result.
Attach(w) ==
    LET o == op[w] IN
    /\ At(w, "attach", 1)
    /\ IF o.fresh /\ exp[o.e].status # "promoted" /\ 0 \notin exp[o.e].res
       THEN PutExperiment(w, o.e, Recorded(exp[o.e], 0), Free)
       ELSE OpGoes(w, Free) /\ UNCHANGED exp
    /\ UNCHANGED <<immut, events, lead, operations, deaths>>

----------------------------------------------------------------------------
(* Promotion reports and manual decisions.                                 *)
----------------------------------------------------------------------------
\* PromotionGateEngine.evaluate on what was read: an experiment that is not
\* completed, or misses a result, is never eligible; the thresholds decide
\* the rest.
Eligible(d) == d.status \in Completed /\ 1 .. Results \subseteq d.res

\* generate_promotion_report and save_promotion_report.
SaveReport(w) ==
    LET o == op[w] IN
    /\ At(w, "report", 1)
    /\ IF o.fresh /\ o.seen.status \in {"completed", "rejected",
                                        "promotion_pending"}
       THEN \E eligible \in {FALSE, Eligible(o.seen)} :
               PutExperiment(w, o.e, [o.seen EXCEPT
                       !.status = IF eligible THEN "promotion_pending"
                                  ELSE "completed",
                       !.report = Report(o.seen.res \ {0}, eligible),
                       !.approved = FALSE], Free)
       ELSE OpGoes(w, Free) /\ UNCHANGED exp
    /\ UNCHANGED <<immut, events, lead, operations, deaths>>

\* manual_decision: whatever the status, the report alone decides.
Decide(w) ==
    LET o == op[w]
        d == exp[o.e]
        yes == o.kind = "approve" IN
    /\ o.kind \in {"approve", "reject"} /\ o.step = 1
    /\ IF o.fresh /\ d.report # Missing /\ (yes => d.report.eligible)
       THEN PutExperiment(w, o.e, [d EXCEPT
                   !.status = IF yes THEN "promoted" ELSE "rejected",
                   !.approved = yes],
                IF yes THEN [o EXCEPT !.step = 2] ELSE Free)
       ELSE OpGoes(w, Free) /\ UNCHANGED exp
    /\ UNCHANGED <<immut, events, lead, operations, deaths>>

\* _event, a write of its own.
DecisionEvent(w) ==
    /\ At(w, "approve", 2)
    /\ events' = events \union {op[w].e}
    /\ OpGoes(w, Free)
    /\ UNCHANGED <<exp, immut, lead, operations, deaths>>

----------------------------------------------------------------------------
(* ChampionChallengerRegistry: the experiment was read by Begin, the       *)
(* leadership document is read next and written last.                      *)
----------------------------------------------------------------------------
PutLead(w, value) ==
    /\ lead' = value
    /\ op' = [v \in Workers |->
                 IF v = w THEN Free
                 ELSE IF op[v].kind \in Leading
                      THEN [op[v] EXCEPT !.fresh = FALSE] ELSE op[v]]

\* _require_promotion_evidence, or the status a challenger needs.
Qualifies(kind, d) ==
    IF kind = "promote" THEN d.status = "promoted" /\ d.approved
                             /\ d.report # Missing /\ d.report.eligible
    ELSE d.status \in Completed

ReadLead(w) ==
    LET o == op[w] IN
    /\ o.kind \in Leading /\ o.step = 1
    /\ IF Qualifies(o.kind, o.seen)
       THEN OpGoes(w, [o EXCEPT !.step = 2, !.fresh = TRUE, !.seen = lead])
       ELSE OpGoes(w, Free)
    /\ UNCHANGED <<exp, immut, events, lead, operations, deaths>>

Register(w) ==
    LET o == op[w] IN
    /\ At(w, "register", 2)
    /\ IF o.fresh /\ o.seen.champion # o.e /\ o.seen.entry[o.e] = "none"
       THEN PutLead(w, [o.seen EXCEPT !.entry[o.e] = "active"])
       ELSE OpGoes(w, Free) /\ UNCHANGED lead
    /\ UNCHANGED <<exp, immut, events, operations, deaths>>

CrownedBeside(l, e) ==
    [champion |-> e, entry |-> [l.entry EXCEPT ![e] = "champion"]]

Crowned(l, e) ==
    [champion |-> e,
     entry |-> [x \in Experiments |->
                   IF x = e THEN "champion"
                   ELSE IF x = l.champion THEN "retired" ELSE l.entry[x]]]

Promote(w) ==
    LET o == op[w] IN
    /\ At(w, "promote", 2)
    /\ IF o.fresh /\ o.seen.entry[o.e] = "active"
       THEN PutLead(w, Crowned(o.seen, o.e))
       ELSE OpGoes(w, Free) /\ UNCHANGED lead
    /\ UNCHANGED <<exp, immut, events, operations, deaths>>

----------------------------------------------------------------------------
ExperimentNext == \E w \in Workers :
    \/ Begin(w) \/ Die(w)
    \/ Create(w) \/ SaveResult(w) \/ RecordResult(w) \/ CompleteRun(w)
    \/ RunFails(w) \/ Attach(w)
    \/ SaveReport(w) \/ Decide(w) \/ DecisionEvent(w)
    \/ ReadLead(w) \/ Register(w) \/ Promote(w)

ExperimentSpec == ExperimentInit /\ [][ExperimentNext]_experimentVars
----------------------------------------------------------------------------
ExperimentTypeOK ==
    /\ \A e \in Experiments :
        /\ exp[e].status \in Completed \union {"none", "created", "running",
                                               "failed"}
        /\ exp[e].res \subseteq 0 .. Results
        /\ exp[e].approved => exp[e].status = "promoted"
    /\ immut \subseteq Experiments \X (1 .. Results)
    /\ lead.champion \in Experiments \union {Missing}

\* A completed experiment has every result of its run, each of them stored
\* immutably first, whoever wrote to the experiment or died meanwhile.
CompletedIsBacked ==
    \A e \in Experiments :
        /\ \A n \in exp[e].res \ {0} : <<e, n>> \in immut
        /\ exp[e].status \in Completed => 1 .. Results \subseteq exp[e].res

\* What is promoted was approved on an eligible report, and still has exactly
\* the results that report was evaluated on.
PromotedAsJudged ==
    \A e \in Experiments : exp[e].status = "promoted" =>
        /\ exp[e].approved /\ exp[e].report # Missing
        /\ exp[e].report.eligible
        /\ exp[e].report.basis = exp[e].res \ {0}

\* There is one champion, and the challenger list says the same: it is the
\* only entry marked as champion, and only replaced champions are retired.
OneChampion ==
    {e \in Experiments : lead.entry[e] = "champion"}
        = IF lead.champion = Missing THEN {} ELSE {lead.champion}

SuccessionStep ==
    /\ lead.champion # Missing /\ lead'.champion # lead.champion
         => lead'.champion # Missing /\ lead'.entry[lead.champion] = "retired"
    /\ \A e \in Experiments :
          lead.entry[e] = "retired" => lead'.entry[e] = "retired"

\* A completed experiment has its results stored, a promotion is the one its
\* report judged, there is one champion and its succession is orderly, whoever
\* runs, reports, approves and dies in between (experiments/).
PromotionIsEarned ==
    /\ [](/\ ExperimentTypeOK /\ CompletedIsBacked /\ PromotedAsJudged
          /\ OneChampion)
    /\ [][SuccessionStep]_experimentVars

=============================================================================
