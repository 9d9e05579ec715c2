-------------------------- MODULE LearningSupervisor --------------------------
(***************************************************************************)
(* Learning from settled paper decisions: a pass of the supervisor         *)
(* (learning_engine/self_learning_supervisor.py) scans the settlements it  *)
(* listed, attributes new outcomes (outcome_attribution.py), repairs the   *)
(* agents' metrics, and creates a research challenger from a summary that  *)
(* is clean (research_challengers.py).  The thread's pass and the admin    *)
(* route's run beside each other; either can die between two writes.  The  *)
(* evidence gates of a summary are the number of outcomes here.            *)
(***************************************************************************)
EXTENDS Naturals, FiniteSets

CONSTANTS Decisions, Agents,
          Workers,        \* the supervisor's thread and the admin's request
          MinOutcomes,    \* SelfLearningPolicy.minimum_outcomes
          MaxEdits,       \* settlements excluded or revised by an operator
          MaxDeaths,
          NoLabel

VARIABLES settle,       \* paper_decision_settlements
          quality,      \* self_learning_source_quality
          outcome,      \* self_learning_outcomes_v2: the pnl attributed
          metrics,      \* self_learning_agent_metrics_v2
          experiment,   \* experiments created for a challenger
          challenger,   \* challenger documents
          work, edits, deaths

learningVars == <<settle, quality, outcome, metrics, experiment, challenger,
                  work, edits, deaths>>

Idle == [pc |-> "idle", rows |-> {}, cur |-> NoLabel, todo |-> {},
         seen |-> NoLabel, fresh |-> FALSE, clean |-> TRUE, sum |-> {}]

LearningInit ==
    /\ settle = [d \in Decisions |-> NoLabel]
    /\ quality = [d \in Decisions |-> NoLabel]
    /\ outcome = [d \in Decisions |-> NoLabel]
    /\ metrics = [a \in Agents |-> [applied |-> {}, count |-> 0]]
    /\ experiment = {} /\ challenger = {}
    /\ work = [w \in Workers |-> Idle]
    /\ edits = 0 /\ deaths = 0

Go(w, next) == work' = [work EXCEPT ![w] = next]
Attributed == {d \in Decisions : outcome[d] # NoLabel}

----------------------------------------------------------------------------
(* Settlements, written by the paper loop and edited by an operator.       *)
----------------------------------------------------------------------------
Settle(d) ==
    /\ settle[d] = NoLabel
    /\ settle' = [settle EXCEPT ![d] = [pnl |-> 1, ok |-> TRUE]]
    /\ UNCHANGED <<quality, outcome, metrics, experiment, challenger, work,
                   edits, deaths>>

Edit(d) ==
    /\ settle[d] # NoLabel /\ edits < MaxEdits
    /\ edits' = edits + 1
    /\ settle' = [settle EXCEPT ![d] =
                     IF @ = [pnl |-> 1, ok |-> TRUE] THEN [pnl |-> 1, ok |-> FALSE]
                     ELSE [pnl |-> 2, ok |-> TRUE]]
    /\ UNCHANGED <<quality, outcome, metrics, experiment, challenger, work,
                   deaths>>

----------------------------------------------------------------------------
(* The scan of a pass.                                                     *)
----------------------------------------------------------------------------
\* list_json_items: every settlement as it is now.
Snapshot(w) ==
    /\ work[w] = Idle
    /\ \E d \in Decisions : settle[d] # NoLabel
    /\ Go(w, [Idle EXCEPT !.pc = "scan",
                  !.rows = {[dec |-> d, pnl |-> settle[d].pnl,
                             ok |-> settle[d].ok] :
                            d \in {x \in Decisions : settle[x] # NoLabel}}])
    /\ UNCHANGED <<settle, quality, outcome, metrics, experiment, challenger,
                   edits, deaths>>

Lineage(d, status) == quality' = [quality EXCEPT ![d] = status]

\* An excluded row, and one whose label changed after it was attributed,
\* contaminate; a new one is attributed next.
Scan(w) ==
    LET l == work[w] IN
    /\ l.pc = "scan"
    /\ \E r \in l.rows :
        LET on == [l EXCEPT !.rows = @ \ {r}]
            known == outcome[r.dec] # NoLabel
        IN IF ~r.ok \/ (known /\ outcome[r.dec] # r.pnl)
           THEN /\ Lineage(r.dec, "excluded")
                /\ Go(w, [on EXCEPT !.clean = @ /\ ~known])
           ELSE /\ Lineage(r.dec, "accepted")
                /\ Go(w, IF known THEN on
                         ELSE [on EXCEPT !.pc = "record", !.cur = r])
    /\ UNCHANGED <<settle, outcome, metrics, experiment, challenger, edits,
                   deaths>>

\* OutcomeAttributionService.record: the outcome is written once, whoever
\* comes second repairs the same evidence and is refused on another one.
Record(w) ==
    LET l == work[w]
        d == l.cur.dec IN
    /\ l.pc = "record"
    /\ IF outcome[d] \in {NoLabel, l.cur.pnl}
       THEN /\ outcome' = [outcome EXCEPT ![d] = l.cur.pnl]
            /\ Go(w, [l EXCEPT !.pc = "repair", !.todo = {d} \X Agents])
       ELSE Go(w, [l EXCEPT !.pc = "scan", !.cur = NoLabel]) /\ UNCHANGED outcome
    /\ UNCHANGED <<settle, quality, metrics, experiment, challenger, edits,
                   deaths>>

----------------------------------------------------------------------------
(* _repair_agent_projection: read an agent's document, add the outcome     *)
(* unless it is applied, write it back with its version.                   *)
----------------------------------------------------------------------------
ReadAgentBlindly(w) ==
    LET l == work[w] IN
    /\ l.pc \in {"repair", "summary"} /\ l.seen = NoLabel
    /\ \E t \in l.todo : Go(w, [l EXCEPT !.seen = t, !.fresh = TRUE])
    /\ UNCHANGED <<settle, quality, outcome, metrics, experiment, challenger,
                   edits, deaths>>

ReadAgent(w) ==
    LET l == work[w] IN
    /\ l.pc \in {"repair", "summary"} /\ l.seen = NoLabel
    /\ \E t \in l.todo :
        Go(w, IF t[1] \in metrics[t[2]].applied
              THEN [l EXCEPT !.todo = @ \ {t}]
              ELSE [l EXCEPT !.seen = t, !.fresh = TRUE])
    /\ UNCHANGED <<settle, quality, outcome, metrics, experiment, challenger,
                   edits, deaths>>

Stale(o, a) == IF o.pc \in {"repair", "summary"} /\ o.seen # NoLabel
                     /\ o.seen[2] = a
               THEN [o EXCEPT !.fresh = FALSE] ELSE o

WriteAgent(w) ==
    LET l == work[w] IN
    /\ l.pc \in {"repair", "summary"} /\ l.seen # NoLabel
    /\ LET d == l.seen[1]
           a == l.seen[2]
           on == [l EXCEPT !.seen = NoLabel, !.fresh = FALSE] IN
       IF l.fresh
       THEN /\ metrics' = [metrics EXCEPT ![a] =
                              [applied |-> @.applied \union {d},
                               count |-> @.count + 1]]
            /\ work' = [v \in Workers |->
                           IF v = w THEN [on EXCEPT !.todo = @ \ {l.seen}]
                           ELSE Stale(work[v], a)]
       ELSE Go(w, on) /\ UNCHANGED metrics
    /\ UNCHANGED <<settle, quality, outcome, experiment, challenger, edits,
                   deaths>>

Repaired(w) ==
    /\ work[w].pc = "repair" /\ work[w].todo = {}
    /\ Go(w, [work[w] EXCEPT !.pc = "scan", !.cur = NoLabel])
    /\ UNCHANGED <<settle, quality, outcome, metrics, experiment, challenger,
                   edits, deaths>>

\* summary lists the outcomes and repairs every one of them.
Summary(w) ==
    /\ work[w].pc = "scan" /\ work[w].rows = {}
    /\ Go(w, [work[w] EXCEPT !.pc = "summary", !.sum = Attributed,
                             !.todo = Attributed \X Agents])
    /\ UNCHANGED <<settle, quality, outcome, metrics, experiment, challenger,
                   edits, deaths>>

----------------------------------------------------------------------------
(* ResearchChallengerService.create, named by the summary and the scores.  *)
----------------------------------------------------------------------------
Named(l) == [sum |-> l.sum, scores |-> [a \in Agents |-> metrics[a].applied]]

\* An existing challenger is returned, an experiment without one refuses.
Create(w) ==
    LET l == work[w]
        c == Named(l) IN
    /\ l.pc = "summary" /\ l.todo = {}
    /\ IF l.clean /\ Cardinality(l.sum) >= MinOutcomes
             /\ c \notin challenger /\ c \notin experiment
       THEN /\ experiment' = experiment \union {c}
            /\ Go(w, [l EXCEPT !.pc = "challenge", !.seen = c])
       ELSE Go(w, Idle) /\ UNCHANGED experiment
    /\ UNCHANGED <<settle, quality, outcome, metrics, challenger, edits, deaths>>

Challenge(w) ==
    /\ work[w].pc = "challenge"
    /\ challenger' = challenger \union {work[w].seen}
    /\ Go(w, Idle)
    /\ UNCHANGED <<settle, quality, outcome, metrics, experiment, edits, deaths>>

PassDies(w) ==
    /\ work[w] # Idle /\ deaths < MaxDeaths
    /\ deaths' = deaths + 1
    /\ Go(w, Idle)
    /\ UNCHANGED <<settle, quality, outcome, metrics, experiment, challenger,
                   edits>>

----------------------------------------------------------------------------
Pass(w) ==
    \/ Snapshot(w) \/ Scan(w) \/ Record(w) \/ ReadAgent(w) \/ WriteAgent(w)
    \/ Repaired(w) \/ Summary(w) \/ Create(w) \/ Challenge(w)

LearningNext ==
    \/ \E d \in Decisions : Settle(d) \/ Edit(d)
    \/ \E w \in Workers : Pass(w) \/ PassDies(w)

LearningSpec == LearningInit /\ [][LearningNext]_learningVars

----------------------------------------------------------------------------
LearningTypeOK ==
    /\ \A d \in Decisions : outcome[d] \in {NoLabel, 1, 2}
    /\ \A a \in Agents : metrics[a].applied \subseteq Attributed
    /\ challenger \subseteq experiment

\* An outcome is counted once for every agent, however often it is repaired,
\* by whom, and wherever a pass died.
CountedOnce ==
    \A a \in Agents : metrics[a].count = Cardinality(metrics[a].applied)

\* A summary is used only after every outcome in it has reached the metrics of
\* every agent: no challenger is scored on a part of its evidence.
SummaryIsApplied ==
    \A c \in experiment, a \in Agents : c.sum \subseteq c.scores[a]

\* The lineage of a settlement is durable before its outcome is.
LineageFirst == \A d \in Attributed : quality[d] # NoLabel

\* An outcome counts once for an agent however many workers learn from it, a
\* challenger is of outcomes that every agent was scored on, and lineage comes
\* before what rests on it (learning_engine/self_learning_supervisor.py,
\* outcome_attribution.py, research_challengers.py).
LearningIsSound ==
    LearningTypeOK /\ CountedOnce /\ SummaryIsApplied /\ LineageFirst

=============================================================================
