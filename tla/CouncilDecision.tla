--------------------------- MODULE CouncilDecision ---------------------------
(***************************************************************************)
(* How a quote becomes a paper authorization: the council provider builds  *)
(* the opinions of one symbol from a verified quote, the news memory, the  *)
(* book and the risk service (council_provider.py,                         *)
(* risk_engine/canonical_service.py), stores its evidence as one immutable *)
(* bundle, and the canonical runtime judges them: General Controller V2    *)
(* chooses the direction, the risk, portfolio and security gates may veto  *)
(* it, the trading candidate must validate, and candidate, decision and    *)
(* consumption are separate database calls (canonical_runtime.py,          *)
(* runtime_decision_v2.py, runtime_gate_provider_v2.py,                    *)
(* candidate_bridge.py, trading_candidate.py).  The id of a decision is    *)
(* the receive time of its quote.  One unit of time is 500 ms, changes are *)
(* tenths of a percent, scores are percents; a weight is the product of    *)
(* three percents.                                                         *)
(***************************************************************************)
EXTENDS Integers, Sequences, FiniteSets, SequencesExt

CONSTANTS Procs,        \* processes with a council loop
          QuoteTimes,   \* receive times of quotes, the ids of decisions
          Changes,      \* change_24h_percent of a quote, in tenths
          Liquids,      \* turnover at or above the minimum
          Deviations,   \* of the stream from the consensus, in hundredths of a percent
          SourceCounts, \* exchanges in the consensus
          Memories,     \* news memories of the agents: sequences of sequences of stories
          Books,        \* the account: cash, equity, peak and number of open positions
          Rows,         \* opinions a caller may hand to the controller
          MaxRows,      \* length of such a council
          Interval,     \* proposal_interval_ms
          MaxTime, MaxCrashes

VARIABLES clock, quote,
          evidence,     \* the immutable bundle of a decision
          generated,    \* checkpoint document: time of the last proposal
          known,        \* each process's _generated_at
          assessed,     \* decision_assessment events
          candidates,   \* trading_candidates
          decisions,    \* paper_v2_decisions
          staged,       \* ids the loop has durably staged
          consumed,     \* paper_authorization_consumption
          settled,      \* paper_decision_settlements
          op,           \* what a process is doing
          asked,        \* a council handed to the controller, and its answer
          crashes
vars == <<clock, quote, evidence, generated, known, assessed, candidates, decisions, staged, consumed, settled, op, asked, crashes>>

Idle == [pc |-> "idle"]
None == [none |-> TRUE]
NonDirectional == {"decision_quality", "portfolio_engine", "risk_engine", "security_guard"}
NewsAgents == {"news_intelligence", "crypto_ai", "finance_ai", "economy_ai", "security_ai", "world_ai"}
Sides == {"BUY", "SELL"}
MaxQuoteAge == 4     \* _MAX_MARKET_AGE_MS
MaxMarketAge == 5    \* max_market_age_ms
Lifetime == 16       \* expires_at_ms of a packet
Abs(n) == IF n < 0 THEN -n ELSE n
Least(a, b) == IF a < b THEN a ELSE b
Most(a, b) == IF a < b THEN b ELSE a
Total(seq) == FoldLeft(LAMBDA x, y : x + y, 0, seq)
Each(seq, F(_)) == [i \in DOMAIN seq |-> F(seq[i])]

Opinion(agent, action, confidence, evidence_score, risk) ==
    [agent |-> agent, action |-> action, verified |-> TRUE,
     confidence |-> Least(Most(confidence, 0), 100), evidence |-> Least(Most(evidence_score, 0), 100), risk |-> Least(Most(risk, 0), 100)]
-----------------------------------------------------------------------------
(* The risk service, profile "council".                                    *)

\* _drawdown_percent() as a quotient.
Drawdown(b) ==
    LET peak == Most(b.peak, b.equity) IN IF peak <= 0 THEN <<100, 1>> ELSE <<100 * (peak - b.equity), peak>>
\* A drawdown beyond the limit does not block a flat book.
HardBlocks(q, b) ==
    {x \in {"volatility", "liquidity", "drawdown", "divergence"} :
        \/ x = "volatility" /\ Abs(q.change) > 120
        \/ x = "liquidity" /\ ~q.liquid
        \/ x = "drawdown" /\ Drawdown(b)[1] > 8 * Drawdown(b)[2] /\ b.open > 0
        \/ x = "divergence" /\ q.deviation > 75}
RiskScore(q, b) ==
    IF HardBlocks(q, b) # {} THEN 100
    ELSE Least(100, 15 + Least((3 * Abs(q.change)) \div 10, 35) + Least((4 * Drawdown(b)[1]) \div Drawdown(b)[2], 35)
                       + Least(q.deviation \div 5, 15))
Assessment(q, b) == [score |-> RiskScore(q, b), blocks |-> HardBlocks(q, b), allowed |-> HardBlocks(q, b) = {}]
-----------------------------------------------------------------------------
(* The opinions of the council.                                            *)

Direction(change) == IF change >= 8 THEN "BUY" ELSE IF change <= -8 THEN "SELL" ELSE "WAIT"
\* _news_opinion(): the stories of one agent no earlier agent has used.
Unused(stories, used) == SelectSeq(stories, LAMBDA s : s.fresh /\ s.id \notin used)
NewsOpinion(stories) ==
    LET n == Len(stories)
        average == Total(Each(stories, LAMBDA s : s.impact)) \div n
        confirmations == Cardinality({i \in DOMAIN stories : stories[i].unconfirmed})
        credibility == Total(Each(stories, LAMBDA s : s.credibility)) \div n
        action == IF average >= 8 THEN "BUY" ELSE IF average <= -8 THEN "SELL" ELSE "WAIT"
    IN Opinion("news", action, Least(95, 55 + (6 * Abs(average)) \div 10),
               Most(35, credibility - (credibility * confirmations) \div (2 * n)),
               Least(85, 20 + (60 * confirmations) \div n + (IF action = "SELL" THEN 15 ELSE 0)))
\* A mutant: every agent speaks about every story it has.
NewsOpinionsRepeat(memory) ==
    FoldLeft(LAMBDA acc, stories :
                 LET mine == Unused(stories, {}) IN
                 IF mine = <<>> THEN acc
                 ELSE [used |-> acc.used, votes |-> Append(acc.votes, NewsOpinion(mine))],
             [used |-> {}, votes |-> <<>>], memory)
\* The loop over _NEWS_AGENTS: a story speaks through the first agent that has it.
NewsOpinions(memory) ==
    FoldLeft(LAMBDA acc, stories :
                 LET mine == Unused(stories, acc.used) IN
                 IF mine = <<>> THEN acc
                 ELSE [used |-> acc.used \cup {mine[i].id : i \in DOMAIN mine}, votes |-> Append(acc.votes, NewsOpinion(mine))],
             [used |-> {}, votes |-> <<>>], memory)
\* The specialised agents share feeds: they have one voice.
NewsVote(memory) ==
    LET votes == NewsOpinions(memory).votes
        signed == Total(Each(votes, LAMBDA v : IF v.action = "BUY" THEN v.confidence ELSE IF v.action = "SELL" THEN -v.confidence ELSE 0))
    IN IF votes = <<>> THEN <<>>
       ELSE <<Opinion("news_intelligence", IF signed > 0 THEN "BUY" ELSE IF signed < 0 THEN "SELL" ELSE "WAIT",
                      Total(Each(votes, LAMBDA v : v.confidence)) \div Len(votes),
                      FoldLeft(LAMBDA x, v : Least(x, v.evidence), 100, votes),
                      FoldLeft(LAMBDA x, v : Most(x, v.risk), 0, votes))>>
PortfolioOpinion(b, action) ==
    LET ample == b.equity > 0 /\ 4 * b.cash >= b.equity
        vote == IF action = "BUY" /\ ample /\ b.open = 0 THEN "BUY" ELSE "WAIT"
    IN Opinion("portfolio_engine", vote, IF vote = "BUY" THEN 78 ELSE 60, 95, IF ample THEN 20 ELSE 70)
RiskOpinion(q, b) ==
    IF HardBlocks(q, b) # {} THEN Opinion("risk_engine", "BLOCK", 100, 100, 100)
    ELSE Opinion("risk_engine", "WAIT", 35, 98, RiskScore(q, b))
Council(q, b) ==
    LET action == Direction(q.change)
        score == RiskScore(q, b)
    IN <<Opinion("market_intelligence", action, 70 + Least(Abs(q.change) \div 2, 24), 96, score),
         Opinion("cross_exchange_validation", action, 82 + 2 * Least(q.sources, 5), 98, Least(score, 35)),
         Opinion("liquidity_intelligence", IF action = "BUY" /\ q.liquid THEN "BUY" ELSE "WAIT",
                 IF q.liquid THEN 82 ELSE 55, 92, IF q.liquid THEN 15 ELSE 75),
         PortfolioOpinion(b, action)>> \o NewsVote(q.memory) \o <<RiskOpinion(q, b)>>
Regime(q) == IF ~q.liquid THEN "illiquid" ELSE IF Abs(q.change) >= 80 THEN "high_volatility" ELSE IF Abs(q.change) >= 5 THEN "trend" ELSE "range"
-----------------------------------------------------------------------------
(* General Controller V2.  A quotient is kept as <<numerator, denominator>>. *)

Reaches(f, percent) == f[1] >= percent * f[2]
Weight(r) == r.confidence * r.evidence * (100 - r.risk)
Speaks(r) == r.verified /\ r.agent \notin NonDirectional /\ r.action \in Sides
Directional(rows) == SelectSeq(rows, LAMBDA r : Speaks(r) /\ Weight(r) > 0)
Score(rows, side) == Total(Each(SelectSeq(rows, LAMBDA r : r.action = side), Weight))
\* directional_quality_signal(): a direction needs a directional word of the news.
QualitySignal(rows, fresh) ==
    LET said == SelectSeq(rows, Speaks)
        buy == Score(said, "BUY")
        sell == Score(said, "SELL")
        none == [blocked |-> FALSE, score |-> <<0, 1>>, agreement |-> <<0, 1>>]
    IN IF ~fresh THEN [none EXCEPT !.blocked = TRUE]
       ELSE IF ~\E i \in DOMAIN said : said[i].agent \in NewsAgents THEN none
       ELSE [blocked |-> FALSE,
             score |-> <<Total(Each(said, LAMBDA r : 45 * r.confidence + 40 * r.evidence + 15 * (100 - r.risk))), 100 * Len(said)>>,
             agreement |-> IF buy + sell = 0 THEN <<0, 1>> ELSE <<100 * Most(buy, sell), buy + sell>>]
Preliminary(rows, quality) ==
    LET said == Directional(rows)
        buy == Score(said, "BUY")
        sell == Score(said, "SELL")
        winner == Most(buy, sell)
        wait == [intent |-> "WAIT", confidence |-> <<0, 1>>]
    IN IF quality.blocked THEN wait
       ELSE IF ~Reaches(quality.score, 55) THEN [wait EXCEPT !.confidence = quality.score]
       ELSE IF ~Reaches(quality.agreement, 55) THEN [wait EXCEPT !.confidence = quality.agreement]
       ELSE IF Len(said) < 2 \/ buy + sell = 0 THEN wait
       ELSE [intent |-> IF 10 * winner < 3 * 1000000 * Len(said) \/ 100 * (2 * winner - buy - sell) < 12 * (buy + sell) THEN "WAIT"
                        ELSE IF buy > sell THEN "BUY" ELSE "SELL",
             confidence |-> <<100 * winner, buy + sell>>]
\* decide(): a gate that is missing or blocks vetoes, one that waits holds back.
Controller(rows, quality, gates) ==
    LET p == Preliminary(rows, quality)
        required == {"risk_engine", "portfolio_engine", "security_guard"}
        vetoed == (required \ DOMAIN gates) # {} \/ \E g \in DOMAIN gates : gates[g] = "BLOCK"
        held == \E g \in DOMAIN gates : gates[g] = "WAIT"
    IN [preliminary |-> p.intent, intent |-> IF vetoed \/ held THEN "WAIT" ELSE p.intent,
        confidence |-> p.confidence, blocked |-> vetoed]
-----------------------------------------------------------------------------
(* The gates, the packet and the candidate.                                *)

RiskGate(d, packet) ==
    IF packet.blocks # {} THEN "BLOCK"
    ELSE IF evidence[d] = None THEN "WAIT"
    ELSE IF evidence[d].risk.score # packet.score THEN "WAIT"
    ELSE IF evidence[d].risk.blocks # {} THEN "BLOCK"
    ELSE IF ~evidence[d].risk.allowed THEN "WAIT" ELSE "PASS"
PortfolioGate(d) ==
    IF evidence[d] = None THEN "WAIT"
    ELSE IF evidence[d].cash <= 0 \/ evidence[d].equity <= 0 THEN "BLOCK" ELSE "PASS"
Gates(d, packet) == [g \in {"risk_engine", "portfolio_engine", "security_guard"} |->
    CASE g = "risk_engine" -> RiskGate(d, packet) [] g = "portfolio_engine" -> PortfolioGate(d) [] OTHER -> "PASS"]
Fresh(packet, now) ==
    /\ packet.received >= packet.market /\ packet.market <= now + 2 /\ packet.received <= now + 2
    /\ packet.expires > now /\ now - packet.market <= MaxMarketAge
\* _effective_decision(): what the candidate may say of a direction.
EffectiveDecision(c, quality, packet) ==
    IF c.intent = "WAIT" \/ c.blocked THEN "WAIT"
    ELSE IF packet.blocks # {} \/ packet.regime = "illiquid" THEN "BLOCK"
    ELSE IF ~Reaches(c.confidence, 70) \/ ~Reaches(quality.agreement, 70) \/ packet.sources < 3 THEN "WAIT"
    ELSE "ALLOW"
\* validate_trading_candidate(): what no decision can repair, and what only ALLOW must meet.
Structural(packet, now) == Fresh(packet, now) /\ packet.expires <= now + 20
Validates(decision, c, quality, packet, now) ==
    /\ Structural(packet, now)
    /\ decision = "ALLOW" =>
        /\ packet.sources >= 3 /\ packet.blocks = {} /\ packet.regime # "illiquid"
        /\ Reaches(c.confidence, 70) /\ Reaches(quality.agreement, 70)
\* _controller_candidate_packet(): the side follows the intent.
CandidateOf(c, quality, packet, now) ==
    LET decision == EffectiveDecision(c, quality, packet) IN
    [decision |-> IF Validates(decision, c, quality, packet, now) THEN decision ELSE "BLOCK",
     side |-> IF c.intent \in Sides THEN c.intent ELSE packet.side,
     market |-> packet.market, expires |-> packet.expires, received |-> packet.received]
-----------------------------------------------------------------------------
Init ==
    /\ clock = 1 /\ quote = None /\ generated = 0 /\ known = [p \in Procs |-> -1]
    /\ evidence = [d \in QuoteTimes |-> None] /\ assessed = [d \in QuoteTimes |-> None]
    /\ candidates = [d \in QuoteTimes |-> None] /\ decisions = [d \in QuoteTimes |-> None]
    /\ consumed = [d \in QuoteTimes |-> None] /\ settled = [d \in QuoteTimes |-> None]
    /\ staged = {} /\ op = [p \in Procs |-> Idle] /\ asked = None /\ crashes = 0

Goto(p, pc) == op' = [op EXCEPT ![p].pc = pc]
Stop(p) == op' = [op EXCEPT ![p] = Idle]
Stale(q) == clock - q.at > MaxQuoteAge

\* The stream has a new quote.
Receive ==
    /\ clock \in QuoteTimes /\ (quote # None => quote.at < clock) /\ asked = None
    /\ \E change \in Changes, liquid \in Liquids, v \in Deviations, n \in SourceCounts, memory \in Memories :
           quote' = [at |-> clock, change |-> change, liquid |-> liquid, deviation |-> v, sources |-> n, memory |-> memory]
    /\ UNCHANGED <<clock, evidence, generated, known, assessed, candidates, decisions, staged, consumed, settled, op, asked, crashes>>

LastGenerated(p) == IF known[p] < 0 THEN generated ELSE known[p]
\* __call__(): no proposal within the interval, without three sources, with an old quote or without a direction.
Propose(p) ==
    /\ op[p] = Idle /\ quote # None
    /\ known' = [known EXCEPT ![p] = LastGenerated(p)]
    /\ LastGenerated(p) = 0 \/ clock - LastGenerated(p) >= Interval
    /\ quote.sources >= 3 /\ ~Stale(quote) /\ Direction(quote.change) # "WAIT"
    /\ \E b \in Books :
           op' = [op EXCEPT ![p] = [pc |-> "bundle", d |-> quote.at, q |-> quote, book |-> b, now |-> clock]]
    /\ UNCHANGED <<clock, quote, evidence, generated, assessed, candidates, decisions, staged, consumed, settled, asked, crashes>>

BundleOf(o) == [risk |-> Assessment(o.q, o.book), cash |-> o.book.cash, equity |-> o.book.equity, news |-> NewsOpinions(o.q.memory).votes,
                change |-> o.q.change, at |-> o.now]
\* put_immutable_json_batch(): the same bundle again is accepted, another one raises.
Bundle(p) ==
    /\ op[p].pc = "bundle"
    /\ LET d == op[p].d
           raises == Stale(op[p].q) \/ evidence[d] \notin {None, BundleOf(op[p])}
       IN /\ evidence' = IF raises THEN evidence ELSE [evidence EXCEPT ![d] = BundleOf(op[p])]
          /\ IF raises THEN Stop(p) ELSE Goto(p, "checkpoint")
    /\ UNCHANGED <<clock, quote, generated, known, assessed, candidates, decisions, staged, consumed, settled, asked, crashes>>

PacketOf(o) ==
    LET risk == Assessment(o.q, o.book) IN
    [market |-> o.d, received |-> o.now, expires |-> o.now + Lifetime, sources |-> o.q.sources, regime |-> Regime(o.q),
     blocks |-> risk.blocks, score |-> risk.score, side |-> IF Direction(o.q.change) = "SELL" THEN "SELL" ELSE "BUY"]
\* The checkpoint is written; a quote that aged meanwhile is no proposal.
Checkpoint(p) ==
    /\ op[p].pc = "checkpoint"
    /\ LET lost == Stale(op[p].q) IN
       /\ IF lost THEN Stop(p) /\ UNCHANGED <<generated, known>>
          ELSE /\ generated' = op[p].now /\ known' = [known EXCEPT ![p] = op[p].now] /\ Goto(p, "return")
    /\ UNCHANGED <<clock, quote, evidence, assessed, candidates, decisions, staged, consumed, settled, asked, crashes>>

\* The checkpoint may have waited on storage: the age is looked at a last time.
Return(p) ==
    /\ op[p].pc = "return"
    /\ IF Stale(op[p].q) THEN Stop(p) ELSE Goto(p, "proposed")
    /\ UNCHANGED <<clock, quote, evidence, generated, known, assessed, candidates, decisions, staged, consumed, settled, asked, crashes>>

\* assess_entry(): it raises for a consumed id; the legacy assessment is appended once.
Assess(p) ==
    /\ op[p].pc = "proposed"
    /\ LET d == op[p].d IN
       IF consumed[d] # None THEN Stop(p) /\ UNCHANGED assessed
       ELSE /\ assessed' = IF assessed[d] = None THEN [assessed EXCEPT ![d] = [at |-> clock]] ELSE assessed
            /\ op' = [op EXCEPT ![p] = [pc |-> "decide", d |-> d, rows |-> Council(op[p].q, op[p].book), packet |-> PacketOf(op[p]), ts |-> clock]]
    /\ UNCHANGED <<clock, quote, evidence, generated, known, candidates, decisions, staged, consumed, settled, asked, crashes>>

Judged(o) ==
    LET quality == QualitySignal(o.rows, Fresh(o.packet, o.ts))
        c == Controller(o.rows, quality, Gates(o.d, o.packet))
        candidate == CandidateOf(c, quality, o.packet, o.ts)
    IN [candidate |-> candidate,
        decision |-> [at |-> o.ts, legacy |-> assessed[o.d].at, intent |-> c.intent, side |-> candidate.side,
                      candidate |-> candidate.decision, authorized |-> candidate.decision = "ALLOW" /\ c.intent \in Sides /\ ~c.blocked]]
\* The gates are read and the controller decides; a structurally invalid packet raises.
Decide(p) ==
    /\ op[p].pc = "decide"
    /\ IF Structural(op[p].packet, op[p].ts)
       THEN op' = [op EXCEPT ![p] = [pc |-> "save", d |-> op[p].d, judged |-> Judged(op[p])]]
       ELSE Stop(p)
    /\ UNCHANGED <<clock, quote, evidence, generated, known, assessed, candidates, decisions, staged, consumed, settled, asked, crashes>>

\* save_trading_candidate(): an ALLOW is validated again at the time of the save; the document is written over.
SaveCandidate(p) ==
    /\ op[p].pc = "save"
    /\ LET c == op[p].judged.candidate
           raises == c.decision = "ALLOW" /\ (clock - c.market > MaxMarketAge \/ c.expires <= clock)
       IN IF raises THEN Stop(p) /\ UNCHANGED candidates
          ELSE candidates' = [candidates EXCEPT ![op[p].d] = c] /\ Goto(p, "persist")
    /\ UNCHANGED <<clock, quote, evidence, generated, known, assessed, decisions, staged, consumed, settled, asked, crashes>>

\* _persist_v2_decision(): the first decision of an id stays, a different one raises.
Persist(p) ==
    /\ op[p].pc = "persist"
    /\ LET d == op[p].d
           mine == op[p].judged.decision
       IN /\ decisions' = IF decisions[d] = None THEN [decisions EXCEPT ![d] = mine] ELSE decisions
          /\ IF decisions'[d] = mine /\ mine.authorized THEN Goto(p, "authorized") ELSE Stop(p)
    /\ UNCHANGED <<clock, quote, evidence, generated, known, assessed, candidates, staged, consumed, settled, asked, crashes>>
\* The loop stages the fill, or one of its own gates refuses it.
Stage(p) ==
    /\ op[p].pc = "authorized"
    /\ \/ staged' = staged \cup {op[p].d} /\ Goto(p, "consume")
       \/ UNCHANGED staged /\ Stop(p)
    /\ UNCHANGED <<clock, quote, evidence, generated, known, assessed, candidates, decisions, consumed, settled, asked, crashes>>

\* _consume_once(): expected_version 0.
ConsumeOnce(d) == consumed' = IF consumed[d] = None THEN [consumed EXCEPT ![d] = [at |-> clock]] ELSE consumed
Consume(p) ==
    /\ op[p].pc = "consume"
    /\ ConsumeOnce(op[p].d) /\ Stop(p)
    /\ UNCHANGED <<clock, quote, evidence, generated, known, assessed, candidates, decisions, staged, settled, asked, crashes>>

Executable(d) ==
    /\ decisions[d] # None /\ decisions[d].authorized /\ decisions[d].candidate = "ALLOW" /\ decisions[d].intent \in Sides
    /\ candidates[d] # None /\ candidates[d].decision = "ALLOW"
\* recover_staged_authorization() of a staged fill nobody has consumed.
Recover(p, d) ==
    /\ op[p] = Idle /\ d \in staged /\ consumed[d] = None /\ Executable(d)
    /\ ConsumeOnce(d)
    /\ UNCHANGED <<clock, quote, evidence, generated, known, assessed, candidates, decisions, staged, settled, op, asked, crashes>>

\* settle_exit(): the first settlement stays; the selected action is that of the decision, whatever the result was.
Settle(p, d) ==
    /\ op[p] = Idle /\ consumed[d] # None /\ settled[d] = None
    /\ \E outcome \in {"PROFIT", "LOSS", "FLAT"} :
           settled' = [settled EXCEPT ![d] = [action |-> decisions[d].intent, outcome |-> outcome]]
    /\ UNCHANGED <<clock, quote, evidence, generated, known, assessed, candidates, decisions, staged, consumed, op, asked, crashes>>

Crash(p) ==
    /\ crashes < MaxCrashes /\ op[p] # Idle
    /\ crashes' = crashes + 1 /\ Stop(p) /\ known' = [known EXCEPT ![p] = -1]
    /\ UNCHANGED <<clock, quote, evidence, generated, assessed, candidates, decisions, staged, consumed, settled, asked>>

Tick ==
    /\ clock < MaxTime /\ asked = None
    /\ clock' = clock + 1
    /\ UNCHANGED <<quote, evidence, generated, known, assessed, candidates, decisions, staged, consumed, settled, op, asked, crashes>>

AllPass == [g \in {"risk_engine", "portfolio_engine", "security_guard"} |-> "PASS"]
Answer(rows) == Controller(rows, QualitySignal(rows, TRUE), AllPass)
\* evaluate_controller_v2() on any council, with every gate passing.
Ask ==
    /\ asked = None /\ quote = None /\ clock = 1
    /\ \E n \in 1..MaxRows : \E rows \in [1..n -> Rows] : asked' = [rows |-> rows, answer |-> Answer(rows)]
    /\ UNCHANGED <<clock, quote, evidence, generated, known, assessed, candidates, decisions, staged, consumed, settled, op, crashes>>

Next ==
    \/ Receive \/ Tick \/ Ask
    \/ \E p \in Procs :
        \/ Propose(p) \/ Bundle(p) \/ Checkpoint(p) \/ Return(p) \/ Assess(p) \/ Decide(p) \/ SaveCandidate(p) \/ Persist(p)
        \/ Stage(p) \/ Consume(p) \/ Crash(p)
        \/ \E d \in QuoteTimes : Recover(p, d) \/ Settle(p, d)
Spec == Init /\ [][Next]_vars
-----------------------------------------------------------------------------
\* What is stored has the form its readers expect (canonical_runtime.py).
TypeOK ==
    /\ clock \in 1..MaxTime /\ generated \in 0..MaxTime /\ staged \subseteq QuoteTimes
    /\ \A d \in QuoteTimes :
        /\ decisions[d] # None => decisions[d].intent \in Sides \cup {"WAIT"} /\ decisions[d].candidate \in {"ALLOW", "WAIT", "BLOCK"}
        /\ candidates[d] # None => candidates[d].decision \in {"ALLOW", "WAIT", "BLOCK"}

\* An authorized decision follows the direction of the market it was made from, with a directional word of the news,
\* no risk block, money to deploy, and market data that was fresh when it was decided (canonical_runtime.py,
\* runtime_decision_v2.py: "requires at least one verified directional News Intelligence recommendation").
AuthorizedIsEarned ==
    \A d \in QuoteTimes : (decisions[d] # None /\ decisions[d].authorized) =>
        /\ decisions[d].intent = Direction(evidence[d].change)
        /\ \E i \in DOMAIN evidence[d].news : evidence[d].news[i].action \in Sides
        /\ evidence[d].risk.blocks = {} /\ evidence[d].cash > 0 /\ evidence[d].equity > 0
        /\ decisions[d].at - d <= MaxMarketAge

\* What is staged can be consumed after a death, and what was consumed had a durable authorized decision and a
\* durable candidate of the same side; it is settled as that side (recover_staged_authorization, settle_exit).
ConsumedWasAuthorized ==
    /\ \A d \in staged : Executable(d) /\ candidates[d].side = decisions[d].intent
    /\ \A d \in QuoteTimes : (consumed[d] # None => d \in staged) /\ (settled[d] # None => settled[d].action = candidates[d].side)

\* A story is heard once, through whichever agent has it first (council_provider.py: de-duplicated evidence).
StoriesCountOnce ==
    \A d \in QuoteTimes : (evidence[d] # None /\ quote # None /\ quote.at = d) =>
        Len(evidence[d].news) <= Cardinality({s.id : s \in UNION {Range(quote.memory[i]) : i \in DOMAIN quote.memory}})

\* Evidence, assessment, decision, consumption and settlement of an id never change once they exist.
RecordsStayStep ==
    \A d \in QuoteTimes :
        /\ evidence[d] # None => evidence'[d] = evidence[d]
        /\ assessed[d] # None => assessed'[d] = assessed[d]
        /\ decisions[d] # None => decisions'[d] = decisions[d]
        /\ consumed[d] # None => consumed'[d] = consumed[d]
        /\ settled[d] # None => settled'[d] = settled[d]

Opposite(a) == IF a = "BUY" THEN "SELL" ELSE IF a = "SELL" THEN "BUY" ELSE a
Mirrored(rows) == Each(rows, LAMBDA r : [r EXCEPT !.action = Opposite(r.action)])
\* The controller treats BUY and SELL alike, opinions that may not speak change nothing, and one more opinion for
\* the chosen side never turns it round (general_controller_v2.py, runtime_decision_v2.py).
ControllerIsFair ==
    asked # None =>
        /\ Answer(Mirrored(asked.rows)).intent = Opposite(asked.answer.intent)
        /\ Answer(SelectSeq(asked.rows, Speaks)).intent = asked.answer.intent
        /\ \A r \in Rows : (asked.answer.intent \in Sides /\ r.action = asked.answer.intent) =>
               Answer(Append(asked.rows, r)).intent \in {asked.answer.intent, "WAIT"}
=============================================================================
