------------------------------- MODULE Campaign -------------------------------
(***************************************************************************)
(* Testnet shadow campaigns: a campaign and its cycles (campaigns/core.py),*)
(* the scheduler that starts them (orchestrator.py), the operator's gated  *)
(* start (operations.py), the final report and the owner's decision        *)
(* (decisions.py).                                                         *)
(*                                                                         *)
(* The scheduler's thread and the HTTP handlers are processes that call    *)
(* the same methods; one storage call is one step.  What a cycle finds     *)
(* (bridge, harvester, reconcilers) is an input of the cycle.              *)
(***************************************************************************)
EXTENDS Integers, Sequences, FiniteSets

CONSTANTS Procs,         \* threads that run scheduler ticks and requests
          Schedules,
          MaxCampaigns,  \* campaigns that can be created
          MaxOps,        \* ticks and requests that can begin
          MaxFaults      \* process deaths and cycles that raise

Ids == 1..MaxCampaigns
Terminal == {"completed", "blocked"}
Statuses == {"none", "scheduled", "running"} \union Terminal

VARIABLES camps,      \* campaign documents: status, version, final_report_id
          active,     \* the document scheduled_campaign_active/current
          plans,      \* schedule documents
          due,        \* schedules whose next_run_at_ms has passed
          reports,    \* report documents; a report's id is its index
          decisions,  \* decision documents
          at,         \* where each process is, and its local variables
          ops, faults

docs == <<camps, active, plans, reports, decisions>>
campaignVars == <<docs, due, at, ops, faults>>

Idle == [pc |-> "idle", job |-> "request", todo |-> {}, camp |-> 0,
         ver |-> 0, auth |-> 0, found |-> "running", report |-> 0,
         busy |-> FALSE, listed |-> <<>>]

Undecided == [report |-> 0, approved |-> FALSE]

CampaignInit ==
    /\ camps = [c \in Ids |-> [status |-> "none", ver |-> 0, report |-> 0]]
    /\ active = [camp |-> 0, status |-> "closed", ver |-> 0]
    /\ plans = [s \in Schedules |-> [last |-> 0, runs |-> 0, ver |-> 0]]
    /\ due = {} /\ reports = <<>>
    /\ decisions = [c \in Ids |-> Undecided]
    /\ at = [p \in Procs |-> Idle]
    /\ ops = 0 /\ faults = 0

Known == {c \in Ids : camps[c].status # "none"}
NonTerminal == {c \in Known : camps[c].status \notin Terminal}

\* A request or a tick that ends leaves no locals behind.
Changed(l, changes) ==
    [f \in DOMAIN l |-> IF f \in DOMAIN changes THEN changes[f] ELSE l[f]]
Goto(p, changes) ==
    at' = [at EXCEPT ![p] = LET new == Changed(at[p], changes)
                            IN IF new.pc = "idle" THEN Idle ELSE new]
To(p, label) == Goto(p, [pc |-> label])

\* Where run_cycle and start return to: the tick's loops, or the request.
Return(p) ==
    CASE at[p].job = "cycle" -> "cycles"
      [] at[p].job = "launch" -> "recordLaunch"
      [] at[p].job = "request" -> "idle"
Returns(p) == To(p, Return(p))
Raises(p) ==
    To(p, CASE at[p].job = "cycle" -> "cycles"
            [] at[p].job = "launch" -> "recordError"
            [] at[p].job = "request" -> "idle")

Fault == faults < MaxFaults /\ faults' = faults + 1
Begins == ops < MaxOps /\ ops' = ops + 1

----------------------------------------------------------------------------
\* tick: the campaigns that are not terminal are advanced first.
TickBegins(p) ==
    /\ at[p].pc = "idle" /\ Begins
    /\ Goto(p, [pc |-> "cycles", job |-> "cycle", todo |-> NonTerminal])
    /\ UNCHANGED <<docs, due, faults>>

\* POST /api/campaigns/{id}/run.
RunBegins(p, c) ==
    /\ at[p].pc = "idle" /\ c \in Known /\ Begins
    /\ Goto(p, [pc |-> "cycle", job |-> "request", camp |-> c])
    /\ UNCHANGED <<docs, due, faults>>

TickCycle(p) ==
    /\ at[p].pc = "cycles"
    /\ \E c \in at[p].todo :
           Goto(p, [pc |-> "cycle", camp |-> c, todo |-> at[p].todo \ {c}])
    /\ UNCHANGED <<docs, due, ops, faults>>

\* run_cycle reads the campaign; a terminal one is returned as it is.  An
\* experiment that is no longer approved raises.
CycleReads(p) ==
    LET c == camps[at[p].camp] IN
    /\ at[p].pc = "cycle"
    /\ \/ /\ Goto(p, IF c.status \in Terminal
                      THEN [pc |-> Return(p), found |-> c.status]
                      ELSE [pc |-> "activate", ver |-> c.ver])
          /\ UNCHANGED faults
       \/ c.status \notin Terminal /\ Fault /\ Raises(p)
    /\ UNCHANGED <<docs, due, ops>>

\* _activate: the authorization names this campaign from here on, whatever
\* it named before; the read and the write are two calls.
ActivateReads(p) ==
    /\ at[p].pc \in {"activate", "startActivate"}
    /\ Goto(p, [pc |-> IF at[p].pc = "activate" THEN "authorize"
                       ELSE "startAuthorize",
                auth |-> active.ver])
    /\ UNCHANGED <<docs, due, ops, faults>>

ActivateWrites(p) ==
    /\ at[p].pc \in {"authorize", "startAuthorize"}
    /\ IF active.ver = at[p].auth
       THEN /\ active' = [camp |-> at[p].camp, status |-> "active",
                          ver |-> active.ver + 1]
            /\ To(p, IF at[p].pc = "authorize" THEN "evaluate" ELSE "cycle")
       ELSE Raises(p) /\ UNCHANGED active
    /\ UNCHANGED <<camps, plans, reports, decisions, due, ops, faults>>

\* What a cycle finds: a gate that blocks for good, enough matched fills,
\* and everything else a completion asks for.
Evidence == [hard : BOOLEAN, matched : BOOLEAN, safe : BOOLEAN]

Classify(e) ==
    IF e.matched /\ e.safe /\ ~e.hard THEN "completed"
    ELSE IF e.hard THEN "blocked" ELSE "running"

\* bridge.tick, the harvest and the reconciliations, which may raise.
Evaluate(p) ==
    /\ at[p].pc = "evaluate"
    /\ \/ /\ \E e \in Evidence :
                 Goto(p, [pc |-> "save", found |-> Classify(e)])
          /\ UNCHANGED faults
       \/ Fault /\ Raises(p)
    /\ UNCHANGED <<docs, due, ops>>

\* A put of a campaign document moves its version on.
Put(c, status, report) ==
    camps' = [camps EXCEPT ![c] = [status |-> status, ver |-> camps[c].ver + 1,
                                   report |-> report]]

SaveBlindly(p) ==
    /\ at[p].pc = "save"
    /\ Put(at[p].camp, at[p].found, camps[at[p].camp].report)
    /\ IF at[p].found \in Terminal THEN To(p, "close") ELSE Returns(p)
    /\ UNCHANGED <<active, plans, reports, decisions, due, ops, faults>>

\* The campaign is saved with the version the cycle began with.
Save(p) ==
    /\ at[p].pc = "save"
    /\ IF camps[at[p].camp].ver = at[p].ver
       THEN /\ Put(at[p].camp, at[p].found, camps[at[p].camp].report)
            /\ IF at[p].found \in Terminal THEN To(p, "close") ELSE Returns(p)
       ELSE Raises(p) /\ UNCHANGED camps
    /\ UNCHANGED <<active, plans, reports, decisions, due, ops, faults>>

AfterClose(p) ==
    IF at[p].found = "completed" THEN To(p, "report") ELSE Returns(p)

\* _deactivate: only an authorization that names this campaign is closed.
DeactivateReads(p) ==
    /\ at[p].pc = "close"
    /\ IF active.camp = at[p].camp
       THEN Goto(p, [pc |-> "closing", auth |-> active.ver])
       ELSE AfterClose(p)
    /\ UNCHANGED <<docs, due, ops, faults>>

DeactivateWrites(p) ==
    /\ at[p].pc = "closing"
    /\ IF active.ver = at[p].auth
       THEN /\ active' = [active EXCEPT !.status = "closed", !.ver = @ + 1]
            /\ AfterClose(p)
       ELSE Raises(p) /\ UNCHANGED active
    /\ UNCHANGED <<camps, plans, reports, decisions, due, ops, faults>>

\* FinalPromotionReportEngine.generate: the campaign's own gates follow from
\* its completion; the promotion gate reads the experiment as it is now.
\* The id digests actor and time, so every call makes a new document.
NewReport(c) ==
    \E eligible \in BOOLEAN :
        reports' = Append(reports, [camp |-> c, eligible |-> eligible])

Generate(p) ==
    /\ at[p].pc = "report"
    /\ NewReport(at[p].camp)
    /\ Goto(p, [pc |-> "bind", report |-> Len(reports'),
                ver |-> camps[at[p].camp].ver])
    /\ UNCHANGED <<camps, active, plans, decisions, due, ops, faults>>

\* The report's id goes into the campaign document.
Bind(p) ==
    /\ at[p].pc = "bind"
    /\ IF camps[at[p].camp].ver = at[p].ver
       THEN /\ Put(at[p].camp, camps[at[p].camp].status, at[p].report)
            /\ Returns(p)
       ELSE Raises(p) /\ UNCHANGED camps
    /\ UNCHANGED <<active, plans, reports, decisions, due, ops, faults>>

----------------------------------------------------------------------------
\* tick, second part: the campaigns and the schedules are listed again.
Refresh(p) ==
    /\ at[p].pc = "cycles" /\ at[p].todo = {}
    /\ Goto(p, [pc |-> "schedules", busy |-> NonTerminal # {},
                listed |-> [s \in {x \in due : plans[x].ver > 0} |->
                               plans[s].ver]])
    /\ UNCHANGED <<docs, due, ops, faults>>

\* A put of a schedule that was listed with a version: next_run_at_ms moves
\* one interval on.  A conflict raises.
PutPlan(s, ver, changed, ok, lost) ==
    IF plans[s].ver = ver
    THEN /\ plans' = [plans EXCEPT ![s] = [changed EXCEPT !.ver = ver + 1]]
         /\ due' = due \ {s} /\ ok
    ELSE lost /\ UNCHANGED <<plans, due>>

Handled(p, s) ==
    [x \in DOMAIN at[p].listed \ {s} |-> at[p].listed[x]]

\* Any campaign that is not terminal defers the schedule; the conflict of
\* _defer leaves the tick.
Defer(p) ==
    /\ at[p].pc = "schedules" /\ at[p].busy
    /\ \E s \in DOMAIN at[p].listed :
           PutPlan(s, at[p].listed[s], plans[s],
                   Goto(p, [listed |-> Handled(p, s)]),
                   To(p, "idle"))
    /\ UNCHANGED <<camps, active, reports, decisions, ops, faults>>

NewCampaign(c) ==
    /\ c = Cardinality(Known) + 1 /\ c \in Ids
    /\ Put(c, "scheduled", 0)

\* TestnetShadowCampaign.start for a due schedule: the document first, then
\* the authorization, then a first cycle.
Launch(p) ==
    /\ at[p].pc = "schedules" /\ ~at[p].busy
    /\ \E s \in DOMAIN at[p].listed, c \in Ids :
           /\ NewCampaign(c)
           /\ Goto(p, [pc |-> "startActivate", job |-> "launch", camp |-> c,
                       todo |-> {s}])
    /\ UNCHANGED <<active, plans, reports, decisions, due, ops, faults>>

\* _record_launch; its conflict is caught and goes to _record_error.
RecordLaunch(p) ==
    /\ at[p].pc = "recordLaunch"
    /\ \E s \in at[p].todo :
           PutPlan(s, at[p].listed[s],
                   [last |-> at[p].camp, runs |-> plans[s].runs + 1, ver |-> plans[s].ver],
                   Goto(p, [pc |-> "schedules", todo |-> {},
                            busy |-> at[p].found \notin Terminal,
                            listed |-> Handled(p, s)]),
                   To(p, "recordError"))
    /\ UNCHANGED <<camps, active, reports, decisions, ops, faults>>

\* _record_error; its conflict leaves the tick.  The tick goes on with what
\* it knew of active campaigns before the launch that raised.
RecordError(p) ==
    /\ at[p].pc = "recordError"
    /\ \E s \in at[p].todo :
           PutPlan(s, at[p].listed[s], plans[s],
                   Goto(p, [pc |-> "schedules", todo |-> {},
                            listed |-> Handled(p, s)]),
                   To(p, "idle"))
    /\ UNCHANGED <<camps, active, reports, decisions, ops, faults>>

TickEnds(p) ==
    /\ at[p].pc = "schedules" /\ DOMAIN at[p].listed = {}
    /\ at' = [at EXCEPT ![p] = Idle]
    /\ UNCHANGED <<docs, due, ops, faults>>

\* create_schedule, due at once; later its interval passes again.
CreateSchedule(s) ==
    /\ plans[s].ver = 0
    /\ plans' = [plans EXCEPT ![s].ver = 1]
    /\ due' = due \union {s}
    /\ UNCHANGED <<camps, active, reports, decisions, at, ops, faults>>

IntervalPasses(s) ==
    /\ plans[s].ver > 0 /\ s \notin due /\ ops < MaxOps
    /\ due' = due \union {s}
    /\ UNCHANGED <<docs, at, ops, faults>>

\* start_first_testnet_campaign: the plan's gate reads the campaigns, the
\* start comes later.
PlanPasses(p) ==
    /\ at[p].pc = "idle" /\ NonTerminal = {} /\ Begins
    /\ Goto(p, [pc |-> "start", job |-> "request"])
    /\ UNCHANGED <<docs, due, faults>>

FirstStart(p) ==
    /\ at[p].pc = "start"
    /\ \E c \in Ids :
           NewCampaign(c) /\ Goto(p, [pc |-> "startActivate", camp |-> c])
    /\ UNCHANGED <<active, plans, reports, decisions, due, ops, faults>>

\* POST /api/campaigns/{id}/promotion-report makes a report of its own while
\* the campaign names none.
PostReport(c) ==
    /\ camps[c].status = "completed" /\ camps[c].report = 0
    /\ Begins /\ NewReport(c)
    /\ UNCHANGED <<camps, active, plans, decisions, due, at, faults>>

\* decide: a second decision is answered with the first, or refused.
Decide(c, approve) ==
    /\ camps[c].status = "completed" /\ camps[c].report # 0
    /\ approve => reports[camps[c].report].eligible
    /\ decisions[c] = Undecided
    /\ decisions' = [decisions EXCEPT
           ![c] = [report |-> camps[c].report, approved |-> approve]]
    /\ UNCHANGED <<camps, active, plans, reports, due, at, ops, faults>>

\* The process dies; the documents stay.
Crash ==
    /\ Fault
    /\ at' = [p \in Procs |-> Idle]
    /\ UNCHANGED <<docs, due, ops>>

Step(p) ==
    \/ TickCycle(p) \/ CycleReads(p) \/ ActivateReads(p) \/ ActivateWrites(p)
    \/ Evaluate(p) \/ Save(p) \/ DeactivateReads(p) \/ DeactivateWrites(p)
    \/ Generate(p) \/ Bind(p) \/ Refresh(p) \/ Defer(p) \/ Launch(p)
    \/ RecordLaunch(p) \/ RecordError(p) \/ TickEnds(p) \/ FirstStart(p)

CampaignNext ==
    \/ \E p \in Procs : Step(p) \/ TickBegins(p) \/ PlanPasses(p)
    \/ \E p \in Procs, c \in Ids : RunBegins(p, c)
    \/ \E s \in Schedules : CreateSchedule(s) \/ IntervalPasses(s)
    \/ \E c \in Ids : PostReport(c) \/ Decide(c, TRUE) \/ Decide(c, FALSE)
    \/ Crash

CampaignSpec == CampaignInit /\ [][CampaignNext]_campaignVars
----------------------------------------------------------------------------
CampaignTypeOK ==
    /\ camps \in [Ids -> [status : Statuses, ver : Nat,
                          report : 0..Len(reports)]]
    /\ active \in [camp : 0..MaxCampaigns, status : {"active", "closed"},
                   ver : Nat]
    /\ plans \in [Schedules -> [last : 0..MaxCampaigns, runs : Nat, ver : Nat]]
    /\ due \subseteq Schedules
    /\ \A n \in 1..Len(reports) :
           reports[n] \in [camp : Ids, eligible : BOOLEAN]
    /\ \A c \in Ids : decisions[c] \in [report : 0..Len(reports),
                                        approved : BOOLEAN]
    /\ \A p \in Procs : DOMAIN at[p] = DOMAIN Idle

\* An owner's approval rests on an eligible report of that campaign, the one
\* the completed campaign names: decide reads three documents that other
\* threads write, and no later step may take one of them away.
DecisionIsBacked ==
    \A c \in Ids : decisions[c].report # 0 =>
        /\ camps[c].status = "completed"
        /\ camps[c].report = decisions[c].report
        /\ reports[camps[c].report].camp = c
        /\ decisions[c].approved => reports[camps[c].report].eligible

TerminalIsFinalStep ==
    \A c \in Ids : camps[c].status \in Terminal =>
        /\ camps'[c].status = camps[c].status
        /\ camps[c].report # 0 => camps'[c].report = camps[c].report

ClosesOnlyTheEndedStep ==
    active.status = "active" /\ active'.status = "closed" =>
        active.camp \in Ids /\ camps[active.camp].status \in Terminal

\* What a campaign promises: a decision is backed, an end is final, and only the
\* authorization of an ended campaign is closed.
CampaignIsSound ==
    /\ [](CampaignTypeOK /\ DecisionIsBacked)
    /\ [][TerminalIsFinalStep]_campaignVars
    /\ [][ClosesOnlyTheEndedStep]_campaignVars
===============================================================================
