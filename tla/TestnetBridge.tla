----------------------------- MODULE TestnetBridge -----------------------------
(***************************************************************************)
(* The bridge that mirrors Paper trades to Testnet (testnet_bridge.py and  *)
(* its subclass shadow_bridge.py, which the package exports under the old  *)
(* name).  One bridge object is shared by its own thread, by the HTTP      *)
(* handler that ticks it and by the campaign cycles; its state version and *)
(* reconciliation report are fields of that object, without a lock.        *)
(*                                                                         *)
(* BybitExecutionClient.execute is one step here: its inside is module     *)
(* ExecutionGateway.  A second execute of one trade raises, because the    *)
(* order link is already reserved.                                         *)
(***************************************************************************)
EXTENDS Integers, FiniteSets

CONSTANTS Loop,        \* the bridge's own thread
          Requests,    \* threads of requests, campaign cycles and startup
          Trades,
          NoTrade,
          MaxAge,      \* TESTNET_MIRROR_MAX_TRADE_AGE_MS
          MaxTime,     \* trades and campaigns that can be created
          MaxTicks,    \* ticks, and starts that reconcile, that can begin
          MaxDeaths    \* process deaths

Threads == {Loop} \union Requests

VARIABLES now,       \* the last instant something was created at
          created,   \* created_at_ms of each Paper trade, 0 before it exists
          campaign,  \* the active campaign, named by its started_at_ms; or 0
          open,      \* enabled, and the stage evidence suffices
          sent,      \* what the exchange made of the trade's order
          mirrored,  \* bridge records
          journal,   \* execution journal: [status, trade, camp]
          sdoc,      \* version of the stored state document
          sver,      \* _state_version
          safe,      \* restart_safe of _reconciliation_report
          unheard,   \* 1 once a state was stored although its put raised: the
                     \* object then stays one version behind
          thread,    \* where each thread is, and its locals
          ticks, deaths

bridgeWorld == <<now, created, campaign, open>>
bridgeEvidence == <<sent, mirrored, journal>>
bridgeMemory == <<sdoc, sver, safe, unheard>>
bridgeVars == <<bridgeWorld, bridgeEvidence, bridgeMemory, thread, ticks,
                deaths>>

NoRecord == [status |-> "none", camp |-> 0]
IdleThread == [pc |-> "idle", todo |-> {}, trade |-> NoTrade, camp |-> 0,
               res |-> "none"]
GoneThread == [IdleThread EXCEPT !.pc = "gone"]

BridgeInit ==
    /\ now = 0 /\ created = [t \in Trades |-> 0]
    /\ campaign = 0 /\ open = TRUE
    /\ sent = [t \in Trades |-> "none"]
    /\ mirrored = [t \in Trades |-> NoRecord]
    /\ journal = {}
    /\ sdoc = 1 /\ sver = 1 /\ safe = FALSE /\ unheard = 0
    /\ thread = [th \in Threads |->
                    IF th = Loop THEN GoneThread ELSE IdleThread]
    /\ ticks = 0 /\ deaths = 0

ThreadGoes(th, next) == thread' = [thread EXCEPT ![th] = next]
ThreadAt(th, pc) == ThreadGoes(th, [thread[th] EXCEPT !.pc = pc])

\* Where tick works on a trade that had no record when it was taken up.
OfTrade == {"campaign", "plan", "execute", "journal", "record"}

\* An exception leaves tick: _run's handler stores the state "error", a
\* request answers 500 or 503.
TickRaises(th) ==
    IF th = Loop THEN ThreadAt(th, "error") ELSE ThreadGoes(th, IdleThread)

----------------------------------------------------------------------------
\* The world: Paper trades are booked, campaigns take and lose authorization,
\* evidence of an order settles what its request left open.
BookTrade(t) ==
    /\ created[t] = 0 /\ now < MaxTime
    /\ now' = now + 1
    /\ created' = [created EXCEPT ![t] = now']
    /\ UNCHANGED <<campaign, open, bridgeEvidence, bridgeMemory, thread, ticks,
                   deaths>>

CampaignStarts ==
    /\ campaign = 0 /\ now < MaxTime
    /\ now' = now + 1 /\ campaign' = now'
    /\ UNCHANGED <<created, open, bridgeEvidence, bridgeMemory, thread, ticks,
                   deaths>>

CampaignEnds ==
    /\ campaign # 0 /\ campaign' = 0
    /\ UNCHANGED <<now, created, open, bridgeEvidence, bridgeMemory, thread,
                   ticks, deaths>>

StageChanges ==
    /\ open' = ~open /\ ticks < MaxTicks
    /\ UNCHANGED <<now, created, campaign, bridgeEvidence, bridgeMemory, thread,
                   ticks, deaths>>

Settles(t) ==
    /\ sent[t] = "unknown"
    /\ sent' = [sent EXCEPT ![t] = "settled"]
    /\ UNCHANGED <<bridgeWorld, mirrored, journal, bridgeMemory, thread, ticks,
                   deaths>>

----------------------------------------------------------------------------
\* The reconciler reads the durable evidence: an unresolved order keeps its
\* report unsafe, and so may anything else it finds.
Reports == {FALSE, \A t \in Trades : sent[t] # "unknown"}

\* start, called by a request or at startup: nothing while the thread lives or
\* the reconciliation blocks.
Start(th) ==
    /\ thread[th].pc = "idle" /\ thread[Loop].pc = "gone" /\ safe
    /\ ThreadGoes(Loop, IdleThread)
    /\ UNCHANGED <<bridgeWorld, bridgeEvidence, bridgeMemory, ticks, deaths>>

StartReconciles(th) ==
    /\ thread[th].pc = "idle" /\ thread[Loop].pc = "gone" /\ ~safe
    /\ ticks < MaxTicks /\ ticks' = ticks + 1
    /\ \E ok \in Reports :
           /\ safe' = ok
           /\ IF ok THEN ThreadGoes(Loop, IdleThread) ELSE ThreadAt(th, "state")
    /\ UNCHANGED <<bridgeWorld, bridgeEvidence, sdoc, sver, unheard, deaths>>

BridgeTicks(th) ==
    /\ thread[th].pc = "idle" /\ ticks < MaxTicks
    /\ ticks' = ticks + 1
    /\ ThreadGoes(th, [IdleThread EXCEPT
                       !.pc = IF open THEN "reconcile" ELSE "baseline",
                       !.todo = {t \in Trades : created[t] > 0}])
    /\ UNCHANGED <<bridgeWorld, bridgeEvidence, bridgeMemory, deaths>>

\* _ensure_reconciled: the report is cached once it is safe.  Then the stage is
\* assessed.
Reconcile(th) ==
    /\ thread[th].pc = "reconcile"
    /\ \E ok \in IF safe THEN {TRUE} ELSE Reports :
           /\ safe' = ok
           /\ ThreadAt(th, IF ~ok THEN "state"
                           ELSE IF open THEN "next" ELSE "baseline")
    /\ UNCHANGED <<bridgeWorld, bridgeEvidence, sdoc, sver, unheard, ticks,
                   deaths>>

\* _baseline: while closed, every trade without a record is written off.
Baseline(th) ==
    /\ thread[th].pc = "baseline"
    /\ \/ \E t \in thread[th].todo :
              LET rest == [thread[th] EXCEPT !.todo = @ \ {t}] IN
              ThreadGoes(th, IF mirrored[t] = NoRecord
                             THEN [rest EXCEPT !.pc = "record", !.trade = t,
                                               !.res = "ignored"]
                             ELSE rest)
       \/ thread[th].todo = {} /\ ThreadAt(th, "state")
    /\ UNCHANGED <<bridgeWorld, bridgeEvidence, bridgeMemory, ticks, deaths>>

\* The loop of tick: a trade that has a record is done.
NextTrade(th) ==
    /\ thread[th].pc = "next"
    /\ \/ \E t \in thread[th].todo :
              LET rest == [thread[th] EXCEPT !.todo = @ \ {t}] IN
              ThreadGoes(th, IF mirrored[t] = NoRecord
                             THEN [rest EXCEPT !.pc = "campaign", !.trade = t]
                             ELSE rest)
       \/ thread[th].todo = {} /\ ThreadGoes(th, IdleThread)
    /\ UNCHANGED <<bridgeWorld, bridgeEvidence, bridgeMemory, ticks, deaths>>

\* _active_campaign: a trade older than the campaign is written off under it.
ReadCampaign(th) ==
    /\ thread[th].pc = "campaign"
    /\ LET on == [thread[th] EXCEPT !.camp = campaign] IN
       ThreadGoes(th, IF campaign # 0 /\ created[on.trade] < campaign
                      THEN [on EXCEPT !.pc = "record",
                                      !.res = "ignored_campaign"]
                      ELSE [on EXCEPT !.pc = "plan"])
    /\ UNCHANGED <<bridgeWorld, bridgeEvidence, bridgeMemory, ticks, deaths>>

\* _candidate_from_trade raises for a trade that is too old; the evidence
\* the trade carries is an input.
CandidateOutcomes(t) ==
    IF now - created[t] > MaxAge THEN {"raises"} ELSE {"candidate", "raises"}

\* ShadowModePlanner.plan raises when the exchange's filters leave no
\* quantity within the bounds, or its snapshot is stale.
PlanOutcomes == {"plan", "raises"}

Plan(th) ==
    /\ thread[th].pc = "plan"
    /\ \E c \in CandidateOutcomes(thread[th].trade), p \in PlanOutcomes :
           ThreadGoes(th, IF "raises" \in {c, p}
                          THEN [thread[th] EXCEPT !.pc = "journal",
                                                  !.res = "invalid"]
                          ELSE [thread[th] EXCEPT !.pc = "execute"])
    /\ UNCHANGED <<bridgeWorld, bridgeEvidence, bridgeMemory, ticks, deaths>>

\* client.execute: refused before it is sent, sent and accepted, or sent
\* with an unknown outcome.  What raises is "unresolved" here.
Execute(th) ==
    LET t == thread[th].trade IN
    /\ thread[th].pc = "execute"
    /\ \E o \in IF sent[t] = "none" THEN {"none", "accepted", "unknown"}
                ELSE {sent[t]} :
           /\ sent' = [sent EXCEPT ![t] = o]
           /\ ThreadGoes(th, [thread[th] EXCEPT
                              !.pc = "journal",
                              !.res = IF sent[t] = "none" /\ o = "accepted"
                                      THEN "accepted" ELSE "unresolved"])
    /\ UNCHANGED <<bridgeWorld, mirrored, journal, bridgeMemory, ticks, deaths>>

\* journal.append: an event id is written once, a second append raises.
AppendEntry(th) ==
    LET l == thread[th] IN
    /\ l.pc = "journal"
    /\ IF \E x \in journal : x.status = l.res /\ x.trade = l.trade
       THEN TickRaises(th) /\ UNCHANGED journal
       ELSE /\ journal' = journal \union {[status |-> l.res, trade |-> l.trade,
                                           camp |-> l.camp]}
            /\ ThreadAt(th, "record")
    /\ UNCHANGED <<bridgeWorld, sent, mirrored, bridgeMemory, ticks, deaths>>

\* Where tick goes on after a record.
AfterRecord(res) ==
    CASE res = "ignored" -> "baseline"
      [] res = "ignored_campaign" -> "next"
      [] OTHER -> "state"

\* _record: put_json with version 0.  Over another thread's record of the trade
\* it raises, since the two differ in their time; but where both are first
\* writers on PostgreSQL, whose selects saw no row, the second replaces it.
Record(th) ==
    LET l == thread[th] IN
    /\ l.pc = "record"
    /\ \/ /\ mirrored' = [mirrored EXCEPT ![l.trade] =
                               [status |-> l.res, camp |-> l.camp]]
          /\ ThreadAt(th, AfterRecord(l.res))
       \/ /\ mirrored[l.trade] # NoRecord
          /\ TickRaises(th) /\ UNCHANGED mirrored
    /\ UNCHANGED <<bridgeWorld, sent, journal, bridgeMemory, ticks, deaths>>

\* _save_database_state: the put, with the version the object remembers.  It
\* raises on a conflict and on whatever the storage raises, which may have taken
\* the state all the same; inside the handler of _run that ends the thread.
PutState(th) ==
    /\ thread[th].pc \in {"state", "error"}
    /\ \/ /\ sdoc = sver /\ sdoc' = sdoc + 1 /\ UNCHANGED unheard
          /\ ThreadAt(th, IF thread[th].pc = "state" THEN "assign"
                          ELSE "assignError")
       \/ /\ \/ UNCHANGED <<sdoc, unheard>>
             \/ sdoc = sver /\ sdoc' = sdoc + 1 /\ unheard' = 1
          /\ IF thread[th].pc = "error" THEN ThreadGoes(th, GoneThread)
             ELSE TickRaises(th)
    /\ UNCHANGED <<bridgeWorld, bridgeEvidence, sver, safe, ticks, deaths>>

\* Any other call to the storage raises out of tick.
StorageRaises(th) ==
    /\ thread[th].pc \in {"reconcile", "baseline", "next", "campaign", "journal",
                          "record"}
    /\ TickRaises(th)
    /\ UNCHANGED <<bridgeWorld, bridgeEvidence, bridgeMemory, ticks, deaths>>

\* After the state of an order that was accepted or refused tick goes on; after
\* an unresolved order its report is replaced, and the tick ends.
AfterState(th) ==
    LET l == thread[th] IN
    /\ ThreadGoes(th, IF l.pc = "assign" /\ l.res \in {"accepted", "invalid"}
                      THEN [l EXCEPT !.pc = "next"] ELSE IdleThread)
    /\ safe' = (safe /\ ~(l.pc = "assign" /\ l.res = "unresolved"))

AssignNothing(th) ==
    /\ thread[th].pc \in {"assign", "assignError"}
    /\ sver' = sver
    /\ AfterState(th)
    /\ UNCHANGED <<bridgeWorld, bridgeEvidence, sdoc, unheard, ticks, deaths>>

\* The returned version is assigned.
AssignVersion(th) ==
    /\ thread[th].pc \in {"assign", "assignError"}
    /\ sver' = sdoc
    /\ AfterState(th)
    /\ UNCHANGED <<bridgeWorld, bridgeEvidence, sdoc, unheard, ticks, deaths>>

\* A death; the constructor loads the state's version again.
Restart ==
    /\ deaths < MaxDeaths /\ deaths' = deaths + 1
    /\ sver' = sdoc /\ safe' = FALSE /\ unheard' = 0
    /\ thread' = [th \in Threads |->
                     IF th = Loop THEN GoneThread ELSE IdleThread]
    /\ UNCHANGED <<bridgeWorld, bridgeEvidence, sdoc, ticks>>

BridgeNext ==
    \/ \E t \in Trades : BookTrade(t) \/ Settles(t)
    \/ CampaignStarts \/ CampaignEnds \/ StageChanges \/ Restart
    \/ \E th \in Requests : Start(th) \/ StartReconciles(th)
    \/ \E th \in Threads :
           \/ BridgeTicks(th) \/ Reconcile(th) \/ Baseline(th) \/ NextTrade(th)
           \/ ReadCampaign(th) \/ Plan(th) \/ Execute(th) \/ AppendEntry(th)
           \/ Record(th) \/ PutState(th) \/ AssignVersion(th) \/ StorageRaises(th)

BridgeSpec == BridgeInit /\ [][BridgeNext]_bridgeVars
----------------------------------------------------------------------------
MirrorStatuses == {"none", "ignored", "ignored_campaign", "invalid", "accepted",
                   "unresolved"}

BridgeTypeOK ==
    /\ created \in [Trades -> 0 .. MaxTime] /\ campaign \in 0 .. MaxTime
    /\ sent \in [Trades -> {"none", "accepted", "unknown", "settled"}]
    /\ mirrored \in [Trades -> [status : MirrorStatuses, camp : 0 .. MaxTime]]
    /\ journal \subseteq [status : MirrorStatuses, trade : Trades,
                          camp : 0 .. MaxTime]
    /\ sver \in 1 .. sdoc /\ safe \in BOOLEAN /\ unheard \in {0, 1}
    /\ \A th \in Threads : thread[th].pc # "gone" \/ th = Loop

\* No trade from before a campaign is mirrored under it, although campaigns
\* come and go between the read of the authorization and the record.
AttachesForwardOnly ==
    \A t \in Trades :
        mirrored[t].camp # 0 /\ mirrored[t].status # "ignored_campaign" =>
            created[t] >= mirrored[t].camp

\* A record that says what became of an order has its journal entry, under
\* the same campaign, whichever thread wrote which first.
RecordIsJournaled ==
    \A t \in Trades :
        mirrored[t].status \in {"invalid", "accepted", "unresolved"} =>
            [status |-> mirrored[t].status, trade |-> t,
             camp |-> mirrored[t].camp] \in journal

\* The threads that took a trade up when it had no record, and have yet to write
\* theirs.
Recording(t) ==
    {th \in Threads : thread[th].pc \in OfTrade /\ thread[th].trade = t}

\* A record stays, and keeps later ticks from its trade: only a thread that took
\* the trade up before the record was there may replace it, once.  A record that
\* says accepted is of an order that the exchange accepted.
RecordsAreFinalStep ==
    \A t \in Trades :
       /\ mirrored[t] # NoRecord =>
            /\ mirrored'[t] # NoRecord /\ Recording(t)' \subseteq Recording(t)
            /\ mirrored'[t] # mirrored[t] => Recording(t)' # Recording(t)
       /\ mirrored'[t].status = "accepted" => sent[t] = "accepted"

\* The bridge's thread ends with the process, or by an error it could not store:
\* the storage failed with the right version, or had taken an earlier state while
\* it raised, or a request was between the put of its own and the assignment.
\* Its own successful puts never turn against it.
LoopSurvivesStep ==
    thread[Loop].pc # "gone" /\ thread'[Loop].pc = "gone" =>
       \/ deaths' # deaths
       \/ sver = sdoc \/ unheard = 1
       \/ \E th \in Requests : thread[th].pc = "assign"

\* The Testnet bridge mirrors only trades that came after the campaign it
\* mirrors them under, journals every order before it records it, replaces a
\* record only by that of a tick which overlapped its writing, and its thread
\* outlives every error but a failing storage and a state that a request is
\* storing at the same moment (testnet_bridge.py, shadow_bridge.py).
MirrorIsFaithful ==
    /\ [](BridgeTypeOK /\ AttachesForwardOnly /\ RecordIsJournaled)
    /\ [][RecordsAreFinalStep /\ LoopSurvivesStep]_bridgeVars

=============================================================================
