----------------------------- MODULE CampaignProofs -----------------------------
(***************************************************************************)
(* What the campaigns promise for any values of the constants:             *)
(* CampaignIsSound of Campaign; in the second part AuthorityIsExclusive of *)
(* Scaling, the activations that come after; in the third part             *)
(* MirrorIsFaithful of TestnetBridge, the trades mirrored under a campaign.*)
(*                                                                         *)
(* CampInv follows a cycle through its steps: as long as the version it    *)
(* began with is the campaign's, the campaign has not ended (Current); the *)
(* one process whose save ended it is alone with its closing, its report   *)
(* and its binding (Closes, OneCloser); and campaigns are created in order,*)
(* so that a new one replaces none.                                        *)
(***************************************************************************)
EXTENDS Campaign, Scaling, TestnetBridge, FiniteSetTheorems, TLAPS

Constants == MaxCampaigns \in Nat

Labels == {"idle", "cycles", "cycle", "activate", "authorize", "startActivate",
           "startAuthorize", "evaluate", "save", "close", "closing", "report", "bind",
           "schedules", "recordLaunch", "recordError", "start"}
InCycle == {"activate", "authorize", "evaluate", "save"}
Closing == {"close", "closing", "report", "bind"}
Working == {"cycle", "startActivate", "startAuthorize"} \union InCycle \union Closing

Documents ==
    /\ camps \in [Ids -> [status : Statuses, ver : Nat, report : 0..Len(reports)]]
    /\ active \in [camp : 0..MaxCampaigns, status : {"active", "closed"}, ver : Nat]
    /\ plans \in [Schedules -> [last : 0..MaxCampaigns, runs : Nat, ver : Nat]]
    /\ due \subseteq Schedules
    /\ reports \in Seq([camp : Ids, eligible : BOOLEAN])
    /\ decisions \in [Ids -> [report : 0..Len(reports), approved : BOOLEAN]]

\* Campaigns are created in order; only a completed one names a report, its own.
InOrder == \E k \in 0..MaxCampaigns : Known = 1..k
Named == \A c \in Ids : camps[c].report # 0 =>
             /\ camps[c].status = "completed"
             /\ reports[camps[c].report].camp = c

LocalType(l) ==
    /\ DOMAIN l = DOMAIN Idle
    /\ l.pc \in Labels /\ l.job \in {"request", "cycle", "launch"}
    /\ l.camp \in 0..MaxCampaigns /\ l.ver \in Nat /\ l.auth \in Nat
    /\ l.found \in {"running", "completed", "blocked"} /\ DOMAIN l.listed \subseteq Schedules
    /\ l.pc = "cycles" => l.job = "cycle"

\* The campaigns a process works on or is going to are known.
Knows(l) ==
    /\ l.job = "cycle" => l.todo \subseteq Known
    /\ l.pc \in Working => l.camp \in Known

\* A cycle that could still save has not seen the end.
Current(l) ==
    l.pc \in InCycle =>
        /\ l.ver <= camps[l.camp].ver
        /\ l.ver = camps[l.camp].ver => camps[l.camp].status \notin Terminal

\* The closer of a campaign ended it, and it has no report yet.
Closes(l) ==
    l.pc \in Closing =>
        /\ camps[l.camp].status = l.found /\ l.found \in Terminal
        /\ camps[l.camp].report = 0
        /\ l.pc \in {"report", "bind"} => l.found = "completed"

\* The authorization it closes names its campaign, as long as nobody wrote it.
Holds(l) ==
    l.pc = "closing" =>
        /\ l.auth <= active.ver
        /\ l.auth = active.ver => active.camp = l.camp

\* The report it binds is one of its campaign.
Binds(l) ==
    l.pc = "bind" => l.report \in 1..Len(reports) /\ reports[l.report].camp = l.camp

Local(l) == LocalType(l) /\ Knows(l) /\ Current(l) /\ Closes(l) /\ Holds(l) /\ Binds(l)

OneCloser == \A p, q \in Procs :
    at[p].pc \in Closing /\ at[q].pc \in Closing /\ at[p].camp = at[q].camp => p = q

CampInv ==
    /\ Documents /\ InOrder /\ Named /\ DecisionIsBacked
    /\ at = [p \in Procs |-> at[p]]
    /\ \A p \in Procs : Local(at[p])
    /\ OneCloser

----------------------------------------------------------------------------
\* The local variables of a process.
LEMMA Fields == DOMAIN Idle = {"pc", "job", "todo", "camp", "ver", "auth", "found",
                               "report", "busy", "listed"}
  BY DEF Idle

\* Idle knows nothing.
LEMMA IdleLocal == Constants => Local(Idle)
<1>1. /\ Idle.pc = "idle" /\ Idle.job = "request" /\ Idle.todo = {} /\ Idle.camp = 0
      /\ Idle.ver = 0 /\ Idle.auth = 0 /\ Idle.found = "running" /\ Idle.listed = <<>>
  BY DEF Idle
<1>2. DOMAIN <<>> \subseteq Schedules
  OBVIOUS
<1>3. Constants => LocalType(Idle)
  BY <1>1, <1>2 DEF LocalType, Labels, Constants
<1> QED
  BY <1>1, <1>3 DEF Local, Knows, Current, Closes, Holds, Binds, Working, InCycle, Closing

\* Where a process goes.
LEMMA GoesTo ==
    ASSUME NEW p, NEW changes, Goto(p, changes), NEW n, n = Changed(at[p], changes)
    PROVE  at' = [at EXCEPT ![p] = IF n.pc = "idle" THEN Idle ELSE n]
  BY DEF Goto

\* A process outside the cycles needs only its types.
LEMMA Outside ==
    ASSUME NEW n, LocalType(n), n.pc \notin Working, n.job = "cycle" => n.todo \subseteq Known
    PROVE  Local(n)
  BY DEF Local, Knows, Current, Closes, Holds, Binds, Working, InCycle, Closing

\* A process that leaves a cycle, for the tick or for good.
LEMMA Leaves ==
    ASSUME NEW l, LocalType(l), NEW x \in {"cycles", "recordLaunch", "recordError", "idle"},
           x = "cycles" => l.job = "cycle", NEW n, n = Changed(l, [pc |-> x])
    PROVE  LocalType(n) /\ n.pc = x /\ n.pc \notin Working /\ n.job = l.job /\ n.todo = l.todo
<1>1. /\ n.pc = x /\ n.job = l.job /\ n.todo = l.todo /\ n.camp = l.camp /\ n.ver = l.ver
      /\ n.auth = l.auth /\ n.found = l.found /\ n.listed = l.listed /\ DOMAIN n = DOMAIN l
  BY Fields DEF Changed, LocalType
<1> QED BY <1>1 DEF LocalType, Labels, Working, InCycle, Closing

\* Where a call returns to, and where it raises to.
LEMMA ReturnLabel ==
    ASSUME NEW p, LocalType(at[p])
    PROVE  /\ Return(p) \in {"cycles", "recordLaunch", "recordError", "idle"}
           /\ Return(p) = "cycles" => at[p].job = "cycle"
  BY DEF Return, LocalType

\* A step that leaves the campaigns, the authorization, the reports and the
\* decisions alone keeps the invariant, if its process knows what it should.
LEMMA ProcStep ==
    ASSUME Constants, CampInv, UNCHANGED <<camps, active, reports, decisions>>,
           plans' \in [Schedules -> [last : 0..MaxCampaigns, runs : Nat, ver : Nat]],
           due' \subseteq Schedules, NEW p \in Procs, NEW n,
           at' = [at EXCEPT ![p] = IF n.pc = "idle" THEN Idle ELSE n],
           n.pc # "idle" => Local(n),
           n.pc \in Closing => at[p].pc \in Closing /\ n.camp = at[p].camp
    PROVE  CampInv'
<1>1. /\ Documents' /\ InOrder' /\ Named' /\ DecisionIsBacked' /\ Known' = Known
  BY DEF CampInv, Documents, InOrder, Named, DecisionIsBacked, Known
<1> DEFINE x == IF n.pc = "idle" THEN Idle ELSE n
<1>2. Local(x) /\ (x.pc \in Closing => at[p].pc \in Closing /\ x.camp = at[p].camp)
  BY IdleLocal DEF Idle, Closing
<1>3. at' = [at EXCEPT ![p] = x]
  OBVIOUS
<1> HIDE DEF x
<1>4. at = [q \in Procs |-> at[q]] /\ \A q \in Procs : Local(at[q])
  BY DEF CampInv
<1>5. /\ at' = [q \in Procs |-> at'[q]] /\ at'[p] = x
      /\ \A q \in Procs : q # p => at'[q] = at[q]
  BY <1>3, <1>4
<1>6. ASSUME NEW q \in Procs PROVE Local(at[q])'
  <2>1. PICK l : l = at'[q]
    OBVIOUS
  <2>2. Local(l)
    BY <1>2, <1>4, <1>5, <2>1
  <2>3. Local(l)'
    BY <1>1, <2>2 DEF Local, LocalType, Knows, Current, Closes, Holds, Binds
  <2> QED BY <2>1, <2>3 DEF Local, LocalType, Knows, Current, Closes, Holds, Binds
<1>7. OneCloser'
  BY <1>2, <1>5 DEF CampInv, OneCloser
<1> QED BY <1>1, <1>5, <1>6, <1>7 DEF CampInv

\* A process leaves a cycle: for the tick's loops, the launch that called, or
\* for good, and a branch that raises changes no document.
LEMMA LeaveStep ==
    ASSUME Constants, CampInv, UNCHANGED <<camps, active, plans, due, reports, decisions>>,
           NEW p \in Procs, NEW x \in {"cycles", "recordLaunch", "recordError", "idle"},
           x = "cycles" => at[p].job = "cycle", To(p, x)
    PROVE  CampInv'
<1>1. PICK n : n = Changed(at[p], [pc |-> x])
  OBVIOUS
<1>2. Local(at[p])
  BY DEF CampInv
<1>3. at' = [at EXCEPT ![p] = IF n.pc = "idle" THEN Idle ELSE n]
  BY <1>1, GoesTo DEF To
<1>4. LocalType(n) /\ n.pc = x /\ n.pc \notin Working /\ n.job = at[p].job /\ n.todo = at[p].todo
  BY <1>1, <1>2, Leaves DEF Local
<1>5. Local(n) /\ n.pc \notin Closing
  BY <1>2, <1>4, Outside DEF Local, Knows, Working
<1>6. /\ plans' \in [Schedules -> [last : 0..MaxCampaigns, runs : Nat, ver : Nat]]
      /\ due' \subseteq Schedules
  BY DEF CampInv, Documents
<1> QED BY <1>3, <1>5, <1>6, ProcStep

\* Both ways out of a cycle.
LEMMA RaiseStep ==
    ASSUME Constants, CampInv, UNCHANGED <<camps, active, plans, due, reports, decisions>>,
           NEW p \in Procs, Raises(p) \/ Returns(p)
    PROVE  CampInv'
<1>1. LocalType(at[p])
  BY DEF CampInv, Local
<1>2. CASE Returns(p)
  <2> DEFINE x == Return(p)
  <2>1. To(p, x)
    BY <1>2 DEF Returns
  <2>2. x \in {"cycles", "recordLaunch", "recordError", "idle"} /\ (x = "cycles" => at[p].job = "cycle")
    BY <1>1, ReturnLabel
  <2> HIDE DEF x
  <2> QED BY <2>1, <2>2, LeaveStep
<1>3. CASE Raises(p)
  <2> DEFINE x == CASE at[p].job = "cycle" -> "cycles"
                    [] at[p].job = "launch" -> "recordError"
                    [] at[p].job = "request" -> "idle"
  <2>1. To(p, x)
    BY <1>3 DEF Raises
  <2>2. x \in {"cycles", "recordLaunch", "recordError", "idle"} /\ (x = "cycles" => at[p].job = "cycle")
    BY <1>1 DEF LocalType
  <2> HIDE DEF x
  <2> QED BY <2>1, <2>2, LeaveStep
<1> QED BY <1>2, <1>3

\* A process moves and no document changes.
LEMMA MoveStep ==
    ASSUME Constants, CampInv, UNCHANGED <<camps, active, plans, due, reports, decisions>>,
           NEW p \in Procs, NEW changes, Goto(p, changes), NEW n, n = Changed(at[p], changes),
           Local(n),
           n.pc \in Closing => at[p].pc \in Closing /\ n.camp = at[p].camp
    PROVE  CampInv'
<1>1. /\ plans' \in [Schedules -> [last : 0..MaxCampaigns, runs : Nat, ver : Nat]]
      /\ due' \subseteq Schedules
  BY DEF CampInv, Documents
<1> QED BY <1>1, GoesTo, ProcStep

\* The tick lists the campaigns that have not ended.
LEMMA TickBeginsInv == ASSUME Constants, CampInv, NEW p \in Procs, TickBegins(p) PROVE CampInv'
<1> DEFINE changes == [pc |-> "cycles", job |-> "cycle", todo |-> NonTerminal]
<1>1. PICK l : l = at[p]
  OBVIOUS
<1>2. PICK n : n = Changed(l, changes)
  OBVIOUS
<1>3. Local(l)
  BY <1>1 DEF CampInv
<1>4. /\ n.pc = "cycles" /\ n.job = "cycle" /\ n.todo = NonTerminal /\ n.camp = l.camp /\ n.ver = l.ver
      /\ n.auth = l.auth /\ n.found = l.found /\ n.listed = l.listed /\ DOMAIN n = DOMAIN l
  BY <1>2, <1>3, Fields DEF Changed, Local, LocalType
<1>5. LocalType(n)
  BY <1>3, <1>4 DEF Local, LocalType, Labels
<1>6. Local(n)
  BY <1>4, <1>5, Outside DEF Working, InCycle, Closing, NonTerminal
<1>7. Goto(p, changes) /\ UNCHANGED <<camps, active, plans, due, reports, decisions>>
  BY DEF TickBegins, docs
<1>8. n = Changed(at[p], changes) /\ n.pc \notin Closing
  BY <1>1, <1>2, <1>4 DEF Closing
<1> HIDE DEF changes
<1> QED BY <1>6, <1>7, <1>8, MoveStep

\* A request names a known campaign.
LEMMA RunBeginsInv ==
    ASSUME Constants, CampInv, NEW p \in Procs, NEW c \in Ids, RunBegins(p, c) PROVE CampInv'
<1> DEFINE changes == [pc |-> "cycle", job |-> "request", camp |-> c]
<1>1. PICK l : l = at[p]
  OBVIOUS
<1>2. PICK n : n = Changed(l, changes)
  OBVIOUS
<1>3. Local(l) /\ c \in Known
  BY <1>1 DEF CampInv, RunBegins
<1>4. /\ n.pc = "cycle" /\ n.job = "request" /\ n.todo = l.todo /\ n.camp = c /\ n.ver = l.ver
      /\ n.auth = l.auth /\ n.found = l.found /\ n.listed = l.listed /\ DOMAIN n = DOMAIN l
  BY <1>2, <1>3, Fields DEF Changed, Local, LocalType
<1>5. LocalType(n)
  BY <1>3, <1>4 DEF Local, LocalType, Labels, Ids, Constants
<1>6. Local(n)
  BY <1>3, <1>4, <1>5 DEF Local, Knows, Current, Closes, Holds, Binds, InCycle, Closing
<1>7. Goto(p, changes) /\ UNCHANGED <<camps, active, plans, due, reports, decisions>>
  BY DEF RunBegins, docs
<1>8. n = Changed(at[p], changes) /\ n.pc \notin Closing
  BY <1>1, <1>2, <1>4 DEF Closing
<1> HIDE DEF changes
<1> QED BY <1>6, <1>7, <1>8, MoveStep

\* The tick takes the next campaign.
LEMMA TickCycleInv == ASSUME Constants, CampInv, NEW p \in Procs, TickCycle(p) PROVE CampInv'
<1>0. PICK c \in at[p].todo :
          Goto(p, [pc |-> "cycle", camp |-> c, todo |-> at[p].todo \ {c}])
  BY DEF TickCycle
<1>1. PICK l : l = at[p]
  OBVIOUS
<1> DEFINE changes == [pc |-> "cycle", camp |-> c, todo |-> l.todo \ {c}]
<1>2. PICK n : n = Changed(l, changes)
  OBVIOUS
<1>3. Local(l) /\ l.pc = "cycles"
  BY <1>1 DEF CampInv, TickCycle
<1>4. /\ n.pc = "cycle" /\ n.job = l.job /\ n.todo = l.todo \ {c} /\ n.camp = c /\ n.ver = l.ver
      /\ n.auth = l.auth /\ n.found = l.found /\ n.listed = l.listed /\ DOMAIN n = DOMAIN l
  BY <1>2, <1>3, Fields DEF Changed, Local, LocalType
<1>5. c \in Known /\ l.todo \subseteq Known
  BY <1>0, <1>1, <1>3 DEF Local, LocalType, Knows
<1>6. LocalType(n)
  BY <1>3, <1>4, <1>5 DEF Local, LocalType, Labels, Ids, Constants, Known
<1>7. Local(n)
  BY <1>4, <1>5, <1>6 DEF Local, Knows, Current, Closes, Holds, Binds, InCycle, Closing
<1>8. Goto(p, changes) /\ UNCHANGED <<camps, active, plans, due, reports, decisions>>
  BY <1>0, <1>1 DEF TickCycle, docs
<1>9. n = Changed(at[p], changes) /\ n.pc \notin Closing
  BY <1>1, <1>2, <1>4 DEF Closing
<1> HIDE DEF changes
<1> QED BY <1>7, <1>8, <1>9, MoveStep

\* run_cycle reads a campaign that has ended, or the version it goes on with.
LEMMA CycleReadsInv == ASSUME Constants, CampInv, NEW p \in Procs, CycleReads(p) PROVE CampInv'
<1>0. UNCHANGED <<camps, active, plans, due, reports, decisions>>
  BY DEF CycleReads, docs
<1>1. PICK l : l = at[p]
  OBVIOUS
<1> DEFINE c == camps[l.camp]
<1>2. Local(l) /\ l.pc = "cycle" /\ l.camp \in Known
  BY <1>1 DEF CampInv, CycleReads, Local, Knows, Working
<1>3. c.status \in Statuses /\ c.ver \in Nat
  BY <1>2 DEF CampInv, Documents, Known
<1>4. CASE Raises(p)
  BY <1>0, <1>4, RaiseStep
<1>5. CASE c.status \in Terminal /\ Goto(p, [pc |-> Return(p), found |-> c.status])
  <2>0. PICK x : x = Return(p)
    OBVIOUS
  <2> DEFINE changes == [pc |-> x, found |-> c.status]
  <2>1. PICK n : n = Changed(l, changes)
    OBVIOUS
  <2>2. x \in {"cycles", "recordLaunch", "recordError", "idle"} /\ (x = "cycles" => l.job = "cycle")
    BY <1>1, <1>2, <2>0, ReturnLabel DEF Local
  <2>3. /\ n.pc = x /\ n.job = l.job /\ n.todo = l.todo /\ n.camp = l.camp /\ n.ver = l.ver
        /\ n.auth = l.auth /\ n.found = c.status /\ n.listed = l.listed /\ DOMAIN n = DOMAIN l
    BY <1>2, <2>1, Fields DEF Changed, Local, LocalType
  <2>4. LocalType(n) /\ n.pc \notin Working
    BY <1>2, <1>5, <2>2, <2>3 DEF Local, LocalType, Labels, Terminal, Working, InCycle, Closing
  <2>5. Local(n)
    BY <1>2, <2>3, <2>4, Outside DEF Local, Knows
  <2>6. Goto(p, changes) /\ n = Changed(at[p], changes) /\ n.pc \notin Closing
    BY <1>1, <1>5, <2>0, <2>1, <2>4 DEF Working
  <2> HIDE DEF changes
  <2> QED BY <1>0, <2>5, <2>6, MoveStep
<1>6. CASE c.status \notin Terminal /\ Goto(p, [pc |-> "activate", ver |-> c.ver])
  <2> DEFINE changes == [pc |-> "activate", ver |-> c.ver]
  <2>1. PICK n : n = Changed(l, changes)
    OBVIOUS
  <2>2. /\ n.pc = "activate" /\ n.job = l.job /\ n.todo = l.todo /\ n.camp = l.camp /\ n.ver = c.ver
        /\ n.auth = l.auth /\ n.found = l.found /\ n.listed = l.listed /\ DOMAIN n = DOMAIN l
    BY <1>2, <2>1, Fields DEF Changed, Local, LocalType
  <2>3. LocalType(n)
    BY <1>2, <1>3, <2>2 DEF Local, LocalType, Labels
  <2>4. Local(n) /\ n.pc \notin Closing
    BY <1>2, <1>3, <1>6, <2>2, <2>3
       DEF Local, Knows, Current, Closes, Holds, Binds, InCycle, Closing
  <2>5. Goto(p, changes) /\ n = Changed(at[p], changes)
    BY <1>1, <1>6, <2>1
  <2> HIDE DEF changes
  <2> QED BY <1>0, <2>4, <2>5, MoveStep
<1> QED BY <1>1, <1>4, <1>5, <1>6 DEF CycleReads

\* _activate reads the authorization.
LEMMA ActivateReadsInv == ASSUME Constants, CampInv, NEW p \in Procs, ActivateReads(p) PROVE CampInv'
<1>1. PICK l : l = at[p]
  OBVIOUS
<1>0. PICK x : x = IF l.pc = "activate" THEN "authorize" ELSE "startAuthorize"
  OBVIOUS
<1> DEFINE changes == [pc |-> x, auth |-> active.ver]
<1>2. PICK n : n = Changed(l, changes)
  OBVIOUS
<1>3. Local(l) /\ l.pc \in {"activate", "startActivate"} /\ active.ver \in Nat
  BY <1>1 DEF CampInv, ActivateReads, Documents
<1>4. /\ n.pc = x /\ n.job = l.job /\ n.todo = l.todo /\ n.camp = l.camp /\ n.ver = l.ver
      /\ n.auth = active.ver /\ n.found = l.found /\ n.listed = l.listed /\ DOMAIN n = DOMAIN l
  BY <1>2, <1>3, Fields DEF Changed, Local, LocalType
<1>5. LocalType(n)
  BY <1>0, <1>3, <1>4 DEF Local, LocalType, Labels
<1>6. Local(n) /\ n.pc \notin Closing
  BY <1>0, <1>3, <1>4, <1>5 DEF Local, Knows, Current, Closes, Holds, Binds, Working, InCycle, Closing
<1>7. Goto(p, changes) /\ UNCHANGED <<camps, active, plans, due, reports, decisions>>
  BY <1>0, <1>1 DEF ActivateReads, docs
<1>8. n = Changed(at[p], changes)
  BY <1>1, <1>2
<1> HIDE DEF changes
<1> QED BY <1>6, <1>7, <1>8, MoveStep

\* What a cycle finds is not written yet.
LEMMA EvaluateInv == ASSUME Constants, CampInv, NEW p \in Procs, Evaluate(p) PROVE CampInv'
<1>0. UNCHANGED <<camps, active, plans, due, reports, decisions>>
  BY DEF Evaluate, docs
<1>1. CASE Raises(p)
  BY <1>0, <1>1, RaiseStep
<1>2. ASSUME NEW e \in Evidence, Goto(p, [pc |-> "save", found |-> Classify(e)]) PROVE CampInv'
  <2>0. PICK x : x = Classify(e)
    OBVIOUS
  <2>1. PICK l : l = at[p]
    OBVIOUS
  <2> DEFINE changes == [pc |-> "save", found |-> x]
  <2>2. PICK n : n = Changed(l, changes)
    OBVIOUS
  <2>3. Local(l) /\ l.pc = "evaluate" /\ x \in {"running", "completed", "blocked"}
    BY <2>0, <2>1 DEF CampInv, Evaluate, Classify
  <2>4. /\ n.pc = "save" /\ n.job = l.job /\ n.todo = l.todo /\ n.camp = l.camp /\ n.ver = l.ver
        /\ n.auth = l.auth /\ n.found = x /\ n.listed = l.listed /\ DOMAIN n = DOMAIN l
    BY <2>2, <2>3, Fields DEF Changed, Local, LocalType
  <2>5. LocalType(n)
    BY <2>3, <2>4 DEF Local, LocalType, Labels
  <2>6. Local(n) /\ n.pc \notin Closing
    BY <2>3, <2>4, <2>5 DEF Local, Knows, Current, Closes, Holds, Binds, Working, InCycle, Closing
  <2>7. Goto(p, changes) /\ n = Changed(at[p], changes)
    BY <1>2, <2>0, <2>1, <2>2
  <2> HIDE DEF changes
  <2> QED BY <1>0, <2>6, <2>7, MoveStep
<1> QED BY <1>1, <1>2 DEF Evaluate

\* After closing, a completed campaign goes on to its report.
LEMMA AfterCloseGoes ==
    ASSUME NEW p, Local(at[p]), AfterClose(p)
    PROVE  \E x \in {"report", "cycles", "recordLaunch", "recordError", "idle"} :
               /\ To(p, x)
               /\ x = "report" => at[p].found = "completed"
               /\ x = "cycles" => at[p].job = "cycle"
<1>1. CASE at[p].found = "completed" /\ To(p, "report")
  BY <1>1
<1>2. CASE Returns(p)
  <2>1. To(p, Return(p))
    BY <1>2 DEF Returns
  <2> QED BY <2>1, ReturnLabel DEF Local
<1> QED BY <1>1, <1>2 DEF AfterClose

\* It holds what a closer holds.
LEMMA ClosedLocal ==
    ASSUME NEW l, Local(l), l.pc \in {"close", "closing"},
           NEW x \in {"report", "cycles", "recordLaunch", "recordError", "idle"},
           x = "report" => l.found = "completed", x = "cycles" => l.job = "cycle",
           NEW n, n = Changed(l, [pc |-> x])
    PROVE  Local(n) /\ n.pc # "closing" /\ n.pc # "bind" /\ n.camp = l.camp
<1>1. /\ n.pc = x /\ n.job = l.job /\ n.todo = l.todo /\ n.camp = l.camp /\ n.ver = l.ver
      /\ n.auth = l.auth /\ n.found = l.found /\ n.listed = l.listed /\ DOMAIN n = DOMAIN l
  BY Fields DEF Changed, Local, LocalType
<1>2. LocalType(n)
  BY <1>1 DEF Local, LocalType, Labels
<1>3. l.pc \in Closing /\ l.pc \in Working
  BY DEF Working, Closing
<1> QED
  BY <1>1, <1>2, <1>3 DEF Local, Knows, Current, Closes, Holds, Binds, Working, InCycle, Closing

\* _deactivate reads whose authorization it is.
LEMMA DeactivateReadsInv ==
    ASSUME Constants, CampInv, NEW p \in Procs, DeactivateReads(p) PROVE CampInv'
<1>0. UNCHANGED <<camps, active, plans, due, reports, decisions>>
  BY DEF DeactivateReads, docs
<1>1. PICK l : l = at[p]
  OBVIOUS
<1>2. Local(l) /\ l.pc = "close" /\ l.pc \in Closing /\ active.ver \in Nat
  BY <1>1 DEF CampInv, DeactivateReads, Documents, Closing
<1>3. CASE active.camp = l.camp /\ Goto(p, [pc |-> "closing", auth |-> active.ver])
  <2> DEFINE changes == [pc |-> "closing", auth |-> active.ver]
  <2>1. PICK n : n = Changed(l, changes)
    OBVIOUS
  <2>2. /\ n.pc = "closing" /\ n.job = l.job /\ n.todo = l.todo /\ n.camp = l.camp /\ n.ver = l.ver
        /\ n.auth = active.ver /\ n.found = l.found /\ n.listed = l.listed /\ DOMAIN n = DOMAIN l
    BY <1>2, <2>1, Fields DEF Changed, Local, LocalType
  <2>3. LocalType(n)
    BY <1>2, <2>2 DEF Local, LocalType, Labels
  <2>4. Local(n)
    BY <1>2, <1>3, <2>2, <2>3
       DEF Local, Knows, Current, Closes, Holds, Binds, Working, InCycle, Closing
  <2>5. Goto(p, changes) /\ n = Changed(at[p], changes) /\ at[p].pc \in Closing /\ n.camp = at[p].camp
    BY <1>1, <1>2, <1>3, <2>1, <2>2
  <2> HIDE DEF changes
  <2> QED BY <1>0, <2>4, <2>5, MoveStep
<1>4. CASE AfterClose(p)
  <2>1. PICK x \in {"report", "cycles", "recordLaunch", "recordError", "idle"} :
            /\ To(p, x)
            /\ x = "report" => at[p].found = "completed"
            /\ x = "cycles" => at[p].job = "cycle"
    BY <1>1, <1>2, <1>4, AfterCloseGoes
  <2> DEFINE changes == [pc |-> x]
  <2>2. PICK n : n = Changed(at[p], changes)
    OBVIOUS
  <2>3. Local(n) /\ n.camp = at[p].camp /\ at[p].pc \in Closing
    BY <1>1, <1>2, <2>1, <2>2, ClosedLocal
  <2>4. Goto(p, changes)
    BY <2>1 DEF To
  <2> HIDE DEF changes
  <2> QED BY <1>0, <2>2, <2>3, <2>4, MoveStep
<1> QED BY <1>1, <1>3, <1>4 DEF DeactivateReads

\* The tick lists the campaigns again, and the schedules that are due.
LEMMA RefreshInv == ASSUME Constants, CampInv, NEW p \in Procs, Refresh(p) PROVE CampInv'
<1>1. PICK l : l = at[p]
  OBVIOUS
<1>2. PICK d : d = [s \in {x \in due : plans[x].ver > 0} |-> plans[s].ver]
  OBVIOUS
<1> DEFINE changes == [pc |-> "schedules", busy |-> NonTerminal # {}, listed |-> d]
<1>3. PICK n : n = Changed(l, changes)
  OBVIOUS
<1>4. Local(l) /\ l.pc = "cycles"
  BY <1>1 DEF CampInv, Refresh
<1>5. /\ n.pc = "schedules" /\ n.job = l.job /\ n.todo = l.todo /\ n.camp = l.camp /\ n.ver = l.ver
      /\ n.auth = l.auth /\ n.found = l.found /\ n.listed = d /\ DOMAIN n = DOMAIN l
  BY <1>3, <1>4, Fields DEF Changed, Local, LocalType
<1>6. DOMAIN d \subseteq Schedules
  BY <1>2 DEF CampInv, Documents
<1>7. LocalType(n)
  BY <1>4, <1>5, <1>6 DEF Local, LocalType, Labels
<1>8. Local(n) /\ n.pc \notin Closing
  BY <1>4, <1>5, <1>7, Outside DEF Local, Knows, Working, InCycle, Closing
<1>9. Goto(p, changes) /\ UNCHANGED <<camps, active, plans, due, reports, decisions>>
  BY <1>2 DEF Refresh, docs
<1>10. n = Changed(at[p], changes)
  BY <1>1, <1>3
<1> HIDE DEF changes
<1> QED BY <1>8, <1>9, <1>10, MoveStep

\* A tick ends.
LEMMA TickEndsInv == ASSUME Constants, CampInv, NEW p \in Procs, TickEnds(p) PROVE CampInv'
<1>1. PICK n : n = Idle
  OBVIOUS
<1>2. n.pc = "idle" /\ n.pc \notin Closing
  BY <1>1 DEF Idle, Closing
<1>3. at' = [at EXCEPT ![p] = IF n.pc = "idle" THEN Idle ELSE n]
  BY <1>2 DEF TickEnds
<1>4. /\ UNCHANGED <<camps, active, reports, decisions>>
      /\ plans' \in [Schedules -> [last : 0..MaxCampaigns, runs : Nat, ver : Nat]]
      /\ due' \subseteq Schedules
  BY DEF TickEnds, docs, CampInv, Documents
<1> QED BY <1>2, <1>3, <1>4, ProcStep

\* The gate of the first campaign.
LEMMA PlanPassesInv == ASSUME Constants, CampInv, NEW p \in Procs, PlanPasses(p) PROVE CampInv'
<1> DEFINE changes == [pc |-> "start", job |-> "request"]
<1>1. PICK l : l = at[p]
  OBVIOUS
<1>2. PICK n : n = Changed(l, changes)
  OBVIOUS
<1>3. Local(l)
  BY <1>1 DEF CampInv
<1>4. /\ n.pc = "start" /\ n.job = "request" /\ n.todo = l.todo /\ n.camp = l.camp /\ n.ver = l.ver
      /\ n.auth = l.auth /\ n.found = l.found /\ n.listed = l.listed /\ DOMAIN n = DOMAIN l
  BY <1>2, <1>3, Fields DEF Changed, Local, LocalType
<1>5. LocalType(n)
  BY <1>3, <1>4 DEF Local, LocalType, Labels
<1>6. Local(n) /\ n.pc \notin Closing
  BY <1>4, <1>5, Outside DEF Working, InCycle, Closing
<1>7. Goto(p, changes) /\ UNCHANGED <<camps, active, plans, due, reports, decisions>>
  BY DEF PlanPasses, docs
<1>8. n = Changed(at[p], changes)
  BY <1>1, <1>2
<1> HIDE DEF changes
<1> QED BY <1>6, <1>7, <1>8, MoveStep

\* A put leaves a schedule document.
LEMMA PlanTyped ==
    ASSUME CampInv, NEW s, NEW r, NEW v, plans[s].ver = v,
           s \in Schedules => r \in [last : 0..MaxCampaigns, runs : Nat, ver : Nat],
           plans' = [plans EXCEPT ![s] = [r EXCEPT !.ver = v + 1]], due' = due \ {s}
    PROVE  /\ plans' \in [Schedules -> [last : 0..MaxCampaigns, runs : Nat, ver : Nat]]
           /\ due' \subseteq Schedules
<1>1. /\ plans \in [Schedules -> [last : 0..MaxCampaigns, runs : Nat, ver : Nat]]
      /\ due \subseteq Schedules
  BY DEF CampInv, Documents
<1>2. s \in Schedules => v \in Nat
  BY <1>1
<1>3. s \in Schedules => [r EXCEPT !.ver = v + 1] \in [last : 0..MaxCampaigns, runs : Nat, ver : Nat]
  BY <1>2
<1> QED BY <1>1, <1>3

\* A schedule was handled: the tick goes on with the others.
LEMMA HandledStep ==
    ASSUME Constants, CampInv, UNCHANGED <<camps, active, reports, decisions>>,
           plans' \in [Schedules -> [last : 0..MaxCampaigns, runs : Nat, ver : Nat]],
           due' \subseteq Schedules, NEW p \in Procs, NEW s, NEW changes, Goto(p, changes),
           NEW n, n = Changed(at[p], changes),
           n.pc = "schedules", n.job = at[p].job, n.camp = at[p].camp, n.ver = at[p].ver,
           n.auth = at[p].auth, n.found = at[p].found, n.listed = Handled(p, s),
           DOMAIN n = DOMAIN at[p], n.todo \in {at[p].todo, {}}
    PROVE  CampInv'
<1>1. PICK l : l = at[p]
  OBVIOUS
<1>2. Local(l)
  BY <1>1 DEF CampInv
<1>3. DOMAIN n.listed \subseteq Schedules
  BY <1>1, <1>2 DEF Handled, Local, LocalType
<1>4. LocalType(n)
  BY <1>1, <1>2, <1>3 DEF Local, LocalType, Labels
<1>5. Local(n) /\ n.pc \notin Closing
  BY <1>1, <1>2, <1>4, Outside DEF Local, Knows, Working, InCycle, Closing
<1> QED BY <1>5, GoesTo, ProcStep

\* A campaign that has not ended defers a schedule.
LEMMA DeferInv == ASSUME Constants, CampInv, NEW p \in Procs, Defer(p) PROVE CampInv'
<1>1. PICK s \in DOMAIN at[p].listed :
          PutPlan(s, at[p].listed[s], plans[s], Goto(p, [listed |-> Handled(p, s)]), To(p, "idle"))
  BY DEF Defer
<1>2. UNCHANGED <<camps, active, reports, decisions>>
  BY DEF Defer
<1>3. CASE To(p, "idle") /\ UNCHANGED <<plans, due>>
  BY <1>2, <1>3, LeaveStep
<1>4. CASE /\ plans[s].ver = at[p].listed[s]
           /\ plans' = [plans EXCEPT ![s] = [plans[s] EXCEPT !.ver = at[p].listed[s] + 1]]
           /\ due' = due \ {s} /\ Goto(p, [listed |-> Handled(p, s)])
  <2>1. s \in Schedules => plans[s] \in [last : 0..MaxCampaigns, runs : Nat, ver : Nat]
    BY DEF CampInv, Documents
  <2>2. /\ plans' \in [Schedules -> [last : 0..MaxCampaigns, runs : Nat, ver : Nat]]
        /\ due' \subseteq Schedules
    BY <1>4, <2>1, PlanTyped
  <2>3. PICK h : h = Handled(p, s)
    OBVIOUS
  <2> DEFINE changes == [listed |-> h]
  <2>4. PICK n : n = Changed(at[p], changes)
    OBVIOUS
  <2>5. DOMAIN at[p] = DOMAIN Idle /\ at[p].pc = "schedules"
    BY DEF CampInv, Local, LocalType, Defer
  <2>6. /\ n.pc = "schedules" /\ n.job = at[p].job /\ n.todo = at[p].todo /\ n.camp = at[p].camp
        /\ n.ver = at[p].ver /\ n.auth = at[p].auth /\ n.found = at[p].found /\ n.listed = h
        /\ DOMAIN n = DOMAIN at[p]
    BY <2>4, <2>5, Fields DEF Changed
  <2>7. Goto(p, changes)
    BY <1>4, <2>3
  <2> HIDE DEF changes
  <2> QED BY <1>2, <2>2, <2>3, <2>4, <2>6, <2>7, HandledStep
<1> QED BY <1>1, <1>3, <1>4 DEF PutPlan

\* A launch is recorded.
LEMMA RecordLaunchInv == ASSUME Constants, CampInv, NEW p \in Procs, RecordLaunch(p) PROVE CampInv'
<1>1. PICK s \in at[p].todo :
          PutPlan(s, at[p].listed[s], [last |-> at[p].camp, runs |-> plans[s].runs + 1, ver |-> plans[s].ver],
                  Goto(p, [pc |-> "schedules", todo |-> {},
                           busy |-> at[p].found \notin Terminal, listed |-> Handled(p, s)]),
                  To(p, "recordError"))
  BY DEF RecordLaunch
<1>2. UNCHANGED <<camps, active, reports, decisions>>
  BY DEF RecordLaunch
<1>3. CASE To(p, "recordError") /\ UNCHANGED <<plans, due>>
  BY <1>2, <1>3, LeaveStep
<1>4. CASE /\ plans[s].ver = at[p].listed[s]
           /\ plans' = [plans EXCEPT ![s] =
                            [[last |-> at[p].camp, runs |-> plans[s].runs + 1, ver |-> plans[s].ver]
                                EXCEPT !.ver = at[p].listed[s] + 1]]
           /\ due' = due \ {s}
           /\ Goto(p, [pc |-> "schedules", todo |-> {},
                       busy |-> at[p].found \notin Terminal, listed |-> Handled(p, s)])
  <2>0. at[p].camp \in 0..MaxCampaigns
    BY DEF CampInv, Local, LocalType
  <2>1. ASSUME s \in Schedules
        PROVE  [last |-> at[p].camp, runs |-> plans[s].runs + 1, ver |-> plans[s].ver]
                   \in [last : 0..MaxCampaigns, runs : Nat, ver : Nat]
    <3>1. plans[s].runs \in Nat /\ plans[s].ver \in Nat
      BY <2>1 DEF CampInv, Documents
    <3>2. plans[s].runs + 1 \in Nat
      BY <3>1
    <3> QED BY <2>0, <3>1, <3>2
  <2>2. /\ plans' \in [Schedules -> [last : 0..MaxCampaigns, runs : Nat, ver : Nat]]
        /\ due' \subseteq Schedules
    BY <1>4, <2>1, PlanTyped
  <2>3. PICK h : h = Handled(p, s)
    OBVIOUS
  <2> DEFINE changes == [pc |-> "schedules", todo |-> {},
                         busy |-> at[p].found \notin Terminal, listed |-> h]
  <2>4. PICK n : n = Changed(at[p], changes)
    OBVIOUS
  <2>5. DOMAIN at[p] = DOMAIN Idle
    BY DEF CampInv, Local, LocalType
  <2>6. /\ n.pc = "schedules" /\ n.job = at[p].job /\ n.todo = {} /\ n.camp = at[p].camp
        /\ n.ver = at[p].ver /\ n.auth = at[p].auth /\ n.found = at[p].found /\ n.listed = h
        /\ DOMAIN n = DOMAIN at[p]
    BY <2>4, <2>5, Fields DEF Changed
  <2>7. Goto(p, changes)
    BY <1>4, <2>3
  <2> HIDE DEF changes
  <2> QED BY <1>2, <2>2, <2>3, <2>4, <2>6, <2>7, HandledStep
<1> QED BY <1>1, <1>3, <1>4 DEF PutPlan

\* An error is recorded.
LEMMA RecordErrorInv == ASSUME Constants, CampInv, NEW p \in Procs, RecordError(p) PROVE CampInv'
<1>1. PICK s \in at[p].todo :
          PutPlan(s, at[p].listed[s], plans[s],
                  Goto(p, [pc |-> "schedules", todo |-> {}, listed |-> Handled(p, s)]),
                  To(p, "idle"))
  BY DEF RecordError
<1>2. UNCHANGED <<camps, active, reports, decisions>>
  BY DEF RecordError
<1>3. CASE To(p, "idle") /\ UNCHANGED <<plans, due>>
  BY <1>2, <1>3, LeaveStep
<1>4. CASE /\ plans[s].ver = at[p].listed[s]
           /\ plans' = [plans EXCEPT ![s] = [plans[s] EXCEPT !.ver = at[p].listed[s] + 1]]
           /\ due' = due \ {s}
           /\ Goto(p, [pc |-> "schedules", todo |-> {}, listed |-> Handled(p, s)])
  <2>1. s \in Schedules => plans[s] \in [last : 0..MaxCampaigns, runs : Nat, ver : Nat]
    BY DEF CampInv, Documents
  <2>2. /\ plans' \in [Schedules -> [last : 0..MaxCampaigns, runs : Nat, ver : Nat]]
        /\ due' \subseteq Schedules
    BY <1>4, <2>1, PlanTyped
  <2>3. PICK h : h = Handled(p, s)
    OBVIOUS
  <2> DEFINE changes == [pc |-> "schedules", todo |-> {}, listed |-> h]
  <2>4. PICK n : n = Changed(at[p], changes)
    OBVIOUS
  <2>5. DOMAIN at[p] = DOMAIN Idle
    BY DEF CampInv, Local, LocalType
  <2>6. /\ n.pc = "schedules" /\ n.job = at[p].job /\ n.todo = {} /\ n.camp = at[p].camp
        /\ n.ver = at[p].ver /\ n.auth = at[p].auth /\ n.found = at[p].found /\ n.listed = h
        /\ DOMAIN n = DOMAIN at[p]
    BY <2>4, <2>5, Fields DEF Changed
  <2>7. Goto(p, changes)
    BY <1>4, <2>3
  <2> HIDE DEF changes
  <2> QED BY <1>2, <2>2, <2>3, <2>4, <2>6, <2>7, HandledStep
<1> QED BY <1>1, <1>3, <1>4 DEF PutPlan

\* A schedule is created, or its interval passes.
LEMMA DueInv ==
    ASSUME Constants, CampInv, NEW s \in Schedules, CreateSchedule(s) \/ IntervalPasses(s)
    PROVE  CampInv'
<1>1. /\ plans' \in [Schedules -> [last : 0..MaxCampaigns, runs : Nat, ver : Nat]]
      /\ due' \subseteq Schedules
  <2>1. /\ plans \in [Schedules -> [last : 0..MaxCampaigns, runs : Nat, ver : Nat]]
        /\ due \subseteq Schedules
    BY DEF CampInv, Documents
  <2>2. CASE plans' = plans /\ due' = due \union {s}
    BY <2>1, <2>2
  <2>3. CASE plans' = [plans EXCEPT ![s].ver = 1] /\ due' = due \union {s}
    <3>1. [plans[s] EXCEPT !.ver = 1] \in [last : 0..MaxCampaigns, runs : Nat, ver : Nat]
      BY <2>1
    <3> QED BY <2>1, <2>3, <3>1
  <2> QED BY <2>2, <2>3 DEF CreateSchedule, IntervalPasses, docs
<1>2. UNCHANGED <<camps, active, reports, decisions, at>>
  BY DEF CreateSchedule, IntervalPasses, docs
<1>3. /\ Documents' /\ InOrder' /\ Named' /\ DecisionIsBacked' /\ Known' = Known
  BY <1>1, <1>2 DEF CampInv, Documents, InOrder, Named, DecisionIsBacked, Known
<1>4. \A p \in Procs : Local(at[p])'
  BY <1>2, <1>3 DEF CampInv, Local, LocalType, Knows, Current, Closes, Holds, Binds
<1> QED BY <1>2, <1>3, <1>4 DEF CampInv, OneCloser

----------------------------------------------------------------------------
\* A step that changes the documents keeps the invariant, if it keeps theirs
\* and what every process knows, and starts no second closing.
LEMMA DocStep ==
    ASSUME Constants, CampInv, Documents', InOrder', Named', DecisionIsBacked',
           NEW p \in Procs, NEW n,
           at' = [at EXCEPT ![p] = IF n.pc = "idle" THEN Idle ELSE n],
           n.pc # "idle" => Local(n)',
           \A q \in Procs \ {p} : \A l : l = at[q] => Local(l)',
           n.pc \in Closing =>
               \A q \in Procs \ {p} : at[q].pc \in Closing => at[q].camp # n.camp
    PROVE  CampInv'
<1> DEFINE x == IF n.pc = "idle" THEN Idle ELSE n
<1>1. Local(Idle)'
  <2>1. Idle.pc = "idle" /\ Idle.job = "request" /\ LocalType(Idle)
    BY IdleLocal DEF Idle, Local
  <2>2. LocalType(Idle)'
    BY <2>1 DEF LocalType
  <2> QED
    BY <2>1, <2>2 DEF Local, Knows, Current, Closes, Holds, Binds, Working, InCycle, Closing
<1>2. Local(x)' /\ (x.pc \in Closing => n.pc \in Closing /\ x.camp = n.camp)
  <2>1. Idle.pc \notin Closing
    BY DEF Idle, Closing
  <2> QED BY <1>1, <2>1
<1>3. at' = [at EXCEPT ![p] = x]
  OBVIOUS
<1> HIDE DEF x
<1>4. at = [q \in Procs |-> at[q]]
  BY DEF CampInv
<1>5. /\ at' = [q \in Procs |-> at'[q]] /\ at'[p] = x
      /\ \A q \in Procs : q # p => at'[q] = at[q]
  BY <1>3, <1>4
<1>6. ASSUME NEW q \in Procs PROVE Local(at[q])'
  <2>1. PICK l : l = at'[q]
    OBVIOUS
  <2>2. Local(l)'
    BY <1>2, <1>5, <2>1
  <2> QED BY <2>1, <2>2 DEF Local, LocalType, Knows, Current, Closes, Holds, Binds
<1>7. OneCloser'
  BY <1>2, <1>5 DEF CampInv, OneCloser
<1> QED BY <1>5, <1>6, <1>7 DEF CampInv

\* A write of the authorization takes nothing from what a process knows.
LEMMA AuthorizationWritten ==
    ASSUME UNCHANGED <<camps, reports>>, active.ver \in Nat, active'.ver = active.ver + 1,
           NEW l, Local(l)
    PROVE  l.pc # "closing" \/ l.auth # active'.ver => Local(l)'
<1>1. Known' = Known
  BY DEF Known
<1>2. Holds(l)'
  BY DEF Local, LocalType, Holds
<1> QED BY <1>1, <1>2 DEF Local, LocalType, Knows, Current, Closes, Binds

\* ... and keeps the documents.
LEMMA AuthorizationTyped ==
    ASSUME CampInv, UNCHANGED <<camps, plans, reports, decisions, due>>,
           active' \in [camp : 0..MaxCampaigns, status : {"active", "closed"}, ver : Nat]
    PROVE  Documents' /\ InOrder' /\ Named' /\ DecisionIsBacked'
<1>1. Known' = Known
  BY DEF Known
<1> QED BY <1>1 DEF CampInv, Documents, InOrder, Named, DecisionIsBacked

\* _activate writes the authorization.
LEMMA ActivateWritesInv == ASSUME Constants, CampInv, NEW p \in Procs, ActivateWrites(p) PROVE CampInv'
<1>0. UNCHANGED <<camps, plans, reports, decisions, due>>
  BY DEF ActivateWrites
<1>1. CASE Raises(p) /\ UNCHANGED active
  BY <1>0, <1>1, RaiseStep
<1>2. CASE /\ active' = [camp |-> at[p].camp, status |-> "active", ver |-> active.ver + 1]
           /\ To(p, IF at[p].pc = "authorize" THEN "evaluate" ELSE "cycle")
  <2>1. PICK l : l = at[p]
    OBVIOUS
  <2>0. PICK x : x = IF l.pc = "authorize" THEN "evaluate" ELSE "cycle"
    OBVIOUS
  <2> DEFINE changes == [pc |-> x]
  <2>2. PICK n : n = Changed(l, changes)
    OBVIOUS
  <2>3. Local(l) /\ l.pc \in {"authorize", "startAuthorize"} /\ active.ver \in Nat
    BY <2>1 DEF CampInv, ActivateWrites, Documents
  <2>4. /\ n.pc = x /\ n.job = l.job /\ n.todo = l.todo /\ n.camp = l.camp /\ n.ver = l.ver
        /\ n.auth = l.auth /\ n.found = l.found /\ n.listed = l.listed /\ DOMAIN n = DOMAIN l
    BY <2>2, <2>3, Fields DEF Changed, Local, LocalType
  <2>5. LocalType(n)
    BY <2>0, <2>3, <2>4 DEF Local, LocalType, Labels
  <2>6. Local(n) /\ n.pc \notin Closing
    BY <2>0, <2>3, <2>4, <2>5
       DEF Local, Knows, Current, Closes, Holds, Binds, Working, InCycle, Closing
  <2>7. active'.ver = active.ver + 1 /\ l.camp \in 0..MaxCampaigns
    BY <1>2, <2>3 DEF Local, LocalType
  <2>8. Local(n)' /\ \A q \in Procs \ {p} : \A k : k = at[q] => Local(k)'
    <3>1. Local(n)'
      BY <1>0, <2>3, <2>6, <2>7, AuthorizationWritten DEF Closing
    <3>2. ASSUME NEW q \in Procs \ {p}, NEW k, k = at[q] PROVE Local(k)'
      <4>1. Local(k) /\ k.auth \in Nat
        BY <3>2 DEF CampInv, Local, LocalType
      <4>2. k.pc = "closing" => k.auth # active'.ver
        BY <2>3, <2>7, <4>1 DEF Local, Holds
      <4> QED BY <1>0, <2>3, <2>7, <4>1, <4>2, AuthorizationWritten
    <3> QED BY <3>1, <3>2
  <2>9. Documents' /\ InOrder' /\ Named' /\ DecisionIsBacked'
    BY <1>0, <1>2, <2>1, <2>3, <2>7, AuthorizationTyped
  <2>10. Goto(p, changes) /\ n = Changed(at[p], changes)
    BY <1>2, <2>0, <2>1, <2>2 DEF To
  <2>11. at' = [at EXCEPT ![p] = IF n.pc = "idle" THEN Idle ELSE n]
    BY <2>10, GoesTo
  <2> HIDE DEF changes
  <2> QED BY <2>6, <2>8, <2>9, <2>11, DocStep
<1> QED BY <1>1, <1>2 DEF ActivateWrites

\* _deactivate closes the authorization.
LEMMA DeactivateWritesInv ==
    ASSUME Constants, CampInv, NEW p \in Procs, DeactivateWrites(p) PROVE CampInv'
<1>0. UNCHANGED <<camps, plans, reports, decisions, due>>
  BY DEF DeactivateWrites
<1>1. CASE Raises(p) /\ UNCHANGED active
  BY <1>0, <1>1, RaiseStep
<1>2. CASE active' = [active EXCEPT !.status = "closed", !.ver = @ + 1] /\ AfterClose(p)
  <2>1. PICK l : l = at[p]
    OBVIOUS
  <2>2. Local(l) /\ l.pc = "closing" /\ l.pc \in Closing /\ active.ver \in Nat
    BY <2>1 DEF CampInv, DeactivateWrites, Documents, Closing
  <2>3. PICK x \in {"report", "cycles", "recordLaunch", "recordError", "idle"} :
            /\ To(p, x)
            /\ x = "report" => at[p].found = "completed"
            /\ x = "cycles" => at[p].job = "cycle"
    BY <1>2, <2>1, <2>2, AfterCloseGoes
  <2> DEFINE changes == [pc |-> x]
  <2>4. PICK n : n = Changed(l, changes)
    OBVIOUS
  <2>5. Local(n) /\ n.pc # "closing" /\ n.camp = l.camp
    BY <2>1, <2>2, <2>3, <2>4, ClosedLocal
  <2>6. active = [camp |-> active.camp, status |-> active.status, ver |-> active.ver]
    BY DEF CampInv, Documents
  <2>7. active' = [camp |-> active.camp, status |-> "closed", ver |-> active.ver + 1]
    BY <1>2, <2>6
  <2>8. /\ active'.ver = active.ver + 1
        /\ active' \in [camp : 0..MaxCampaigns, status : {"active", "closed"}, ver : Nat]
    BY <2>2, <2>7 DEF CampInv, Documents
  <2>9. Local(n)' /\ \A q \in Procs \ {p} : \A k : k = at[q] => Local(k)'
    <3>1. Local(n)'
      BY <1>0, <2>2, <2>5, <2>8, AuthorizationWritten
    <3>2. ASSUME NEW q \in Procs \ {p}, NEW k, k = at[q] PROVE Local(k)'
      <4>1. Local(k) /\ k.auth \in Nat
        BY <3>2 DEF CampInv, Local, LocalType
      <4>2. k.pc = "closing" => k.auth # active'.ver
        BY <2>2, <2>8, <4>1 DEF Local, Holds
      <4> QED BY <1>0, <2>2, <2>8, <4>1, <4>2, AuthorizationWritten
    <3> QED BY <3>1, <3>2
  <2>10. Documents' /\ InOrder' /\ Named' /\ DecisionIsBacked'
    BY <1>0, <2>8, AuthorizationTyped
  <2>11. Goto(p, changes) /\ n = Changed(at[p], changes)
    BY <2>1, <2>3, <2>4 DEF To
  <2>12. at' = [at EXCEPT ![p] = IF n.pc = "idle" THEN Idle ELSE n]
    BY <2>11, GoesTo
  <2>13. \A q \in Procs \ {p} : at[q].pc \in Closing => at[q].camp # n.camp
    BY <2>1, <2>2, <2>5 DEF CampInv, OneCloser
  <2> HIDE DEF changes
  <2> QED BY <2>5, <2>9, <2>10, <2>12, <2>13, DocStep
<1> QED BY <1>1, <1>2 DEF DeactivateWrites

\* A write of one campaign document.
LEMMA CampaignWritten ==
    ASSUME CampInv, NEW c \in Ids, NEW f \in Statuses, NEW r \in 0..Len(reports), UNCHANGED reports,
           camps' = [camps EXCEPT ![c] = [status |-> f, ver |-> camps[c].ver + 1, report |-> r]]
    PROVE  /\ camps' \in [Ids -> [status : Statuses, ver : Nat, report : 0..Len(reports')]]
           /\ camps'[c].status = f /\ camps'[c].ver = camps[c].ver + 1 /\ camps'[c].report = r
           /\ camps[c].ver \in Nat
           /\ \A d \in Ids : d # c => camps'[d] = camps[d]
<1>1. camps \in [Ids -> [status : Statuses, ver : Nat, report : 0..Len(reports)]]
  BY DEF CampInv, Documents
<1>2. camps[c].ver \in Nat
  BY <1>1
<1>3. [status |-> f, ver |-> camps[c].ver + 1, report |-> r]
          \in [status : Statuses, ver : Nat, report : 0..Len(reports')]
  BY <1>2
<1> QED BY <1>1, <1>2, <1>3

\* The campaigns that are known stay known when a known one is written.
LEMMA StaysKnown ==
    ASSUME NEW c \in Known, camps'[c].status # "none",
           \A d \in Ids : d # c => camps'[d] = camps[d]
    PROVE  Known' = Known
  BY DEF Known

\* What a process knows survives a write of a campaign that it does not close.
LEMMA CampaignKept ==
    ASSUME NEW c \in Ids, UNCHANGED <<active, reports>>, Known \subseteq Known',
           camps[c].ver \in Nat, camps'[c].ver = camps[c].ver + 1,
           \A d \in Ids : d # c => camps'[d] = camps[d],
           NEW l, Local(l), l.pc \in Closing => l.camp # c
    PROVE  Local(l)'
<1>1. l.pc \in InCycle \union Closing => l.camp \in Ids
  BY DEF Local, Knows, Working, Known
<1>2. Current(l)'
  BY <1>1 DEF Local, LocalType, Current
<1>3. Closes(l)'
  BY <1>1 DEF Local, Closes
<1> QED BY <1>2, <1>3 DEF Local, LocalType, Knows, Holds, Binds

\* A cycle saves what it found with the version it began with.
LEMMA SaveInv == ASSUME Constants, CampInv, NEW p \in Procs, Save(p) PROVE CampInv'
<1>0. UNCHANGED <<active, plans, reports, decisions, due>>
  BY DEF Save
<1>1. CASE Raises(p) /\ UNCHANGED camps
  BY <1>0, <1>1, RaiseStep
<1>2. CASE /\ camps[at[p].camp].ver = at[p].ver
           /\ Put(at[p].camp, at[p].found, camps[at[p].camp].report)
           /\ IF at[p].found \in Terminal THEN To(p, "close") ELSE Returns(p)
  <2>1. PICK l : l = at[p]
    OBVIOUS
  <2>2. PICK c : c = l.camp
    OBVIOUS
  <2>3. Local(l) /\ l.pc = "save" /\ c \in Known /\ c \in Ids
    BY <2>1, <2>2 DEF CampInv, Save, Local, Knows, Working, InCycle, Known
  <2>4. camps[c].ver = l.ver /\ camps[c].status \notin Terminal
    BY <1>2, <2>1, <2>2, <2>3 DEF Local, Current, InCycle
  <2>5. camps[c].report = 0 /\ decisions[c].report = 0
    <3>1. camps[c].report = 0
      BY <2>3, <2>4 DEF CampInv, Named, Terminal
    <3>2. decisions[c].report = 0
      BY <2>3, <2>4 DEF CampInv, DecisionIsBacked, Terminal
    <3> QED BY <3>1, <3>2
  <2>6. PICK f : f = l.found
    OBVIOUS
  <2>7. f \in {"running", "completed", "blocked"} /\ f \in Statuses /\ f # "none"
    BY <2>3, <2>6 DEF Local, LocalType, Statuses, Terminal
  <2>8. camps' = [camps EXCEPT ![c] = [status |-> f, ver |-> camps[c].ver + 1, report |-> 0]]
    BY <1>2, <2>1, <2>2, <2>5, <2>6 DEF Put
  <2>9. 0 \in 0..Len(reports)
    BY DEF CampInv, Documents
  <2>10. /\ camps' \in [Ids -> [status : Statuses, ver : Nat, report : 0..Len(reports')]]
         /\ camps'[c].status = f /\ camps'[c].ver = camps[c].ver + 1 /\ camps'[c].report = 0
         /\ camps[c].ver \in Nat
         /\ \A d \in Ids : d # c => camps'[d] = camps[d]
    BY <1>0, <2>3, <2>7, <2>8, <2>9, CampaignWritten
  <2>11. Known' = Known
    BY <2>3, <2>7, <2>10, StaysKnown
  <2>12. Documents' /\ InOrder' /\ Named' /\ DecisionIsBacked'
    <3>1. Documents'
      BY <1>0, <2>10 DEF CampInv, Documents
    <3>2. Named' /\ DecisionIsBacked'
      BY <1>0, <2>5, <2>10 DEF CampInv, Named, DecisionIsBacked
    <3> QED BY <2>11, <3>1, <3>2 DEF CampInv, InOrder
  <2>13. \A q \in Procs : at[q].pc \in Closing => at[q].camp # c
    BY <2>4 DEF CampInv, Local, Closes
  <2>14. \A q \in Procs \ {p} : \A k : k = at[q] => Local(k)'
    <3>1. ASSUME NEW q \in Procs \ {p}, NEW k, k = at[q] PROVE Local(k)'
      <4>1. Local(k) /\ (k.pc \in Closing => k.camp # c)
        BY <2>13, <3>1 DEF CampInv
      <4> QED BY <1>0, <2>3, <2>10, <2>11, <4>1, CampaignKept
    <3> QED BY <3>1
  <2>15. PICK x \in {"close", "cycles", "recordLaunch", "recordError", "idle"} :
             /\ To(p, x)
             /\ x = "close" => f \in Terminal
             /\ x = "cycles" => l.job = "cycle"
    <3>1. CASE f \in Terminal /\ To(p, "close")
      BY <3>1
    <3>2. CASE Returns(p)
      <4>1. To(p, Return(p))
        BY <3>2 DEF Returns
      <4>2. LocalType(at[p])
        BY <2>1, <2>3 DEF Local
      <4> QED BY <2>1, <4>1, <4>2, ReturnLabel
    <3> QED BY <1>2, <2>1, <2>6, <3>1, <3>2
  <2> DEFINE changes == [pc |-> x]
  <2>16. PICK n : n = Changed(l, changes)
    OBVIOUS
  <2>17. /\ n.pc = x /\ n.job = l.job /\ n.todo = l.todo /\ n.camp = c /\ n.ver = l.ver
         /\ n.auth = l.auth /\ n.found = f /\ n.listed = l.listed /\ DOMAIN n = DOMAIN l
    BY <2>2, <2>3, <2>6, <2>16, Fields DEF Changed, Local, LocalType
  <2>18. LocalType(n)
    BY <2>2, <2>3, <2>6, <2>15, <2>17 DEF Local, LocalType, Labels
  <2>19. Local(n)'
    <3>1. LocalType(n)'
      BY <2>18 DEF LocalType
    <3>2. Knows(n)'
      BY <2>3, <2>11, <2>17 DEF Local, Knows
    <3>3. Current(n)' /\ Holds(n)' /\ Binds(n)'
      BY <2>15, <2>17 DEF Current, Holds, Binds, InCycle
    <3>4. Closes(n)'
      BY <2>10, <2>15, <2>17 DEF Closes, Closing
    <3> QED BY <3>1, <3>2, <3>3, <3>4 DEF Local
  <2>20. Goto(p, changes) /\ n = Changed(at[p], changes)
    BY <2>1, <2>15, <2>16 DEF To
  <2>21. at' = [at EXCEPT ![p] = IF n.pc = "idle" THEN Idle ELSE n]
    BY <2>20, GoesTo
  <2> HIDE DEF changes
  <2> QED BY <2>12, <2>13, <2>14, <2>17, <2>19, <2>21, DocStep
<1> QED BY <1>1, <1>2 DEF Save

\* The closer binds the report it made.
LEMMA BindInv == ASSUME Constants, CampInv, NEW p \in Procs, Bind(p) PROVE CampInv'
<1>0. UNCHANGED <<active, plans, reports, decisions, due>>
  BY DEF Bind
<1>1. CASE Raises(p) /\ UNCHANGED camps
  BY <1>0, <1>1, RaiseStep
<1>2. CASE Put(at[p].camp, camps[at[p].camp].status, at[p].report) /\ Returns(p)
  <2>1. PICK l : l = at[p]
    OBVIOUS
  <2>2. PICK c : c = l.camp
    OBVIOUS
  <2>3. PICK r : r = l.report
    OBVIOUS
  <2>4. Local(l) /\ l.pc = "bind" /\ l.pc \in Closing /\ c \in Known /\ c \in Ids
    BY <2>1, <2>2 DEF CampInv, Bind, Local, Knows, Working, Closing, Known
  <2>5. /\ camps[c].status = "completed" /\ camps[c].report = 0
        /\ r \in 1..Len(reports) /\ reports[r].camp = c
    BY <2>2, <2>3, <2>4 DEF Local, Closes, Binds
  <2>6. decisions[c].report = 0
    BY <2>4, <2>5 DEF CampInv, DecisionIsBacked, Documents
  <2>7. r \in 0..Len(reports) /\ "completed" \in Statuses
    BY <2>5 DEF CampInv, Documents, Statuses, Terminal
  <2>8. camps' = [camps EXCEPT ![c] = [status |-> "completed", ver |-> camps[c].ver + 1, report |-> r]]
    BY <1>2, <2>1, <2>2, <2>3, <2>5 DEF Put
  <2>9. /\ camps' \in [Ids -> [status : Statuses, ver : Nat, report : 0..Len(reports')]]
        /\ camps'[c].status = "completed" /\ camps'[c].ver = camps[c].ver + 1
        /\ camps'[c].report = r /\ camps[c].ver \in Nat
        /\ \A d \in Ids : d # c => camps'[d] = camps[d]
    BY <1>0, <2>4, <2>7, <2>8, CampaignWritten
  <2>10. Known' = Known
    BY <2>4, <2>9, StaysKnown
  <2>11. Documents' /\ InOrder' /\ Named' /\ DecisionIsBacked'
    <3>1. Documents'
      BY <1>0, <2>9 DEF CampInv, Documents
    <3>2. Named' /\ DecisionIsBacked'
      BY <1>0, <2>5, <2>6, <2>9 DEF CampInv, Named, DecisionIsBacked
    <3> QED BY <2>10, <3>1, <3>2 DEF CampInv, InOrder
  <2>12. \A q \in Procs \ {p} : \A k : k = at[q] => Local(k)'
    <3>1. ASSUME NEW q \in Procs \ {p}, NEW k, k = at[q] PROVE Local(k)'
      <4>1. Local(k) /\ (k.pc \in Closing => k.camp # c)
        BY <2>1, <2>2, <2>4, <3>1 DEF CampInv, OneCloser
      <4> QED BY <1>0, <2>4, <2>9, <2>10, <4>1, CampaignKept
    <3> QED BY <3>1
  <2>13. LocalType(at[p])
    BY <2>1, <2>4 DEF Local
  <2>14. PICK x : x = Return(p)
    OBVIOUS
  <2>15. x \in {"cycles", "recordLaunch", "recordError", "idle"} /\ (x = "cycles" => at[p].job = "cycle")
    BY <2>13, <2>14, ReturnLabel
  <2> DEFINE changes == [pc |-> x]
  <2>16. PICK n : n = Changed(at[p], changes)
    OBVIOUS
  <2>17. LocalType(n) /\ n.pc \notin Working /\ n.job = l.job /\ n.todo = l.todo
    BY <2>1, <2>13, <2>15, <2>16, Leaves
  <2>18. Local(n)'
    <3>1. LocalType(n)'
      BY <2>17 DEF LocalType
    <3>2. Knows(n)'
      BY <2>4, <2>10, <2>17 DEF Local, Knows
    <3> QED BY <2>17, <3>1, <3>2 DEF Local, Current, Closes, Holds, Binds, Working, InCycle, Closing
  <2>19. Goto(p, changes)
    BY <1>2, <2>14 DEF Returns, To
  <2>20. at' = [at EXCEPT ![p] = IF n.pc = "idle" THEN Idle ELSE n] /\ n.pc \notin Closing
    BY <2>16, <2>17, <2>19, GoesTo DEF Working
  <2> HIDE DEF changes
  <2> QED BY <2>11, <2>12, <2>18, <2>20, DocStep
<1> QED BY <1>1, <1>2 DEF Bind

\* A report is added to the others.
LEMMA ReportAdded ==
    ASSUME CampInv, NEW c \in Ids, NewReport(c), UNCHANGED <<camps, active, plans, due, decisions>>
    PROVE  /\ Len(reports') = Len(reports) + 1 /\ Len(reports) \in Nat
           /\ reports'[Len(reports')].camp = c
           /\ \A r \in 1..Len(reports) : reports'[r] = reports[r]
           /\ Documents' /\ InOrder' /\ Named' /\ DecisionIsBacked' /\ Known' = Known
<1>1. PICK e \in BOOLEAN : reports' = Append(reports, [camp |-> c, eligible |-> e])
  BY DEF NewReport
<1>2. reports \in Seq([camp : Ids, eligible : BOOLEAN]) /\ Len(reports) \in Nat
  BY DEF CampInv, Documents
<1>3. /\ reports' \in Seq([camp : Ids, eligible : BOOLEAN])
      /\ Len(reports') = Len(reports) + 1
      /\ reports'[Len(reports')] = [camp |-> c, eligible |-> e]
      /\ \A r \in 1..Len(reports) : reports'[r] = reports[r]
  BY <1>1, <1>2
<1>4. Known' = Known
  BY DEF Known
<1>5. 0..Len(reports) \subseteq 0..Len(reports')
  BY <1>2, <1>3
<1>6. Documents'
  <2>1. camps' \in [Ids -> [status : Statuses, ver : Nat, report : 0..Len(reports')]]
    <3>1. camps \in [Ids -> [status : Statuses, ver : Nat, report : 0..Len(reports)]]
      BY DEF CampInv, Documents
    <3> QED BY <1>5, <3>1
  <2>2. decisions' \in [Ids -> [report : 0..Len(reports'), approved : BOOLEAN]]
    <3>1. decisions \in [Ids -> [report : 0..Len(reports), approved : BOOLEAN]]
      BY DEF CampInv, Documents
    <3> QED BY <1>5, <3>1
  <2> QED BY <1>3, <2>1, <2>2 DEF CampInv, Documents
<1>7. \A d \in Ids : camps[d].report # 0 => camps[d].report \in 1..Len(reports)
  BY <1>2 DEF CampInv, Documents
<1>8. Named' /\ DecisionIsBacked'
  BY <1>3, <1>7 DEF CampInv, Named, DecisionIsBacked
<1> QED BY <1>2, <1>3, <1>4, <1>6, <1>8 DEF CampInv, InOrder

\* ... and takes none away.
LEMMA ReportKept ==
    ASSUME UNCHANGED <<camps, active>>, Len(reports) \in Nat, Len(reports') = Len(reports) + 1,
           \A r \in 1..Len(reports) : reports'[r] = reports[r], NEW l, Local(l)
    PROVE  Local(l)'
<1>1. Known' = Known
  BY DEF Known
<1>2. Binds(l)'
  BY DEF Local, Binds
<1> QED BY <1>1, <1>2 DEF Local, LocalType, Knows, Current, Closes, Holds

\* The closer of a completed campaign makes its report.
LEMMA GenerateInv == ASSUME Constants, CampInv, NEW p \in Procs, Generate(p) PROVE CampInv'
<1>0. UNCHANGED <<camps, active, plans, due, decisions>>
  BY DEF Generate
<1>1. PICK l : l = at[p]
  OBVIOUS
<1>2. PICK c : c = l.camp
  OBVIOUS
<1>3. Local(l) /\ l.pc = "report" /\ l.pc \in Closing /\ c \in Known /\ c \in Ids
  BY <1>1, <1>2 DEF CampInv, Generate, Local, Knows, Working, Closing, Known
<1>4. /\ Len(reports') = Len(reports) + 1 /\ Len(reports) \in Nat
      /\ reports'[Len(reports')].camp = c
      /\ \A r \in 1..Len(reports) : reports'[r] = reports[r]
      /\ Documents' /\ InOrder' /\ Named' /\ DecisionIsBacked' /\ Known' = Known
  <2>1. NewReport(c)
    BY <1>1, <1>2 DEF Generate
  <2> QED BY <1>0, <1>3, <2>1, ReportAdded
<1>5. PICK r : r = Len(reports')
  OBVIOUS
<1>6. PICK v : v = camps[c].ver
  OBVIOUS
<1> DEFINE changes == [pc |-> "bind", report |-> r, ver |-> v]
<1>7. PICK n : n = Changed(l, changes)
  OBVIOUS
<1>8. /\ n.pc = "bind" /\ n.job = l.job /\ n.todo = l.todo /\ n.camp = c /\ n.ver = v
      /\ n.auth = l.auth /\ n.found = l.found /\ n.listed = l.listed /\ n.report = r
      /\ DOMAIN n = DOMAIN l
  BY <1>2, <1>3, <1>7, Fields DEF Changed, Local, LocalType
<1>9. v \in Nat
  BY <1>3, <1>6 DEF CampInv, Documents
<1>10. LocalType(n)
  BY <1>2, <1>3, <1>8, <1>9 DEF Local, LocalType, Labels
<1>11. Local(n)'
  <2>1. LocalType(n)'
    BY <1>10 DEF LocalType
  <2>2. Knows(n)'
    BY <1>3, <1>4, <1>8 DEF Local, Knows
  <2>3. Current(n)' /\ Holds(n)'
    BY <1>8 DEF Current, Holds, InCycle
  <2>4. Closes(n)'
    BY <1>0, <1>2, <1>3, <1>8 DEF Local, Closes
  <2>5. Binds(n)'
    BY <1>4, <1>5, <1>8 DEF Binds
  <2> QED BY <2>1, <2>2, <2>3, <2>4, <2>5 DEF Local
<1>12. \A q \in Procs \ {p} : \A k : k = at[q] => Local(k)'
  <2>1. ASSUME NEW q \in Procs \ {p}, NEW k, k = at[q] PROVE Local(k)'
    <3>1. Local(k)
      BY <2>1 DEF CampInv
    <3> QED BY <1>0, <1>4, <3>1, ReportKept
  <2> QED BY <2>1
<1>13. Goto(p, changes) /\ n = Changed(at[p], changes)
  BY <1>1, <1>2, <1>5, <1>6, <1>7 DEF Generate
<1>14. at' = [at EXCEPT ![p] = IF n.pc = "idle" THEN Idle ELSE n]
  BY <1>13, GoesTo
<1>15. \A q \in Procs \ {p} : at[q].pc \in Closing => at[q].camp # n.camp
  BY <1>1, <1>2, <1>3, <1>8 DEF CampInv, OneCloser
<1> HIDE DEF changes
<1> QED BY <1>4, <1>11, <1>12, <1>14, <1>15, DocStep

\* A request's report.
LEMMA PostReportInv == ASSUME Constants, CampInv, NEW c \in Ids, PostReport(c) PROVE CampInv'
<1>1. UNCHANGED <<camps, active, plans, due, decisions, at>> /\ NewReport(c)
  BY DEF PostReport
<1>2. /\ Len(reports') = Len(reports) + 1 /\ Len(reports) \in Nat
      /\ \A r \in 1..Len(reports) : reports'[r] = reports[r]
      /\ Documents' /\ InOrder' /\ Named' /\ DecisionIsBacked'
  BY <1>1, ReportAdded
<1>3. ASSUME NEW p \in Procs PROVE Local(at[p])'
  <2>1. PICK l : l = at[p]
    OBVIOUS
  <2>2. Local(l)
    BY <2>1 DEF CampInv
  <2>3. Local(l)'
    BY <1>1, <1>2, <2>2, ReportKept
  <2> QED BY <1>1, <2>1, <2>3 DEF Local, LocalType, Knows, Current, Closes, Holds, Binds
<1> QED BY <1>1, <1>2, <1>3 DEF CampInv, OneCloser

\* The owner decides on the report that the campaign names.
LEMMA DecideInv ==
    ASSUME Constants, CampInv, NEW c \in Ids, NEW b \in BOOLEAN, Decide(c, b) PROVE CampInv'
<1>1. /\ UNCHANGED <<camps, active, plans, due, reports, at>>
      /\ camps[c].status = "completed" /\ camps[c].report # 0
      /\ b => reports[camps[c].report].eligible
      /\ decisions' = [decisions EXCEPT ![c] = [report |-> camps[c].report, approved |-> b]]
  BY DEF Decide
<1>2. /\ decisions \in [Ids -> [report : 0..Len(reports), approved : BOOLEAN]]
      /\ camps[c].report \in 0..Len(reports) /\ reports[camps[c].report].camp = c
  BY <1>1 DEF CampInv, Documents, Named
<1>3. Documents'
  BY <1>1, <1>2 DEF CampInv, Documents
<1>4. DecisionIsBacked'
  BY <1>1, <1>2 DEF CampInv, DecisionIsBacked
<1>5. Known' = Known
  BY <1>1 DEF Known
<1>6. InOrder' /\ Named' /\ \A p \in Procs : Local(at[p])'
  BY <1>1, <1>5
     DEF CampInv, InOrder, Named, Local, LocalType, Knows, Current, Closes, Holds, Binds
<1> QED BY <1>1, <1>3, <1>4, <1>6 DEF CampInv, OneCloser

\* The documents outlive the process.
LEMMA CrashInv == ASSUME Constants, CampInv, Crash PROVE CampInv'
<1>1. UNCHANGED <<camps, active, plans, due, reports, decisions>> /\ at' = [p \in Procs |-> Idle]
  BY DEF Crash, docs
<1>2. Known' = Known
  BY <1>1 DEF Known
<1>3. Documents' /\ InOrder' /\ Named' /\ DecisionIsBacked'
  BY <1>1, <1>2 DEF CampInv, Documents, InOrder, Named, DecisionIsBacked
<1>4. Local(Idle)' /\ Idle.pc \notin Closing
  <2>1. Local(Idle) /\ Idle.pc = "idle" /\ Idle.job = "request"
    BY IdleLocal DEF Idle
  <2>2. LocalType(Idle)'
    BY <2>1 DEF Local, LocalType
  <2> QED
    BY <2>1, <2>2 DEF Local, Knows, Current, Closes, Holds, Binds, Working, InCycle, Closing
<1>5. \A p \in Procs : Local(at[p])'
  BY <1>1, <1>4 DEF Local, LocalType, Knows, Current, Closes, Holds, Binds
<1> QED BY <1>1, <1>3, <1>4, <1>5 DEF CampInv, OneCloser

\* A campaign is created under an id that nothing names yet.
LEMMA CampaignCreated ==
    ASSUME Constants, CampInv, NEW c \in Ids, NewCampaign(c),
           UNCHANGED <<active, plans, reports, decisions, due>>
    PROVE  /\ Documents' /\ InOrder' /\ Named' /\ DecisionIsBacked'
           /\ c \in Known' /\ c \notin Known /\ Known \subseteq Known'
           /\ camps[c].ver \in Nat /\ camps'[c].ver = camps[c].ver + 1
           /\ \A d \in Ids : d # c => camps'[d] = camps[d]
<1>1. PICK k \in 0..MaxCampaigns : Known = 1..k
  BY DEF CampInv, InOrder
<1>2. k \in Nat
  BY <1>1 DEF Constants
<1>3. Cardinality(Known) = k
  BY <1>1, <1>2, FS_Interval
<1>4. c = k + 1 /\ c \notin Known
  BY <1>1, <1>2, <1>3 DEF NewCampaign
<1>5. camps[c].status = "none" /\ camps[c].report = 0 /\ decisions[c].report = 0
  <2>1. camps[c].status = "none"
    BY <1>4 DEF Known
  <2> QED BY <2>1 DEF CampInv, Named, DecisionIsBacked
<1>6. /\ camps' \in [Ids -> [status : Statuses, ver : Nat, report : 0..Len(reports')]]
      /\ camps'[c].status = "scheduled" /\ camps'[c].ver = camps[c].ver + 1
      /\ camps'[c].report = 0 /\ camps[c].ver \in Nat
      /\ \A d \in Ids : d # c => camps'[d] = camps[d]
  <2>1. 0 \in 0..Len(reports) /\ "scheduled" \in Statuses
    BY DEF CampInv, Documents, Statuses
  <2>2. camps' = [camps EXCEPT ![c] = [status |-> "scheduled", ver |-> camps[c].ver + 1,
                                       report |-> 0]]
    BY DEF NewCampaign, Put
  <2> QED BY <2>1, <2>2, CampaignWritten
<1>7. Known' = Known \union {c}
  BY <1>6 DEF Known
<1>8. InOrder'
  <2>1. Known' = 1..(k + 1)
    BY <1>1, <1>2, <1>4, <1>7
  <2>2. k + 1 \in 0..MaxCampaigns
    BY <1>2, <1>4 DEF Ids, Constants
  <2> QED BY <2>1, <2>2 DEF InOrder
<1>9. Documents'
  BY <1>6 DEF CampInv, Documents
<1>10. Named' /\ DecisionIsBacked'
  BY <1>5, <1>6 DEF CampInv, Named, DecisionIsBacked
<1> QED BY <1>4, <1>6, <1>7, <1>8, <1>9, <1>10

\* The process that creates one goes on to authorize it.
LEMMA CreatedStep ==
    ASSUME Constants, CampInv, NEW c \in Ids, NewCampaign(c),
           UNCHANGED <<active, plans, reports, decisions, due>>,
           NEW p \in Procs, NEW changes, Goto(p, changes), NEW n, n = Changed(at[p], changes),
           LocalType(n), n.pc = "startActivate", n.camp = c,
           n.job = "cycle" => at[p].job = "cycle" /\ n.todo = at[p].todo
    PROVE  CampInv'
<1>1. /\ Documents' /\ InOrder' /\ Named' /\ DecisionIsBacked'
      /\ c \in Known' /\ c \notin Known /\ Known \subseteq Known'
      /\ camps[c].ver \in Nat /\ camps'[c].ver = camps[c].ver + 1
      /\ \A d \in Ids : d # c => camps'[d] = camps[d]
  BY CampaignCreated
<1>2. Local(n)'
  <2>1. LocalType(n)'
    BY DEF LocalType
  <2>2. Knows(n)'
    BY <1>1 DEF CampInv, Local, Knows
  <2> QED BY <2>1, <2>2 DEF Local, Current, Closes, Holds, Binds, InCycle, Closing
<1>3. \A q \in Procs \ {p} : \A k : k = at[q] => Local(k)'
  <2>1. ASSUME NEW q \in Procs \ {p}, NEW k, k = at[q] PROVE Local(k)'
    <3>1. Local(k)
      BY <2>1 DEF CampInv
    <3>2. k.pc \in Closing => k.camp # c
      BY <1>1, <3>1 DEF Local, Knows, Working
    <3> QED BY <1>1, <3>1, <3>2, CampaignKept
  <2> QED BY <2>1
<1>4. at' = [at EXCEPT ![p] = IF n.pc = "idle" THEN Idle ELSE n] /\ n.pc \notin Closing
  BY GoesTo DEF Closing
<1> QED BY <1>1, <1>2, <1>3, <1>4, DocStep

\* A due schedule launches a campaign.
LEMMA LaunchInv == ASSUME Constants, CampInv, NEW p \in Procs, Launch(p) PROVE CampInv'
<1>1. PICK s \in DOMAIN at[p].listed, c \in Ids :
          /\ NewCampaign(c)
          /\ Goto(p, [pc |-> "startActivate", job |-> "launch", camp |-> c, todo |-> {s}])
  BY DEF Launch
<1>2. UNCHANGED <<active, plans, reports, decisions, due>>
  BY DEF Launch
<1> DEFINE changes == [pc |-> "startActivate", job |-> "launch", camp |-> c, todo |-> {s}]
<1>3. PICK l : l = at[p]
  OBVIOUS
<1>4. PICK n : n = Changed(l, changes)
  OBVIOUS
<1>5. Local(l)
  BY <1>3 DEF CampInv
<1>6. /\ n.pc = "startActivate" /\ n.job = "launch" /\ n.todo = {s} /\ n.camp = c /\ n.ver = l.ver
      /\ n.auth = l.auth /\ n.found = l.found /\ n.listed = l.listed /\ DOMAIN n = DOMAIN l
  BY <1>4, <1>5, Fields DEF Changed, Local, LocalType
<1>7. LocalType(n)
  BY <1>5, <1>6 DEF Local, LocalType, Labels, Ids, Constants
<1>8. Goto(p, changes) /\ n = Changed(at[p], changes)
  BY <1>1, <1>3, <1>4
<1> HIDE DEF changes
<1> QED BY <1>1, <1>2, <1>6, <1>7, <1>8, CreatedStep

\* The operator's first campaign.
LEMMA FirstStartInv == ASSUME Constants, CampInv, NEW p \in Procs, FirstStart(p) PROVE CampInv'
<1>1. PICK c \in Ids : NewCampaign(c) /\ Goto(p, [pc |-> "startActivate", camp |-> c])
  BY DEF FirstStart
<1>2. UNCHANGED <<active, plans, reports, decisions, due>>
  BY DEF FirstStart
<1> DEFINE changes == [pc |-> "startActivate", camp |-> c]
<1>3. PICK l : l = at[p]
  OBVIOUS
<1>4. PICK n : n = Changed(l, changes)
  OBVIOUS
<1>5. Local(l)
  BY <1>3 DEF CampInv
<1>6. /\ n.pc = "startActivate" /\ n.job = l.job /\ n.todo = l.todo /\ n.camp = c /\ n.ver = l.ver
      /\ n.auth = l.auth /\ n.found = l.found /\ n.listed = l.listed /\ DOMAIN n = DOMAIN l
  BY <1>4, <1>5, Fields DEF Changed, Local, LocalType
<1>7. LocalType(n)
  BY <1>5, <1>6 DEF Local, LocalType, Labels, Ids, Constants
<1>8. Goto(p, changes) /\ n = Changed(at[p], changes)
  BY <1>1, <1>3, <1>4
<1>9. n.job = "cycle" => at[p].job = "cycle" /\ n.todo = at[p].todo
  BY <1>3, <1>6
<1> HIDE DEF changes
<1> QED BY <1>1, <1>2, <1>6, <1>7, <1>8, <1>9, CreatedStep

----------------------------------------------------------------------------
\* The first documents: no campaign, no report, no decision.
LEMMA CampInit == ASSUME Constants, CampaignInit PROVE CampInv
<1>1. /\ \A c \in Ids : /\ camps[c] = [status |-> "none", ver |-> 0, report |-> 0]
                        /\ decisions[c] = Undecided
      /\ reports = <<>> /\ at = [p \in Procs |-> Idle]
  BY DEF CampaignInit
<1>2. Documents
  <2>1. 0 \in 0..MaxCampaigns /\ 0 \in 0..Len(reports)
    BY <1>1 DEF Constants
  <2>2. camps \in [Ids -> [status : Statuses, ver : Nat, report : 0..Len(reports)]]
    BY <2>1 DEF CampaignInit, Statuses
  <2>3. decisions \in [Ids -> [report : 0..Len(reports), approved : BOOLEAN]]
    BY <2>1 DEF CampaignInit, Undecided
  <2>4. plans \in [Schedules -> [last : 0..MaxCampaigns, runs : Nat, ver : Nat]]
    BY <2>1 DEF CampaignInit
  <2> QED BY <1>1, <2>1, <2>2, <2>3, <2>4 DEF Documents, CampaignInit
<1>3. Named /\ DecisionIsBacked /\ Known = {}
  BY <1>1 DEF Named, DecisionIsBacked, Known, Undecided
<1>4. InOrder
  <2>1. Known = 1..0 /\ 0 \in 0..MaxCampaigns
    BY <1>3 DEF Constants
  <2> QED BY <2>1 DEF InOrder
<1>5. Idle.pc \notin Closing
  BY DEF Idle, Closing
<1> QED BY <1>1, <1>2, <1>3, <1>4, <1>5, IdleLocal DEF CampInv, OneCloser

\* Every step keeps the invariant.
LEMMA CampNext == ASSUME Constants, CampInv, [CampaignNext]_campaignVars PROVE CampInv'
<1>1. ASSUME NEW p \in Procs, Step(p) \/ TickBegins(p) \/ PlanPasses(p) PROVE CampInv'
  BY <1>1, TickBeginsInv, PlanPassesInv, TickCycleInv, CycleReadsInv, ActivateReadsInv,
     ActivateWritesInv, EvaluateInv, SaveInv, DeactivateReadsInv, DeactivateWritesInv, GenerateInv,
     BindInv, RefreshInv, DeferInv, LaunchInv, RecordLaunchInv, RecordErrorInv, TickEndsInv,
     FirstStartInv DEF Step
<1>2. ASSUME NEW p \in Procs, NEW c \in Ids, RunBegins(p, c) PROVE CampInv'
  BY <1>2, RunBeginsInv
<1>3. ASSUME NEW s \in Schedules, CreateSchedule(s) \/ IntervalPasses(s) PROVE CampInv'
  BY <1>3, DueInv
<1>4. ASSUME NEW c \in Ids, PostReport(c) \/ Decide(c, TRUE) \/ Decide(c, FALSE) PROVE CampInv'
  BY <1>4, PostReportInv, DecideInv
<1>5. CASE Crash
  BY <1>5, CrashInv
<1>6. CASE UNCHANGED campaignVars
  <2>1. UNCHANGED <<camps, active, plans, due, reports, decisions, at>>
    BY <1>6 DEF campaignVars, docs
  <2>2. Known' = Known
    BY <2>1 DEF Known
  <2> QED
    BY <2>1, <2>2 DEF CampInv, Documents, InOrder, Named, DecisionIsBacked, OneCloser,
                      Local, LocalType, Knows, Current, Closes, Holds, Binds
<1> QED BY <1>1, <1>2, <1>3, <1>4, <1>5, <1>6 DEF CampaignNext

\* The invariant says what the campaign promises.
LEMMA CampPromises == ASSUME CampInv PROVE CampaignTypeOK /\ DecisionIsBacked
<1>1. \A n \in 1..Len(reports) : reports[n] \in [camp : Ids, eligible : BOOLEAN]
  <2> DEFINE S == [camp : Ids, eligible : BOOLEAN]
  <2>1. reports \in Seq(S)
    BY DEF CampInv, Documents
  <2> HIDE DEF S
  <2>2. \A n \in 1..Len(reports) : reports[n] \in S
    BY <2>1
  <2> QED BY <2>2 DEF S
<1>2. \A p \in Procs : DOMAIN at[p] = DOMAIN Idle
  BY DEF CampInv, Local, LocalType
<1> QED BY <1>1, <1>2 DEF CampInv, Documents, CampaignTypeOK

\* Only a save, a binding and a creation write campaigns.
LEMMA CampaignWriters ==
    ASSUME [CampaignNext]_campaignVars
    PROVE  \/ camps' = camps
           \/ \E p \in Procs : Save(p) /\ camps[at[p].camp].ver = at[p].ver
           \/ \E p \in Procs : Bind(p)
           \/ \E c \in Ids : /\ NewCampaign(c)
                             /\ UNCHANGED <<active, plans, reports, decisions, due>>
<1>1. ASSUME NEW p \in Procs, Save(p)
      PROVE  camps' = camps \/ camps[at[p].camp].ver = at[p].ver
  BY <1>1 DEF Save
<1>2. ASSUME NEW p \in Procs, Launch(p) \/ FirstStart(p)
      PROVE  \E c \in Ids : /\ NewCampaign(c)
                            /\ UNCHANGED <<active, plans, reports, decisions, due>>
  BY <1>2 DEF Launch, FirstStart
<1>3. ASSUME NEW p \in Procs,
             \/ TickCycle(p) \/ CycleReads(p) \/ ActivateReads(p) \/ ActivateWrites(p)
             \/ Evaluate(p) \/ DeactivateReads(p) \/ DeactivateWrites(p) \/ Generate(p)
      PROVE  camps' = camps
  BY <1>3 DEF TickCycle, CycleReads, ActivateReads, ActivateWrites, Evaluate, DeactivateReads,
              DeactivateWrites, Generate, docs
<1>4. ASSUME NEW p \in Procs,
             \/ Refresh(p) \/ Defer(p) \/ RecordLaunch(p) \/ RecordError(p) \/ TickEnds(p)
             \/ TickBegins(p) \/ PlanPasses(p)
      PROVE  camps' = camps
  BY <1>4 DEF Refresh, Defer, RecordLaunch, RecordError, TickEnds, TickBegins, PlanPasses, docs
<1>5. ASSUME NEW p \in Procs, NEW c \in Ids, RunBegins(p, c) PROVE camps' = camps
  BY <1>5 DEF RunBegins, docs
<1>6. ASSUME NEW s \in Schedules, CreateSchedule(s) \/ IntervalPasses(s) PROVE camps' = camps
  BY <1>6 DEF CreateSchedule, IntervalPasses, docs
<1>7. ASSUME NEW c \in Ids, PostReport(c) \/ Decide(c, TRUE) \/ Decide(c, FALSE)
      PROVE  camps' = camps
  BY <1>7 DEF PostReport, Decide
<1>8. CASE Crash \/ UNCHANGED campaignVars
  BY <1>8 DEF Crash, campaignVars, docs
<1> QED BY <1>1, <1>2, <1>3, <1>4, <1>5, <1>6, <1>7, <1>8 DEF CampaignNext, Step

\* No step changes the end of a campaign or the report it names.
LEMMA FinalNext == ASSUME Constants, CampInv, [CampaignNext]_campaignVars PROVE TerminalIsFinalStep
<1>1. CASE camps' = camps
  BY <1>1 DEF TerminalIsFinalStep
<1>2. ASSUME NEW p \in Procs, Save(p), camps[at[p].camp].ver = at[p].ver
      PROVE  TerminalIsFinalStep
  <2>1. PICK l : l = at[p]
    OBVIOUS
  <2>2. Local(l) /\ l.pc = "save"
    BY <2>1, <1>2 DEF CampInv, Save
  <2>3. camps[l.camp].status \notin Terminal
    BY <1>2, <2>1, <2>2 DEF Local, Current, InCycle
  <2>4. \A d \in Ids : d # l.camp => camps'[d] = camps[d]
    BY <1>2, <2>1 DEF Save, Put, CampInv, Documents
  <2> QED BY <2>3, <2>4 DEF TerminalIsFinalStep
<1>3. ASSUME NEW p \in Procs, Bind(p) PROVE TerminalIsFinalStep
  <2>1. PICK l : l = at[p]
    OBVIOUS
  <2>2. PICK c : c = l.camp
    OBVIOUS
  <2>3. Local(l) /\ l.pc = "bind"
    BY <2>1, <1>3 DEF CampInv, Bind
  <2>4. camps[c].report = 0 /\ c \in Ids
    BY <2>2, <2>3 DEF Local, Closes, Knows, Working, Closing, Known
  <2>5. camps' = camps \/ camps' = [camps EXCEPT ![c] = [status |-> camps[c].status,
                                        ver |-> camps[c].ver + 1, report |-> l.report]]
    BY <1>3, <2>1, <2>2 DEF Bind, Put
  <2>6. camps'[c].status = camps[c].status /\ \A d \in Ids : d # c => camps'[d] = camps[d]
    BY <2>4, <2>5 DEF CampInv, Documents
  <2> QED BY <2>4, <2>6 DEF TerminalIsFinalStep
<1>4. ASSUME NEW c \in Ids, NewCampaign(c), UNCHANGED <<active, plans, reports, decisions, due>>
      PROVE  TerminalIsFinalStep
  <2>1. c \notin Known /\ \A d \in Ids : d # c => camps'[d] = camps[d]
    BY <1>4, CampaignCreated
  <2>2. camps[c].status \notin Terminal
    BY <2>1 DEF Known, Terminal
  <2> QED BY <2>1, <2>2 DEF TerminalIsFinalStep
<1> QED BY <1>1, <1>2, <1>3, <1>4, CampaignWriters

\* No step closes the authorization of a campaign that has not ended.
LEMMA ClosesNext == ASSUME Constants, CampInv, [CampaignNext]_campaignVars PROVE ClosesOnlyTheEndedStep
<1>1. CASE active' = active
  BY <1>1 DEF ClosesOnlyTheEndedStep
<1>2. ASSUME NEW p \in Procs, ActivateWrites(p) PROVE ClosesOnlyTheEndedStep
  <2>1. active' = active \/ active'.status = "active"
    BY <1>2 DEF ActivateWrites
  <2> QED BY <2>1 DEF ClosesOnlyTheEndedStep
<1>3. ASSUME NEW p \in Procs, DeactivateWrites(p) PROVE ClosesOnlyTheEndedStep
  <2>1. PICK l : l = at[p]
    OBVIOUS
  <2>2. Local(l) /\ l.pc = "closing"
    BY <2>1, <1>3 DEF CampInv, DeactivateWrites
  <2>3. CASE active.ver = l.auth
    <3>1. active.camp = l.camp
      BY <2>2, <2>3 DEF Local, Holds
    <3>2. l.camp \in Ids /\ camps[l.camp].status \in Terminal
      BY <2>2 DEF Local, Closes, Knows, Working, Closing, Known
    <3> QED BY <3>1, <3>2 DEF ClosesOnlyTheEndedStep
  <2>4. CASE active.ver # l.auth
    <3>1. active' = active
      BY <1>3, <2>1, <2>4 DEF DeactivateWrites
    <3> QED BY <3>1 DEF ClosesOnlyTheEndedStep
  <2> QED BY <2>3, <2>4
<1>4. ASSUME NEW p \in Procs,
             \/ TickCycle(p) \/ CycleReads(p) \/ ActivateReads(p) \/ Evaluate(p) \/ Save(p)
             \/ DeactivateReads(p) \/ Generate(p) \/ Bind(p) \/ TickBegins(p) \/ PlanPasses(p)
      PROVE  active' = active
  BY <1>4 DEF TickCycle, CycleReads, ActivateReads, Evaluate, Save, DeactivateReads, Generate,
              Bind, TickBegins, PlanPasses, docs
<1>5. ASSUME NEW p \in Procs,
             \/ Refresh(p) \/ Defer(p) \/ Launch(p) \/ RecordLaunch(p) \/ RecordError(p)
             \/ TickEnds(p) \/ FirstStart(p)
      PROVE  active' = active
  BY <1>5 DEF Refresh, Defer, Launch, RecordLaunch, RecordError, TickEnds, FirstStart, docs
<1>6. ASSUME NEW p \in Procs, NEW c \in Ids, RunBegins(p, c) PROVE active' = active
  BY <1>6 DEF RunBegins, docs
<1>7. ASSUME NEW s \in Schedules, CreateSchedule(s) \/ IntervalPasses(s) PROVE active' = active
  BY <1>7 DEF CreateSchedule, IntervalPasses, docs
<1>8. ASSUME NEW c \in Ids, PostReport(c) \/ Decide(c, TRUE) \/ Decide(c, FALSE)
      PROVE  active' = active
  BY <1>8 DEF PostReport, Decide
<1>9. ASSUME Crash \/ UNCHANGED campaignVars PROVE active' = active
  BY <1>9 DEF Crash, campaignVars, docs
<1> QED BY <1>1, <1>2, <1>3, <1>4, <1>5, <1>6, <1>7, <1>8, <1>9 DEF CampaignNext, Step

\* For any processes, schedules, campaigns, requests and faults: an approval
\* rests on an eligible report of its completed campaign, an ended campaign
\* stays as it ended, and only its authorization is ever closed.
THEOREM CampaignIsSoundHolds == ASSUME Constants PROVE CampaignSpec => CampaignIsSound
<1>1. CampaignInit => CampInv
  BY CampInit
<1>2. CampInv /\ [CampaignNext]_campaignVars => CampInv'
  BY CampNext
<1>3. CampInv => CampaignTypeOK /\ DecisionIsBacked
  BY CampPromises
<1>4. CampInv /\ [CampaignNext]_campaignVars => TerminalIsFinalStep /\ ClosesOnlyTheEndedStep
  BY FinalNext, ClosesNext
<1> QED BY <1>1, <1>2, <1>3, <1>4, PTL DEF CampaignSpec, CampaignIsSound

-----------------------------------------------------------------------------
(* Scaling, for any operators, any number of activations, any life of an   *)
(* authority and any number of faults.                                     *)
(*                                                                         *)
(* ScalingInv follows an activation through its writes: the version read   *)
(* with the lock says what may be overwritten (LockInv), an operator owns  *)
(* the activation it is working on (OwnInv), an authority that was granted,*)
(* or is about to be, still holds the lock (HoldInv), and what a failed    *)
(* activation left behind cost a fault for each write (FaultInv).  Once a  *)
(* first writer has replaced another's lock, LockInv and HoldInv say no    *)
(* more; what is left is enough for revoked and raised activations.        *)
LockStatuses == {"none", "active", "revoked", "aborted"}
Reading == {"readLock", "putLock", "putRecord"}
Undoing == {"abortRecord", "abortLock"}
Activating == Reading \union {"event"} \union Undoing
Revoking == {"revokeLock", "unlock"}
ScalingLabels == {"idle", "readLock", "putLock", "putRecord", "event", "abortRecord",
           "abortLock", "revokeLock", "unlock"}

Types ==
    /\ clock \in Nat /\ 1 <= clock /\ clock <= MaxClock
    /\ failures \in Nat
    /\ begun \in Nat /\ begun <= MaxActivations
    /\ lock \in [status : LockStatuses, id : Nat, expires : Nat, ver : Nat]
    /\ lock.id <= begun /\ lock.expires <= MaxClock + TTL
    /\ overwritten \in BOOLEAN
    /\ recs \in [Activations -> [status : LockStatuses, expires : Nat]]
    /\ \A a \in Activations : recs[a].expires <= MaxClock + TTL
    /\ operator \in [Operators -> [pc : ScalingLabels, id : Nat, time : Nat, ver : Nat]]
    /\ \A o \in Operators : operator[o].id <= begun /\ operator[o].time <= clock
    /\ outcome \in [Activations -> {"none", "granted", "raised"}]

\* What an operator may do to the lock it read.
LockInv(o) ==
    /\ ~overwritten =>
           /\ operator[o].ver <= lock.ver
           /\ operator[o].pc = "putLock" /\ operator[o].ver = lock.ver
                => ~(lock.status = "active" /\ lock.expires > operator[o].time)
           /\ operator[o].pc = "unlock" /\ operator[o].ver = lock.ver
                => lock.id = operator[o].id
    /\ operator[o].pc \in Revoking
         => operator[o].id \in Activations /\ recs[operator[o].id].status = "revoked"

\* An operator works on an activation of its own, which has no outcome yet and,
\* before PutRecord, no record.
OwnInv(o) ==
    /\ operator[o].pc \in Activating => operator[o].id \in Activations /\ outcome[operator[o].id] = "none"
    /\ operator[o].pc \in Reading => recs[operator[o].id].status = "none"

Distinct ==
    \A o, p \in Operators :
        /\ operator[o].pc \in Activating /\ operator[p].pc \in Activating
        /\ operator[o].id = operator[p].id
        => o = p

\* The lock names an activation until its authority expires, from the moment
\* it was taken and while the activation is in force.
HoldsLock(a, expires) ==
    lock.id = a /\ lock.status = "active" /\ lock.expires = expires

InForce(a) == recs[a].status = "active" /\ clock < recs[a].expires

HoldInv(o) == ~overwritten =>
    /\ operator[o].pc = "putRecord" /\ clock < operator[o].time + TTL
         => HoldsLock(operator[o].id, operator[o].time + TTL)
    /\ operator[o].pc = "event" /\ InForce(operator[o].id)
         => HoldsLock(operator[o].id, recs[operator[o].id].expires)

\* A write that failed was counted.
FaultInv(o) ==
    /\ operator[o].pc \in Undoing => failures >= 1
    /\ operator[o].pc = "abortLock" /\ recs[operator[o].id].status = "active" => failures >= 2

\* An activation not begun has left nothing; a granted one holds the lock while
\* it is in force; one that raised holds it only after three faults.
ActivationInv(a) ==
    /\ a > begun => recs[a].status = "none" /\ outcome[a] = "none"
    /\ ~overwritten /\ outcome[a] = "granted" /\ InForce(a) => HoldsLock(a, recs[a].expires)
    /\ outcome[a] = "raised" /\ recs[a].status = "active"
         => failures >= 3 \/ ~(lock.id = a /\ lock.status = "active")

OperatorInv(o) == LockInv(o) /\ OwnInv(o) /\ HoldInv(o) /\ FaultInv(o)

Core ==
    /\ Types /\ Distinct
    /\ \A o \in Operators : OperatorInv(o)
    /\ \A a \in Activations : ActivationInv(a)

\* An answer that says revoked read a revoked record.
CheckInv ==
    /\ check = [pc |-> check.pc, id |-> check.id, row |-> check.row,
                revoked |-> check.revoked, allowed |-> check.allowed]
    /\ check.revoked => check.row.status = "revoked"
    /\ RevokedIsRefused

ScalingInv == Core /\ CheckInv

\* Lives are counted in whole seconds from a clock that is past zero.
ScalingConstants ==
    /\ MaxActivations \in Nat /\ TTL \in Nat
    /\ MaxClock \in Nat \ {0}
----------------------------------------------------------------------------
\* The initial state satisfies it: nothing is begun, locked or recorded.
LEMMA InitCore == ASSUME ScalingConstants PROVE ScalingInit => ScalingInv
  <1> SUFFICES ASSUME ScalingInit PROVE ScalingInv
    OBVIOUS
  <1> ~overwritten /\ overwritten \in BOOLEAN
    BY Zenon DEF ScalingInit
  <1>1. Types /\ Distinct
    BY DEF ScalingConstants, ScalingInit, Types, Distinct, Free, Absent, OperatorIdle,
       LockStatuses, ScalingLabels, Activating, Reading, Undoing
  <1>2. ASSUME NEW o \in Operators PROVE OperatorInv(o)
    BY DEF ScalingInit, OperatorInv, LockInv, OwnInv, HoldInv, FaultInv, Free, OperatorIdle,
       Activating, Reading, Undoing, Revoking
  <1>3. ASSUME NEW a \in Activations PROVE ActivationInv(a)
    BY DEF ScalingInit, ActivationInv, Absent
  <1>4. CheckInv
    BY DEF ScalingInit, CheckInv, RevokedIsRefused, NoCheck
  <1>5. QED
    BY <1>1, <1>2, <1>3, <1>4 DEF ScalingInv, Core

\* What a step of operator o makes of its locals, with the others' unchanged.
Moves(o, label, id, time, ver) ==
    /\ operator' \in [Operators -> [pc : ScalingLabels, id : Nat, time : Nat, ver : Nat]]
    /\ \A p \in Operators \ {o} : operator'[p] = operator[p]
    /\ operator'[o].pc = label /\ operator'[o].id = id /\ operator'[o].time = time
    /\ operator'[o].ver = ver

\* What a step makes of the outcome of activation a.
Decides(a, how) ==
    /\ outcome' \in [Activations -> {"none", "granted", "raised"}]
    /\ \A b \in Activations \ {a} : outcome'[b] = outcome[b]
    /\ outcome'[a] = how

\* What a step makes of the record of activation a.
Records(a, status, expires) ==
    /\ recs' \in [Activations -> [status : LockStatuses, expires : Nat]]
    /\ \A b \in Activations \ {a} : recs'[b] = recs[b]
    /\ recs'[a].status = status /\ recs'[a].expires = expires

\* A jump changes the label only.
LEMMA GotoMoves ==
  ASSUME Core, NEW o \in Operators, NEW label \in ScalingLabels, OperatorGoes(o, label)
  PROVE  Moves(o, label, operator[o].id, operator[o].time, operator[o].ver)
  BY DEF Core, Types, OperatorGoes, Moves, ScalingLabels

\* An operator that reads the lock keeps its version.
LEMMA ReadMoves ==
  ASSUME Types, NEW o \in Operators, NEW label \in ScalingLabels,
         operator' = [operator EXCEPT ![o].pc = label, ![o].ver = lock.ver]
  PROVE  Moves(o, label, operator[o].id, operator[o].time, lock.ver)
  <1>1. operator[o] \in [pc : ScalingLabels, id : Nat, time : Nat, ver : Nat] /\ lock.ver \in Nat
    BY DEF Types
  <1>2. operator' = [operator EXCEPT ![o] = [operator[o] EXCEPT !.pc = label, !.ver = lock.ver]]
    BY DEF Types
  <1>3. ASSUME NEW r, NEW v, NEW q, q = [r EXCEPT !.pc = label, !.ver = v],
               r = [pc |-> r.pc, id |-> r.id, time |-> r.time, ver |-> r.ver]
        PROVE  q = [pc |-> label, id |-> r.id, time |-> r.time, ver |-> v]
    BY <1>3, Zenon
  <1>4. operator[o] = [pc |-> operator[o].pc, id |-> operator[o].id, time |-> operator[o].time, ver |-> operator[o].ver]
    BY <1>1
  <1>5. [operator[o] EXCEPT !.pc = label, !.ver = lock.ver]
          = [pc |-> label, id |-> operator[o].id, time |-> operator[o].time, ver |-> lock.ver]
    BY <1>3, <1>4, Zenon
  <1>6. QED
    BY <1>1, <1>2, <1>5 DEF Types, Moves

\* An operator that ends forgets its locals.
LEMMA EndsMoves ==
  ASSUME Core, NEW o \in Operators, Ends(o)
  PROVE  Moves(o, "idle", 0, 0, 0)
  BY DEF Core, Types, Ends, Moves, ScalingLabels, OperatorIdle

\* The outcome is that of the activation the operator works on.
LEMMA OutcomeDecides ==
  ASSUME Core, NEW o \in Operators, NEW how \in {"granted", "raised"},
         operator[o].id \in Activations, Outcome(o, how)
  PROVE  Decides(operator[o].id, how)
  BY DEF Core, Types, Outcome, Decides

\* An overwritten lock keeps its activation and its expiry.
LEMMA LockChanges ==
  ASSUME Types, NEW status \in LockStatuses,
         lock' = [lock EXCEPT !.status = status, !.ver = @ + 1]
  PROVE  /\ lock' \in [status : LockStatuses, id : Nat, expires : Nat, ver : Nat]
         /\ lock'.status = status /\ lock'.id = lock.id
         /\ lock'.expires = lock.expires /\ lock'.ver = lock.ver + 1
  <1>1. lock = [status |-> lock.status, id |-> lock.id, expires |-> lock.expires,
                ver |-> lock.ver]
    BY DEF Types
  <1>2. lock' = [status |-> status, id |-> lock.id, expires |-> lock.expires,
                 ver |-> lock.ver + 1]
    BY <1>1, Zenon
  <1>3. lock.id \in Nat /\ lock.expires \in Nat /\ lock.ver + 1 \in Nat
    BY DEF Types
  <1>4. QED
    BY <1>2, <1>3, Zenon

\* A revoked lock names the activation of the copy that was read.
LEMMA LockIsUnlocked ==
  ASSUME Types, NEW o \in Operators,
         lock' = [lock EXCEPT !.status = "revoked", !.id = operator[o].id, !.ver = @ + 1]
  PROVE  /\ lock' \in [status : LockStatuses, id : Nat, expires : Nat, ver : Nat]
         /\ lock'.status = "revoked" /\ lock'.id = operator[o].id
         /\ lock'.expires = lock.expires /\ lock'.ver = lock.ver + 1
  <1>1. lock = [status |-> lock.status, id |-> lock.id, expires |-> lock.expires,
                ver |-> lock.ver]
    BY DEF Types
  <1>2. lock' = [status |-> "revoked", id |-> operator[o].id, expires |-> lock.expires,
                 ver |-> lock.ver + 1]
    BY <1>1, Zenon
  <1>3. operator[o].id \in Nat /\ lock.expires \in Nat /\ lock.ver + 1 \in Nat
    BY DEF Types
  <1>4. QED
    BY <1>2, <1>3, Zenon DEF LockStatuses

\* A lock that is taken names the activation until the end of its life.
LEMMA LockTaken ==
  ASSUME ScalingConstants, Types, NEW o \in Operators, TakeLock(o)
  PROVE  /\ lock' \in [status : LockStatuses, id : Nat, expires : Nat, ver : Nat]
         /\ lock'.status = "active" /\ lock'.id = operator[o].id
         /\ lock'.expires = operator[o].time + TTL /\ lock'.ver = operator[o].ver + 1
         /\ lock'.expires <= MaxClock + TTL
  <1>1. /\ operator[o].id \in Nat /\ operator[o].time + TTL \in Nat /\ operator[o].ver + 1 \in Nat
        /\ operator[o].time + TTL <= MaxClock + TTL
    BY DEF Types, ScalingConstants
  <1>2. lock' = [status |-> "active", id |-> operator[o].id, expires |-> operator[o].time + TTL,
                 ver |-> operator[o].ver + 1]
    BY DEF TakeLock
  <1>3. QED
    BY <1>1, <1>2, Zenon DEF LockStatuses

\* Operator o works on activation a.
Mine(o, a) == operator[o].pc \in Activating /\ operator[o].id = a

\* What a step of operator o leaves alone of what the others rely on: their
\* locals, the records and outcomes it does not own except for an end put to an
\* active one, and a lock in force that is neither its own nor revoked.
Frame(o) ==
    /\ clock' = clock /\ failures' >= failures /\ begun' >= begun
    /\ overwritten => overwritten'
    /\ \A p \in Operators \ {o} : operator'[p] = operator[p]
    /\ operator'[o].pc \in Activating => Mine(o, operator'[o].id) \/ operator'[o].id > begun
    /\ \A a \in Activations :
           \/ Mine(o, a)
           \/ /\ outcome'[a] = outcome[a]
              /\ \/ recs'[a] = recs[a]
                 \/ /\ recs[a].status = "active"
                    /\ recs'[a].status \in {"aborted", "revoked"}
    /\ \A a \in Activations : recs[a].status = "revoked" => recs'[a].status = "revoked"
    /\ \/ lock' = lock
       \/ /\ lock'.status = "active" => Mine(o, lock'.id)
          /\ ~overwritten' => lock'.ver > lock.ver
          /\ \/ overwritten'
             \/ ~(lock.status = "active" /\ lock.expires > clock)
             \/ Mine(o, lock.id)
             \/ recs[lock.id].status = "revoked"

\* A lock that another activation holds is not overwritten.
LEMMA LockStays ==
  ASSUME Types, NEW o \in Operators, Frame(o), ~overwritten', NEW a, NEW expires,
         HoldsLock(a, expires), clock < expires, ~Mine(o, a), recs[a].status # "revoked"
  PROVE  lock' = lock
  BY DEF Frame, HoldsLock, Types

\* A step within its frame keeps what is said of the other operators and of the
\* activations that are not the operator's own.
LEMMA FrameKeeps ==
  ASSUME ScalingConstants, Core, Types', NEW o \in Operators, Frame(o),
         OperatorInv(o)', \A a \in Activations : Mine(o, a) => ActivationInv(a)'
  PROVE  Core'
  <1> Types /\ Distinct
    BY DEF Core
  <1> \A p \in Operators : OperatorInv(p)
    BY DEF Core
  <1> \A a \in Activations : ActivationInv(a)
    BY DEF Core
  <1>1. Distinct'
    <2> SUFFICES ASSUME NEW p \in Operators, NEW q \in Operators,
                        operator'[p].pc \in Activating, operator'[q].pc \in Activating,
                        operator'[p].id = operator'[q].id
                 PROVE  p = q
      BY DEF Distinct
    <2>1. CASE p # o /\ q # o
      BY <2>1 DEF Frame, Distinct
    <2>2. CASE p = o /\ q # o
      BY <2>2 DEF Frame, Distinct, Mine, Types
    <2>3. CASE p # o /\ q = o
      BY <2>3 DEF Frame, Distinct, Mine, Types
    <2>4. QED
      BY <2>1, <2>2, <2>3
  <1>2. ASSUME NEW p \in Operators, p # o PROVE OperatorInv(p)'
    <2>1. OperatorInv(p) /\ operator'[p] = operator[p]
      BY <1>2 DEF Frame
    <2>2. operator[p].pc \in Activating => ~Mine(o, operator[p].id)
      BY <1>2 DEF Distinct, Mine
    <2>3. LockInv(p)'
      <3>1. \/ lock' = lock
            \/ lock'.ver > lock.ver
            \/ overwritten'
        BY DEF Frame
      <3>2. /\ lock.ver \in Nat /\ lock'.ver \in Nat /\ operator[p].ver \in Nat
            /\ overwritten => overwritten'
            /\ ~overwritten => operator[p].ver <= lock.ver
        BY <2>1 DEF Types, OperatorInv, LockInv, Frame
      <3>3. operator[p].pc \in Revoking => recs'[operator[p].id].status = "revoked"
        <4> SUFFICES ASSUME operator[p].pc \in Revoking PROVE recs'[operator[p].id].status = "revoked"
          OBVIOUS
        <4>1. operator[p].id \in Activations /\ recs[operator[p].id].status = "revoked"
          BY <2>1 DEF OperatorInv, LockInv
        <4>2. QED
          BY <4>1 DEF Frame
      <3>4. QED
        BY <2>1, <3>1, <3>2, <3>3 DEF OperatorInv, LockInv
    <2>4. OwnInv(p)'
      BY <2>1, <2>2 DEF OperatorInv, OwnInv, Frame, Activating, Reading
    <2>5. HoldInv(p)'
      <3> SUFFICES ASSUME ~overwritten', ~overwritten PROVE HoldInv(p)'
        BY DEF HoldInv, Frame
      <3>1. CASE operator[p].pc = "putRecord" /\ clock < operator[p].time + TTL
        <4>1. HoldsLock(operator[p].id, operator[p].time + TTL) /\ recs[operator[p].id].status = "none"
          BY <2>1, <3>1 DEF OperatorInv, OwnInv, HoldInv, Reading
        <4>2. lock' = lock
          BY <2>2, <3>1, <4>1, LockStays DEF Activating, Reading
        <4>3. QED
          BY <2>1, <3>1, <4>1, <4>2 DEF HoldInv, HoldsLock
      <3>2. CASE operator[p].pc = "event" /\ InForce(operator[p].id)'
        <4>1. recs'[operator[p].id] = recs[operator[p].id] /\ clock' = clock
          BY <2>1, <2>2, <3>2 DEF OperatorInv, OwnInv, Frame, InForce, Activating
        <4>2. InForce(operator[p].id) /\ HoldsLock(operator[p].id, recs[operator[p].id].expires)
          BY <2>1, <3>2, <4>1 DEF OperatorInv, HoldInv, InForce
        <4>3. lock' = lock
          BY <2>2, <3>2, <4>2, LockStays DEF Activating, InForce
        <4>4. QED
          BY <2>1, <3>2, <4>1, <4>2, <4>3 DEF HoldInv, HoldsLock
      <3>3. QED
        BY <2>1, <3>1, <3>2 DEF HoldInv, Frame
    <2>6. FaultInv(p)'
      BY <2>1, <2>2 DEF OperatorInv, OwnInv, FaultInv, Frame, Types, Activating, Undoing
    <2>7. QED
      BY <2>3, <2>4, <2>5, <2>6 DEF OperatorInv
  <1>3. ASSUME NEW a \in Activations, ~Mine(o, a) PROVE ActivationInv(a)'
    <2>1. /\ ActivationInv(a) /\ outcome'[a] = outcome[a] /\ clock' = clock
          /\ recs'[a].status \in {"none", "active"} => recs'[a] = recs[a]
          /\ recs[a].status # "active" => recs'[a] = recs[a]
      BY <1>3 DEF Frame
    <2>2. a > begun' => recs'[a].status = "none" /\ outcome'[a] = "none"
      <3>1. a \in Nat /\ begun \in Nat /\ begun' \in Nat /\ begun' >= begun
        BY DEF Frame, Types, Activations, ScalingConstants
      <3>2. a > begun' => a > begun
        BY <3>1
      <3>3. QED
        BY <2>1, <3>2 DEF ActivationInv
    <2>3. ASSUME ~overwritten', outcome'[a] = "granted", InForce(a)'
          PROVE  HoldsLock(a, recs[a].expires)'
      <3>1. InForce(a) /\ HoldsLock(a, recs[a].expires) /\ recs'[a] = recs[a]
        BY <2>1, <2>3 DEF ActivationInv, InForce, Frame
      <3>2. lock' = lock
        BY <1>3, <2>3, <3>1, LockStays DEF InForce
      <3>3. QED
        BY <3>1, <3>2 DEF HoldsLock
    <2>4. ASSUME outcome'[a] = "raised", recs'[a].status = "active"
          PROVE  failures' >= 3 \/ ~(lock'.id = a /\ lock'.status = "active")
      BY <1>3, <2>1, <2>4 DEF ActivationInv, Frame, Types
    <2>5. QED
      BY <2>2, <2>3, <2>4 DEF ActivationInv
  <1>4. QED
    BY <1>1, <1>2, <1>3 DEF Core, Activations

\* A new activation belongs to the operator that begins it.
LEMMA ActivateKeeps ==
  ASSUME ScalingConstants, Core, NEW o \in Operators, ActivateBegins(o)
  PROVE  Core'
  <1> Types /\ OperatorInv(o)
    BY DEF Core
  <1> \A a \in Activations : ActivationInv(a)
    BY DEF Core
  <1>1. Moves(o, "readLock", begun + 1, clock, 0)
    BY DEF ActivateBegins, Moves, Types, ScalingLabels
  <1>2. /\ begun < MaxActivations /\ begun' = begun + 1 /\ begun + 1 \in Activations
        /\ operator[o].pc = "idle"
        /\ UNCHANGED <<clock, failures, lock, recs, outcome, overwritten>>
    BY DEF ActivateBegins, authority, Types, ScalingConstants, Activations
  <1> USE <1>1, <1>2 DEF Moves, Decides, Records
  <1>3. Types'
    BY DEF Types, ScalingConstants
  <1>4. Frame(o)
    BY DEF OperatorInv, LockInv, OwnInv, Frame, Mine, Types, Moves, Activating, Reading,
       Undoing, Activations
  <1>5. OperatorInv(o)'
    BY DEF Types, ActivationInv, OperatorInv, LockInv, OwnInv, HoldInv, FaultInv, InForce,
       HoldsLock, Activating, Reading, Undoing, Revoking, Activations
  <1>6. ASSUME NEW a \in Activations, Mine(o, a) PROVE ActivationInv(a)'
    BY <1>6 DEF Types, Mine, ActivationInv, OperatorInv, LockInv, OwnInv, HoldInv, FaultInv,
       InForce, HoldsLock, Activating, Reading, Undoing, Revoking, Activations
  <1>7. QED
    BY <1>3, <1>4, <1>5, <1>6, FrameKeeps

\* ReadLock that found no lock in force keeps the invariant.
LEMMA GoesOnKeeps ==
  ASSUME ScalingConstants, Core, NEW o \in Operators, operator[o].pc = "readLock",
         ~(lock.status = "active" /\ lock.expires > operator[o].time),
         operator' = [operator EXCEPT ![o].pc = "putLock", ![o].ver = lock.ver],
         UNCHANGED <<clock, failures, lock, recs, begun, outcome, overwritten>>
  PROVE  Core'
  <1> Types /\ OperatorInv(o)
    BY DEF Core
  <1> \A a \in Activations : ActivationInv(a)
    BY DEF Core
  <1>1. Moves(o, "putLock", operator[o].id, operator[o].time, lock.ver)
    BY ReadMoves DEF ScalingLabels
  <1> USE <1>1 DEF Moves, Decides, Records
  <1>2. Types'
    BY DEF Types, ScalingConstants
  <1>3. Frame(o)
    BY DEF OperatorInv, LockInv, OwnInv, Frame, Mine, Types, Moves, Activating, Reading,
       Undoing, Activations
  <1>4. OperatorInv(o)'
    BY DEF Types, ActivationInv, OperatorInv, LockInv, OwnInv, HoldInv, FaultInv, InForce,
       HoldsLock, Activating, Reading, Undoing, Revoking, Activations
  <1>5. ASSUME NEW a \in Activations, Mine(o, a) PROVE ActivationInv(a)'
    BY <1>5 DEF Types, Mine, ActivationInv, OperatorInv, LockInv, OwnInv, HoldInv, FaultInv,
       InForce, HoldsLock, Activating, Reading, Undoing, Revoking, Activations
  <1>6. QED
    BY <1>2, <1>3, <1>4, <1>5, FrameKeeps

\* ReadLock or PutLock that raises without a lock keeps the invariant.
LEMMA GivesUpKeeps ==
  ASSUME ScalingConstants, Core, NEW o \in Operators, operator[o].pc \in {"readLock", "putLock"},
         Ends(o), Outcome(o, "raised"), failures' \in {failures, failures + 1},
         UNCHANGED <<clock, lock, recs, begun, overwritten>>
  PROVE  Core'
  <1> Types /\ OperatorInv(o)
    BY DEF Core
  <1> \A a \in Activations : ActivationInv(a)
    BY DEF Core
  <1>1. operator[o].id \in Activations
    BY DEF OperatorInv, OwnInv, Activating, Reading
  <1>2. Moves(o, "idle", 0, 0, 0)
    BY EndsMoves
  <1>3. Decides(operator[o].id, "raised")
    BY <1>1, OutcomeDecides
  <1> USE <1>1, <1>2, <1>3 DEF Moves, Decides, Records
  <1>4. Types'
    BY DEF Types, ScalingConstants
  <1>5. Frame(o)
    BY DEF OperatorInv, LockInv, OwnInv, Frame, Mine, Types, Moves, Activating, Reading,
       Undoing, Activations
  <1>6. OperatorInv(o)'
    BY DEF Types, ActivationInv, OperatorInv, LockInv, OwnInv, HoldInv, FaultInv, InForce,
       HoldsLock, Activating, Reading, Undoing, Revoking, Activations
  <1>7. ASSUME NEW a \in Activations, Mine(o, a) PROVE ActivationInv(a)'
    BY <1>7 DEF Types, Mine, ActivationInv, OperatorInv, LockInv, OwnInv, HoldInv, FaultInv,
       InForce, HoldsLock, Activating, Reading, Undoing, Revoking, Activations
  <1>8. QED
    BY <1>4, <1>5, <1>6, <1>7, FrameKeeps

\* PutLock that takes the lock keeps the invariant.
LEMMA TakesLockKeeps ==
  ASSUME ScalingConstants, Core, NEW o \in Operators, operator[o].pc = "putLock",
         lock.ver = operator[o].ver \/ Crosses(o),
         overwritten' = (overwritten \/ Crosses(o)),
         TakeLock(o), OperatorGoes(o, "putRecord"),
         UNCHANGED <<clock, failures, recs, begun, outcome>>
  PROVE  Core'
  <1> Types /\ OperatorInv(o)
    BY DEF Core
  <1> \A a \in Activations : ActivationInv(a)
    BY DEF Core
  <1>1. Moves(o, "putRecord", operator[o].id, operator[o].time, operator[o].ver)
    BY GotoMoves DEF ScalingLabels
  <1>2. /\ lock' \in [status : LockStatuses, id : Nat, expires : Nat, ver : Nat]
        /\ lock'.status = "active" /\ lock'.id = operator[o].id
        /\ lock'.expires = operator[o].time + TTL /\ lock'.ver = operator[o].ver + 1
        /\ lock'.expires <= MaxClock + TTL
    BY LockTaken
  <1>3. /\ ~overwritten' => ~(lock.status = "active" /\ lock.expires > operator[o].time)
        /\ operator[o].id \in Activations /\ outcome[operator[o].id] = "none"
    BY DEF OperatorInv, LockInv, OwnInv, Activating, Reading
  <1>0. /\ overwritten => overwritten'
        /\ ~overwritten' => lock.ver = operator[o].ver
    BY Zenon
  <1> USE <1>1, <1>2, <1>3 DEF Moves, Decides, Records
  <1>4. Types'
    BY DEF Types, ScalingConstants
  <1>5. Frame(o)
    BY <1>0 DEF OperatorInv, LockInv, OwnInv, Frame, Mine, Types, Moves, Activating, Reading,
       Undoing, Activations
  <1>6. OperatorInv(o)'
    BY DEF Types, ActivationInv, OperatorInv, LockInv, OwnInv, HoldInv, FaultInv, InForce,
       HoldsLock, Activating, Reading, Undoing, Revoking, Activations
  <1>7. ASSUME NEW a \in Activations, Mine(o, a) PROVE ActivationInv(a)'
    BY <1>7 DEF Types, Mine, ActivationInv, OperatorInv, LockInv, OwnInv, HoldInv, FaultInv,
       InForce, HoldsLock, Activating, Reading, Undoing, Revoking, Activations
  <1>8. QED
    BY <1>4, <1>5, <1>6, <1>7, FrameKeeps

\* PutLock that takes the lock and raises keeps the invariant.
LEMMA TakesLockAndRaisesKeeps ==
  ASSUME ScalingConstants, Core, NEW o \in Operators, operator[o].pc = "putLock",
         lock.ver = operator[o].ver \/ Crosses(o),
         overwritten' = (overwritten \/ Crosses(o)),
         TakeLock(o), Ends(o), Outcome(o, "raised"), failures' = failures + 1,
         UNCHANGED <<clock, recs, begun>>
  PROVE  Core'
  <1> Types /\ OperatorInv(o)
    BY DEF Core
  <1> \A a \in Activations : ActivationInv(a)
    BY DEF Core
  <1>1. /\ ~overwritten' => ~(lock.status = "active" /\ lock.expires > operator[o].time)
        /\ operator[o].id \in Activations /\ outcome[operator[o].id] = "none"
        /\ recs[operator[o].id].status = "none"
    BY DEF OperatorInv, LockInv, OwnInv, Activating, Reading
  <1>2. Moves(o, "idle", 0, 0, 0)
    BY EndsMoves
  <1>3. /\ lock' \in [status : LockStatuses, id : Nat, expires : Nat, ver : Nat]
        /\ lock'.status = "active" /\ lock'.id = operator[o].id
        /\ lock'.expires = operator[o].time + TTL /\ lock'.ver = operator[o].ver + 1
        /\ lock'.expires <= MaxClock + TTL
    BY LockTaken
  <1>4. Decides(operator[o].id, "raised")
    BY <1>1, OutcomeDecides
  <1>0. /\ overwritten => overwritten'
        /\ ~overwritten' => lock.ver = operator[o].ver
    BY Zenon
  <1> USE <1>1, <1>2, <1>3, <1>4 DEF Moves, Decides, Records
  <1>5. Types'
    <2>1. failures' \in Nat /\ lock'.id <= begun' /\ lock'.expires <= MaxClock + TTL
      BY DEF Types
    <2>2. \A p \in Operators : operator'[p].id <= begun' /\ operator'[p].time <= clock'
      BY DEF Types
    <2>3. QED
      BY <2>1, <2>2 DEF Types
  <1>6. Frame(o)
    BY <1>0 DEF OperatorInv, LockInv, OwnInv, Frame, Mine, Types, Moves, Activating, Reading,
       Undoing, Activations
  <1>7. OperatorInv(o)'
    BY DEF Types, ActivationInv, OperatorInv, LockInv, OwnInv, HoldInv, FaultInv, InForce,
       HoldsLock, Activating, Reading, Undoing, Revoking, Activations
  <1>8. ASSUME NEW a \in Activations, Mine(o, a) PROVE ActivationInv(a)'
    BY <1>8 DEF Types, Mine, ActivationInv, OperatorInv, LockInv, OwnInv, HoldInv, FaultInv,
       InForce, HoldsLock, Activating, Reading, Undoing, Revoking, Activations
  <1>9. QED
    BY <1>5, <1>6, <1>7, <1>8, FrameKeeps

\* PutRecord that writes the record keeps the invariant.
LEMMA WritesRecordKeeps ==
  ASSUME ScalingConstants, Core, NEW o \in Operators, operator[o].pc = "putRecord",
         NEW label \in {"event", "abortRecord"}, OperatorGoes(o, label),
         recs' = [recs EXCEPT ![operator[o].id] = [status |-> "active",
                                             expires |-> operator[o].time + TTL]],
         failures' = IF label = "event" THEN failures ELSE failures + 1,
         UNCHANGED <<clock, lock, begun, outcome, overwritten>>
  PROVE  Core'
  <1> Types /\ OperatorInv(o)
    BY DEF Core
  <1> \A a \in Activations : ActivationInv(a)
    BY DEF Core
  <1>1. /\ operator[o].id \in Activations /\ outcome[operator[o].id] = "none"
        /\ recs[operator[o].id].status = "none"
    BY DEF OperatorInv, OwnInv, Activating, Reading
  <1>2. Moves(o, label, operator[o].id, operator[o].time, operator[o].ver)
    BY GotoMoves DEF ScalingLabels
  <1>3. Records(operator[o].id, "active", operator[o].time + TTL)
    BY <1>1 DEF Records, Types, LockStatuses, ScalingConstants
  <1>4. operator[o].time + TTL <= MaxClock + TTL /\ operator[o].time + TTL \in Nat
    BY DEF Types, ScalingConstants
  <1> USE <1>1, <1>2, <1>3, <1>4 DEF Moves, Decides, Records
  <1>5. Types'
    <2>1. \A a \in Activations : recs'[a].expires <= MaxClock + TTL
      BY DEF Types
    <2>2. failures' \in Nat
      BY DEF Types
    <2>3. QED
      BY <2>1, <2>2 DEF Types
  <1>6. Frame(o)
    BY DEF OperatorInv, LockInv, OwnInv, Frame, Mine, Types, Moves, Activating, Reading,
       Undoing, Activations
  <1>7. OperatorInv(o)'
    BY DEF Types, ActivationInv, OperatorInv, LockInv, OwnInv, HoldInv, FaultInv, InForce,
       HoldsLock, Activating, Reading, Undoing, Revoking, Activations
  <1>8. ASSUME NEW a \in Activations, Mine(o, a) PROVE ActivationInv(a)'
    BY <1>8 DEF Types, Mine, ActivationInv, OperatorInv, LockInv, OwnInv, HoldInv, FaultInv,
       InForce, HoldsLock, Activating, Reading, Undoing, Revoking, Activations
  <1>9. QED
    BY <1>5, <1>6, <1>7, <1>8, FrameKeeps

\* PutRecord that writes nothing or AppendEvent that raises keeps the invariant.
LEMMA UndoKeeps ==
  ASSUME ScalingConstants, Core, NEW o \in Operators, operator[o].pc \in {"putRecord", "event"},
         OperatorGoes(o, "abortRecord"), failures' = failures + 1,
         UNCHANGED <<clock, lock, recs, begun, outcome, overwritten>>
  PROVE  Core'
  <1> Types /\ OperatorInv(o)
    BY DEF Core
  <1> \A a \in Activations : ActivationInv(a)
    BY DEF Core
  <1>1. Moves(o, "abortRecord", operator[o].id, operator[o].time, operator[o].ver)
    BY GotoMoves DEF ScalingLabels
  <1> USE <1>1 DEF Moves, Decides, Records
  <1>2. Types'
    BY DEF Types, ScalingConstants
  <1>3. Frame(o)
    BY DEF OperatorInv, LockInv, OwnInv, Frame, Mine, Types, Moves, Activating, Reading,
       Undoing, Activations
  <1>4. OperatorInv(o)'
    BY DEF Types, ActivationInv, OperatorInv, LockInv, OwnInv, HoldInv, FaultInv, InForce,
       HoldsLock, Activating, Reading, Undoing, Revoking, Activations
  <1>5. ASSUME NEW a \in Activations, Mine(o, a) PROVE ActivationInv(a)'
    BY <1>5 DEF Types, Mine, ActivationInv, OperatorInv, LockInv, OwnInv, HoldInv, FaultInv,
       InForce, HoldsLock, Activating, Reading, Undoing, Revoking, Activations
  <1>6. QED
    BY <1>2, <1>3, <1>4, <1>5, FrameKeeps

\* AppendEvent that grants the authority keeps the invariant.
LEMMA GrantKeeps ==
  ASSUME ScalingConstants, Core, NEW o \in Operators, operator[o].pc = "event", Ends(o), Outcome(o, "granted"),
         UNCHANGED <<clock, failures, lock, recs, begun, overwritten>>
  PROVE  Core'
  <1> Types /\ OperatorInv(o)
    BY DEF Core
  <1> \A a \in Activations : ActivationInv(a)
    BY DEF Core
  <1>1. operator[o].id \in Activations
    BY DEF OperatorInv, OwnInv, Activating
  <1>2. Moves(o, "idle", 0, 0, 0)
    BY EndsMoves
  <1>3. Decides(operator[o].id, "granted")
    BY <1>1, OutcomeDecides
  <1> USE <1>1, <1>2, <1>3 DEF Moves, Decides, Records
  <1>4. Types'
    BY DEF Types, ScalingConstants
  <1>5. Frame(o)
    BY DEF OperatorInv, LockInv, OwnInv, Frame, Mine, Types, Moves, Activating, Reading,
       Undoing, Activations
  <1>6. OperatorInv(o)'
    BY DEF Types, ActivationInv, OperatorInv, LockInv, OwnInv, HoldInv, FaultInv, InForce,
       HoldsLock, Activating, Reading, Undoing, Revoking, Activations
  <1>7. ASSUME NEW a \in Activations, Mine(o, a) PROVE ActivationInv(a)'
    BY <1>7 DEF Types, Mine, ActivationInv, OperatorInv, LockInv, OwnInv, HoldInv, FaultInv,
       InForce, HoldsLock, Activating, Reading, Undoing, Revoking, Activations
  <1>8. QED
    BY <1>4, <1>5, <1>6, <1>7, FrameKeeps

\* AbortRecord that writes keeps the invariant.
LEMMA AbortsRecordKeeps ==
  ASSUME ScalingConstants, Core, NEW o \in Operators, operator[o].pc = "abortRecord", OperatorGoes(o, "abortLock"),
         recs' = [recs EXCEPT ![operator[o].id].status = "aborted"],
         recs[operator[o].id].status = "active",
         failures' \in {failures, failures + 1},
         UNCHANGED <<clock, lock, begun, outcome, overwritten>>
  PROVE  Core'
  <1> Types /\ OperatorInv(o)
    BY DEF Core
  <1> \A a \in Activations : ActivationInv(a)
    BY DEF Core
  <1>1. operator[o].id \in Activations
    BY DEF OperatorInv, OwnInv, Activating, Undoing
  <1>2. Moves(o, "abortLock", operator[o].id, operator[o].time, operator[o].ver)
    BY GotoMoves DEF ScalingLabels
  <1>3. Records(operator[o].id, "aborted", recs[operator[o].id].expires)
    BY <1>1 DEF Records, Types, LockStatuses
  <1> USE <1>1, <1>2, <1>3 DEF Moves, Decides, Records
  <1>4. Types'
    BY DEF Types, ScalingConstants
  <1>5. Frame(o)
    BY DEF OperatorInv, LockInv, OwnInv, Frame, Mine, Types, Moves, Activating, Reading,
       Undoing, Activations
  <1>6. OperatorInv(o)'
    BY DEF Types, ActivationInv, OperatorInv, LockInv, OwnInv, HoldInv, FaultInv, InForce,
       HoldsLock, Activating, Reading, Undoing, Revoking, Activations
  <1>7. ASSUME NEW a \in Activations, Mine(o, a) PROVE ActivationInv(a)'
    BY <1>7 DEF Types, Mine, ActivationInv, OperatorInv, LockInv, OwnInv, HoldInv, FaultInv,
       InForce, HoldsLock, Activating, Reading, Undoing, Revoking, Activations
  <1>8. QED
    BY <1>4, <1>5, <1>6, <1>7, FrameKeeps

\* AbortRecord that has nothing to write or fails to keeps the invariant.
LEMMA LeavesRecordKeeps ==
  ASSUME ScalingConstants, Core, NEW o \in Operators, operator[o].pc = "abortRecord", OperatorGoes(o, "abortLock"),
         failures' = IF recs[operator[o].id].status = "active" THEN failures + 1 ELSE failures,
         UNCHANGED <<clock, lock, recs, begun, outcome, overwritten>>
  PROVE  Core'
  <1> Types /\ OperatorInv(o)
    BY DEF Core
  <1> \A a \in Activations : ActivationInv(a)
    BY DEF Core
  <1>1. Moves(o, "abortLock", operator[o].id, operator[o].time, operator[o].ver)
    BY GotoMoves DEF ScalingLabels
  <1> USE <1>1 DEF Moves, Decides, Records
  <1>2. Types'
    BY DEF Types, ScalingConstants
  <1>3. Frame(o)
    BY DEF OperatorInv, LockInv, OwnInv, Frame, Mine, Types, Moves, Activating, Reading,
       Undoing, Activations
  <1>4. OperatorInv(o)'
    BY DEF Types, ActivationInv, OperatorInv, LockInv, OwnInv, HoldInv, FaultInv, InForce,
       HoldsLock, Activating, Reading, Undoing, Revoking, Activations
  <1>5. ASSUME NEW a \in Activations, Mine(o, a) PROVE ActivationInv(a)'
    BY <1>5 DEF Types, Mine, ActivationInv, OperatorInv, LockInv, OwnInv, HoldInv, FaultInv,
       InForce, HoldsLock, Activating, Reading, Undoing, Revoking, Activations
  <1>6. QED
    BY <1>2, <1>3, <1>4, <1>5, FrameKeeps

\* AbortLock that writes keeps the invariant.
LEMMA AbortsLockKeeps ==
  ASSUME ScalingConstants, Core, NEW o \in Operators, operator[o].pc = "abortLock", lock.id = operator[o].id,
         lock' = [lock EXCEPT !.status = "aborted", !.ver = @ + 1],
         Ends(o), Outcome(o, "raised"), failures' \in {failures, failures + 1},
         UNCHANGED <<clock, recs, begun, overwritten>>
  PROVE  Core'
  <1> Types /\ OperatorInv(o)
    BY DEF Core
  <1> \A a \in Activations : ActivationInv(a)
    BY DEF Core
  <1>1. operator[o].id \in Activations /\ outcome[operator[o].id] = "none"
    BY DEF OperatorInv, OwnInv, Activating, Undoing
  <1>2. Moves(o, "idle", 0, 0, 0)
    BY EndsMoves
  <1>3. Decides(operator[o].id, "raised")
    BY <1>1, OutcomeDecides
  <1>4. /\ lock' \in [status : LockStatuses, id : Nat, expires : Nat, ver : Nat]
        /\ lock'.status = "aborted" /\ lock'.id = lock.id
        /\ lock'.expires = lock.expires /\ lock'.ver = lock.ver + 1
    BY LockChanges DEF LockStatuses
  <1> USE <1>1, <1>2, <1>3, <1>4 DEF Moves, Decides, Records
  <1>5. Types'
    <2>1. failures' \in Nat /\ lock'.id <= begun' /\ lock'.expires <= MaxClock + TTL
      BY DEF Types
    <2>2. \A p \in Operators : operator'[p].id <= begun' /\ operator'[p].time <= clock'
      BY DEF Types
    <2>3. QED
      BY <2>1, <2>2 DEF Types
  <1>6. Frame(o)
    BY DEF OperatorInv, LockInv, OwnInv, Frame, Mine, Types, Moves, Activating, Reading,
       Undoing, Activations
  <1>7. OperatorInv(o)'
    BY DEF Types, ActivationInv, OperatorInv, LockInv, OwnInv, HoldInv, FaultInv, InForce,
       HoldsLock, Activating, Reading, Undoing, Revoking, Activations
  <1>8. ASSUME NEW a \in Activations, Mine(o, a) PROVE ActivationInv(a)'
    BY <1>8 DEF Types, Mine, ActivationInv, OperatorInv, LockInv, OwnInv, HoldInv, FaultInv,
       InForce, HoldsLock, Activating, Reading, Undoing, Revoking, Activations
  <1>9. QED
    BY <1>5, <1>6, <1>7, <1>8, FrameKeeps

\* AbortLock that has nothing to write or fails to keeps the invariant.
LEMMA LeavesLockKeeps ==
  ASSUME ScalingConstants, Core, NEW o \in Operators, operator[o].pc = "abortLock", Ends(o), Outcome(o, "raised"),
         failures' = IF lock.id = operator[o].id THEN failures + 1 ELSE failures,
         UNCHANGED <<clock, lock, recs, begun, overwritten>>
  PROVE  Core'
  <1> Types /\ OperatorInv(o)
    BY DEF Core
  <1> \A a \in Activations : ActivationInv(a)
    BY DEF Core
  <1>1. operator[o].id \in Activations /\ outcome[operator[o].id] = "none"
    BY DEF OperatorInv, OwnInv, Activating, Undoing
  <1>2. Moves(o, "idle", 0, 0, 0)
    BY EndsMoves
  <1>3. Decides(operator[o].id, "raised")
    BY <1>1, OutcomeDecides
  <1> USE <1>1, <1>2, <1>3 DEF Moves, Decides, Records
  <1>4. Types'
    BY DEF Types, ScalingConstants
  <1>5. Frame(o)
    BY DEF OperatorInv, LockInv, OwnInv, Frame, Mine, Types, Moves, Activating, Reading,
       Undoing, Activations
  <1>6. OperatorInv(o)'
    BY DEF Types, ActivationInv, OperatorInv, LockInv, OwnInv, HoldInv, FaultInv, InForce,
       HoldsLock, Activating, Reading, Undoing, Revoking, Activations
  <1>7. ASSUME NEW a \in Activations, Mine(o, a) PROVE ActivationInv(a)'
    BY <1>7 DEF Types, Mine, ActivationInv, OperatorInv, LockInv, OwnInv, HoldInv, FaultInv,
       InForce, HoldsLock, Activating, Reading, Undoing, Revoking, Activations
  <1>8. QED
    BY <1>4, <1>5, <1>6, <1>7, FrameKeeps

\* Revoke that writes the record keeps the invariant.
LEMMA RevokesKeeps ==
  ASSUME ScalingConstants, Core, NEW o \in Operators, NEW b \in Activations, operator[o].pc = "idle",
         recs[b].status = "active",
         recs' = [recs EXCEPT ![b].status = "revoked"],
         Moves(o, "revokeLock", b, 0, 0) \/ Moves(o, "idle", 0, 0, 0),
         failures' \in {failures, failures + 1},
         UNCHANGED <<clock, lock, begun, outcome, overwritten>>
  PROVE  Core'
  <1> Types /\ OperatorInv(o)
    BY DEF Core
  <1> \A a \in Activations : ActivationInv(a)
    BY DEF Core
  <1>1. Records(b, "revoked", recs[b].expires)
    BY DEF Records, Types, LockStatuses
  <1>2. b \in Nat /\ b <= begun
    <2>1. ActivationInv(b) /\ b \in Nat /\ begun \in Nat
      BY DEF Types, Activations, ScalingConstants
    <2>2. QED
      BY <2>1 DEF ActivationInv
  <1>3. PICK label, id : /\ Moves(o, label, id, 0, 0)
                       /\ \/ label = "revokeLock" /\ id = b
                          \/ label = "idle" /\ id = 0
    OBVIOUS
  <1>4. id \in Nat /\ id <= begun /\ label \notin Activating
    BY <1>2, <1>3 DEF Types, Activating, Reading, Undoing
  <1> USE <1>1, <1>2, <1>3, <1>4 DEF Moves, Decides, Records
  <1>5. Types'
    <2>1. \A a \in Activations : recs'[a].expires <= MaxClock + TTL
      BY DEF Types
    <2>2. \A p \in Operators : operator'[p].id <= begun /\ operator'[p].time <= clock
      BY <1>4 DEF Types
    <2>3. QED
      BY <2>1, <2>2 DEF Types
  <1>6. Frame(o)
    BY DEF OperatorInv, LockInv, OwnInv, Frame, Mine, Types, Moves, Activating, Reading,
       Undoing, Activations
  <1>7. OperatorInv(o)'
    BY DEF Types, ActivationInv, OperatorInv, LockInv, OwnInv, HoldInv, FaultInv, InForce,
       HoldsLock, Activating, Reading, Undoing, Revoking, Activations
  <1>8. ASSUME NEW a \in Activations, Mine(o, a) PROVE ActivationInv(a)'
    BY <1>8 DEF Types, Mine, ActivationInv, OperatorInv, LockInv, OwnInv, HoldInv, FaultInv,
       InForce, HoldsLock, Activating, Reading, Undoing, Revoking, Activations
  <1>9. QED
    BY <1>5, <1>6, <1>7, <1>8, FrameKeeps

\* An operator that ends or dies and writes nothing keeps the invariant.
LEMMA QuitKeeps ==
  ASSUME ScalingConstants, Core, NEW o \in Operators, Ends(o), failures' \in {failures, failures + 1},
         UNCHANGED <<clock, lock, recs, begun, outcome, overwritten>>
  PROVE  Core'
  <1> Types /\ OperatorInv(o)
    BY DEF Core
  <1> \A a \in Activations : ActivationInv(a)
    BY DEF Core
  <1>1. Moves(o, "idle", 0, 0, 0)
    BY EndsMoves
  <1> USE <1>1 DEF Moves, Decides, Records
  <1>2. Types'
    BY DEF Types, ScalingConstants
  <1>3. Frame(o)
    BY DEF OperatorInv, LockInv, OwnInv, Frame, Mine, Types, Moves, Activating, Reading,
       Undoing, Activations
  <1>4. OperatorInv(o)'
    BY DEF Types, ActivationInv, OperatorInv, LockInv, OwnInv, HoldInv, FaultInv, InForce,
       HoldsLock, Activating, Reading, Undoing, Revoking, Activations
  <1>5. ASSUME NEW a \in Activations, Mine(o, a) PROVE ActivationInv(a)'
    BY <1>5 DEF Types, Mine, ActivationInv, OperatorInv, LockInv, OwnInv, HoldInv, FaultInv,
       InForce, HoldsLock, Activating, Reading, Undoing, Revoking, Activations
  <1>6. QED
    BY <1>2, <1>3, <1>4, <1>5, FrameKeeps

\* RevokeReadsLock that finds its own lock keeps the invariant.
LEMMA RevokeReadsKeeps ==
  ASSUME ScalingConstants, Core, NEW o \in Operators, operator[o].pc = "revokeLock", lock.id = operator[o].id,
         operator' = [operator EXCEPT ![o].pc = "unlock", ![o].ver = lock.ver],
         UNCHANGED <<clock, failures, lock, recs, begun, outcome, overwritten>>
  PROVE  Core'
  <1> Types /\ OperatorInv(o)
    BY DEF Core
  <1> \A a \in Activations : ActivationInv(a)
    BY DEF Core
  <1>1. Moves(o, "unlock", operator[o].id, operator[o].time, lock.ver)
    BY ReadMoves DEF ScalingLabels
  <1> USE <1>1 DEF Moves, Decides, Records
  <1>2. Types'
    BY DEF Types, ScalingConstants
  <1>3. Frame(o)
    BY DEF OperatorInv, LockInv, OwnInv, Frame, Mine, Types, Moves, Activating, Reading,
       Undoing, Activations
  <1>4. OperatorInv(o)'
    BY DEF Types, ActivationInv, OperatorInv, LockInv, OwnInv, HoldInv, FaultInv, InForce,
       HoldsLock, Activating, Reading, Undoing, Revoking, Activations
  <1>5. ASSUME NEW a \in Activations, Mine(o, a) PROVE ActivationInv(a)'
    BY <1>5 DEF Types, Mine, ActivationInv, OperatorInv, LockInv, OwnInv, HoldInv, FaultInv,
       InForce, HoldsLock, Activating, Reading, Undoing, Revoking, Activations
  <1>6. QED
    BY <1>2, <1>3, <1>4, <1>5, FrameKeeps

\* RevokeLock that writes keeps the invariant.
LEMMA UnlocksKeeps ==
  ASSUME ScalingConstants, Core, NEW o \in Operators, operator[o].pc = "unlock", lock.ver = operator[o].ver,
         lock' = [lock EXCEPT !.status = "revoked", !.id = operator[o].id, !.ver = @ + 1],
         Ends(o), failures' \in {failures, failures + 1},
         UNCHANGED <<clock, recs, begun, outcome, overwritten>>
  PROVE  Core'
  <1> Types /\ OperatorInv(o)
    BY DEF Core
  <1> \A a \in Activations : ActivationInv(a)
    BY DEF Core
  <1>1. /\ operator[o].id \in Activations /\ recs[operator[o].id].status = "revoked"
        /\ ~overwritten => lock.id = operator[o].id
    BY DEF OperatorInv, LockInv, Revoking
  <1>2. Moves(o, "idle", 0, 0, 0)
    BY EndsMoves
  <1>3. /\ lock' \in [status : LockStatuses, id : Nat, expires : Nat, ver : Nat]
        /\ lock'.status = "revoked" /\ lock'.id = operator[o].id
        /\ lock'.expires = lock.expires /\ lock'.ver = lock.ver + 1
    BY LockIsUnlocked
  <1> USE <1>1, <1>2, <1>3 DEF Moves, Decides, Records
  <1>4. Types'
    BY DEF Types, ScalingConstants
  <1>5. Frame(o)
    BY DEF OperatorInv, LockInv, OwnInv, Frame, Mine, Types, Moves, Activating, Reading,
       Undoing, Activations
  <1>6. OperatorInv(o)'
    BY DEF Types, ActivationInv, OperatorInv, LockInv, OwnInv, HoldInv, FaultInv, InForce,
       HoldsLock, Activating, Reading, Undoing, Revoking, Activations
  <1>7. ASSUME NEW a \in Activations, Mine(o, a) PROVE ActivationInv(a)'
    BY <1>7 DEF Types, Mine, ActivationInv, OperatorInv, LockInv, OwnInv, HoldInv, FaultInv,
       InForce, HoldsLock, Activating, Reading, Undoing, Revoking, Activations
  <1>8. QED
    BY <1>4, <1>5, <1>6, <1>7, FrameKeeps

\* Every step keeps the core of the invariant.
LEMMA CoreStep ==
  ASSUME ScalingConstants, Core, [ScalingNext]_(scalingVars)
  PROVE  Core'
  <1> /\ Types /\ Distinct
      /\ \A p \in Operators : OperatorInv(p)
      /\ \A a \in Activations : ActivationInv(a)
    BY DEF Core
  <1>1. ASSUME NEW o \in Operators, ReadLock(o) PROVE Core'
    BY <1>1, GoesOnKeeps, GivesUpKeeps DEF ReadLock
  <1>2. ASSUME NEW o \in Operators, PutLock(o) PROVE Core'
    <2>1. operator[o].pc = "putLock"
      BY <1>2 DEF PutLock
    <2>2. CASE /\ Ends(o) /\ Outcome(o, "raised")
               /\ UNCHANGED <<clock, failures, lock, recs, begun, check, overwritten>>
      BY <2>1, <2>2, GivesUpKeeps
    <2>3. CASE (lock.ver = operator[o].ver \/ Crosses(o)) /\ PutsLock(o)
      BY <2>1, <2>3, GivesUpKeeps, TakesLockKeeps, TakesLockAndRaisesKeeps DEF
         PutsLock, Writes, Failure
    <2>4. QED
      BY <1>2, <2>2, <2>3 DEF PutLock
  <1>3. ASSUME NEW o \in Operators, PutRecord(o) PROVE Core'
    BY <1>3, WritesRecordKeeps, UndoKeeps DEF PutRecord, Writes, Failure
  <1>4. ASSUME NEW o \in Operators, AppendEvent(o) PROVE Core'
    BY <1>4, GrantKeeps, UndoKeeps DEF AppendEvent, Failure
  <1>5. ASSUME NEW o \in Operators, AbortRecord(o) PROVE Core'
    <2>1. CASE recs[operator[o].id].status = "active"
      BY <1>5, <2>1, AbortsRecordKeeps, LeavesRecordKeeps DEF AbortRecord,
         Writes, Failure
    <2>2. CASE recs[operator[o].id].status # "active"
      BY <1>5, <2>2, LeavesRecordKeeps DEF AbortRecord
    <2>3. QED
      BY <2>1, <2>2
  <1>6. ASSUME NEW o \in Operators, AbortLock(o) PROVE Core'
    <2>1. CASE lock.id = operator[o].id
      BY <1>6, <2>1, AbortsLockKeeps, LeavesLockKeeps DEF AbortLock, Writes,
         Failure
    <2>2. CASE lock.id # operator[o].id
      BY <1>6, <2>2, LeavesLockKeeps DEF AbortLock
    <2>3. QED
      BY <2>1, <2>2
  <1>7. ASSUME NEW o \in Operators, NEW b \in Activations, Revoke(o, b) PROVE Core'
    <2>1. /\ operator[o].pc = "idle" /\ recs[b].status = "active"
          /\ UNCHANGED <<clock, lock, begun, outcome, overwritten>>
      BY <1>7 DEF Revoke
    <2>2. CASE /\ recs' = [recs EXCEPT ![b].status = "revoked"]
               /\ operator' = [operator EXCEPT ![o] = [OperatorIdle EXCEPT !.pc = "revokeLock", !.id = b]]
               /\ UNCHANGED failures
      <3>1. b \in Nat
        BY DEF Activations, ScalingConstants
      <3>2. Moves(o, "revokeLock", b, 0, 0)
        BY <2>2, <3>1 DEF Moves, Types, ScalingLabels, OperatorIdle
      <3>3. QED
        BY <2>1, <2>2, <3>2, RevokesKeeps
    <2>3. CASE /\ recs' = [recs EXCEPT ![b].status = "revoked"]
               /\ Ends(o) /\ Failure
      <3>1. Moves(o, "idle", 0, 0, 0)
        BY <2>3, EndsMoves
      <3>2. QED
        BY <2>1, <2>3, <3>1, RevokesKeeps DEF Failure
    <2>4. CASE UNCHANGED recs /\ Ends(o) /\ Failure
      BY <2>1, <2>4, QuitKeeps DEF Failure
    <2>5. QED
      BY <1>7, <2>2, <2>3, <2>4 DEF Revoke, Writes
  <1>8. ASSUME NEW o \in Operators, RevokeReadsLock(o) PROVE Core'
    BY <1>8, RevokeReadsKeeps, QuitKeeps DEF RevokeReadsLock, authority
  <1>9. ASSUME NEW o \in Operators, RevokeLock(o) PROVE Core'
    <2>1. CASE lock.ver # operator[o].ver
      BY <1>9, <2>1, QuitKeeps DEF RevokeLock
    <2>2. CASE lock.ver = operator[o].ver
      BY <1>9, <2>2, QuitKeeps, UnlocksKeeps DEF RevokeLock, Writes, Failure
    <2>3. QED
      BY <2>1, <2>2
  <1>10. ASSUME NEW o \in Operators, Die(o) PROVE Core'
    BY <1>10, QuitKeeps DEF Die, Failure, authority
  <1>11. CASE Tick
    <2>1. clock < MaxClock /\ clock' = clock + 1
      BY <1>11 DEF Tick
    <2>2. UNCHANGED <<failures, lock, recs, outcome, operator, begun, overwritten>>
      BY <1>11 DEF Tick, authority
    <2> USE <2>1, <2>2
    <2>3. Types'
      BY DEF Types, ScalingConstants
    <2>4. Distinct'
      BY DEF Distinct
    <2>5. ASSUME NEW o \in Operators PROVE OperatorInv(o)'
      <3>1. OperatorInv(o)
        OBVIOUS
      <3>2. /\ operator[o].time \in Nat
            /\ operator[o].pc = "event" => recs[operator[o].id].expires \in Nat
        BY <3>1 DEF Types, OperatorInv, OwnInv, Activating
      <3>3. HoldInv(o)'
        BY <3>1, <3>2 DEF OperatorInv, HoldInv, InForce, HoldsLock, Types, ScalingConstants
      <3>4. QED
        BY <3>1, <3>3 DEF OperatorInv, LockInv, OwnInv, FaultInv
    <2>6. ASSUME NEW a \in Activations PROVE ActivationInv(a)'
      BY DEF ActivationInv, InForce, HoldsLock, Types
    <2>7. QED
      BY <2>3, <2>4, <2>5, <2>6 DEF Core, Activations
  <1>12. ASSUME UNCHANGED <<clock, failures, authority, operator, begun, overwritten>> PROVE Core'
    BY <1>12 DEF authority, Core, Types, Distinct, OperatorInv, LockInv, OwnInv,
       HoldInv, FaultInv, ActivationInv, InForce, HoldsLock, Activations
  <1>13. QED
    BY <1>1, <1>2, <1>3, <1>4, <1>5, <1>6, <1>7, <1>8, <1>9, <1>10, <1>11, <1>12,
       ActivateKeeps DEF ScalingNext, scalingVars, ValidateBegins, Validate,
       Answered

\* A validation answers for the record it read.
LEMMA CheckStep == CheckInv /\ [ScalingNext]_(scalingVars) => CheckInv'
  <1> SUFFICES ASSUME CheckInv, [ScalingNext]_(scalingVars) PROVE CheckInv'
    OBVIOUS
  <1> USE DEF CheckInv, RevokedIsRefused
  <1>1. ASSUME NEW a \in Activations, ValidateBegins(a) PROVE CheckInv'
    BY <1>1, Zenon DEF ValidateBegins
  <1>2. CASE Validate
    <2>1. check' = [check EXCEPT !.pc = "done",
                                 !.allowed = Allowed(check.row, check.id, clock)]
      BY <1>2, Zenon DEF Validate
    <2>2. check' = [pc |-> "done", id |-> check.id, row |-> check.row,
                    revoked |-> check.revoked,
                    allowed |-> Allowed(check.row, check.id, clock)]
      BY <2>1, Zenon
    <2>3. check.row.status = "revoked" => ~Allowed(check.row, check.id, clock)
      BY DEF Allowed
    <2>4. /\ check'.row = check.row /\ check'.revoked = check.revoked
          /\ check'.allowed = Allowed(check.row, check.id, clock)
          /\ check'.pc = "done" /\ check'.id = check.id
      BY <2>2, Zenon
    <2>5. QED
      BY <2>2, <2>3, <2>4, Zenon
  <1>3. CASE Answered
    BY <1>3, Zenon DEF Answered, NoCheck
  <1>4. CASE UNCHANGED check
    BY <1>4, Zenon
  <1>5. QED
    BY <1>1, <1>2, <1>3, <1>4 DEF ScalingNext, scalingVars, ActivateBegins,
       ReadLock, PutLock, PutsLock, PutRecord, AppendEvent, AbortRecord,
       AbortLock, Revoke, RevokeReadsLock, RevokeLock, Die,
       Tick

\* The invariant says what the properties say.
LEMMA InvImplies ==
  ASSUME ScalingConstants, ScalingInv
  PROVE  ScalingTypeOK /\ OneWins /\ RevokedIsRefused /\ RaisedIsRefused
  <1>1. ScalingTypeOK
    BY DEF ScalingInv, Core, Types, ScalingTypeOK, LockStatuses, ScalingConstants
  <1>2. OneWins
    BY DEF ScalingInv, Core, Types, ActivationInv, InForce, HoldsLock, OneWins
  <1>3. RaisedIsRefused
    BY DEF ScalingInv, Core, Types, ActivationInv, RaisedIsRefused, Allowed
  <1>4. QED
    BY <1>1, <1>2, <1>3 DEF ScalingInv, CheckInv

\* Only RevokeLock marks a lock revoked, and only the one its record names.
LEMMA RevokesStep ==
  ASSUME ScalingConstants, Core, [ScalingNext]_(scalingVars),
         ~overwritten', lock.status = "active", lock'.status = "revoked"
  PROVE  recs[lock.id].status = "revoked"
  <1> Types
    BY DEF Core
  <1>1. ASSUME NEW o \in Operators, RevokeLock(o) PROVE recs[lock.id].status = "revoked"
    <2>1. OperatorInv(o)
      BY DEF Core
    <2>2. lock.ver = operator[o].ver /\ operator[o].pc = "unlock" /\ ~overwritten
      BY <1>1 DEF RevokeLock
    <2>3. QED
      BY <2>1, <2>2 DEF OperatorInv, LockInv, Revoking
  <1>2. ASSUME NEW o \in Operators, PutLock(o) PROVE FALSE
    BY <1>2 DEF PutLock, PutsLock, Writes, TakeLock
  <1>3. ASSUME NEW o \in Operators, AbortLock(o) PROVE FALSE
    BY <1>3, LockChanges DEF AbortLock, Writes, LockStatuses
  <1>4. QED
    BY <1>1, <1>2, <1>3 DEF ScalingNext, scalingVars, authority, ActivateBegins,
       ReadLock, PutRecord, AppendEvent, AbortRecord, Revoke,
       RevokeReadsLock, Die, Tick, ValidateBegins, Validate,
       Answered

\* For any operators, lives and faults: an authority that was revoked or whose
\* activation raised is refused; and until a first writer has replaced another's
\* lock, at most one of the activations that answered with an authority is in
\* force, and a revocation takes no lock but its own
\* (campaigns/phase10_scaling.py: activate, revoke, validate_authority).
THEOREM AuthorityIsExclusiveHolds ==
  ASSUME ScalingConstants
  PROVE  ScalingSpec => AuthorityIsExclusive
  <1>1. ScalingInit => ScalingInv
    BY InitCore
  <1>2. ScalingInv /\ [ScalingNext]_(scalingVars) => ScalingInv'
    BY CoreStep, CheckStep DEF ScalingInv
  <1>3. ScalingInv => ScalingTypeOK /\ OneWins /\ RevokedIsRefused /\ RaisedIsRefused
    BY InvImplies
  <1>4. ScalingInv /\ [ScalingNext]_(scalingVars)
        => [~overwritten' /\ lock.status = "active" /\ lock'.status = "revoked" =>
               recs[lock.id].status = "revoked"]_(scalingVars)
    BY RevokesStep DEF ScalingInv
  <1>5. QED
    BY <1>1, <1>2, <1>3, <1>4, PTL DEF ScalingSpec, AuthorityIsExclusive,
       RevokesItsOwn

-----------------------------------------------------------------------------
(* TestnetBridge, for any trades, requests, deaths and ticks.  BridgeInv   *)
(* follows a thread from the read of the authorization to the record: the  *)
(* trade is no older than the campaign the thread goes on with             *)
(* (AttachedOK), and what the record will say is in the journal and, if it *)
(* says accepted, on the exchange (OutcomeOK).  VersionsOK is about the    *)
(* unlocked version: it is the stored one unless exactly one thread is     *)
(* between its put and its assignment, or a put was stored but raised.     *)
(* RecordsGrow says who may write a record: a thread that took the trade   *)
(* up when it had none (Takes), which then leaves it.                      *)

\* The bound on the instants is one.
BridgeConstants == MaxTime \in Nat

BridgeLabels == {"idle", "gone", "reconcile", "baseline", "next", "campaign", "plan",
                 "execute", "journal", "record", "state", "error", "assign", "assignError"}
Outcomes == {"invalid", "accepted", "unresolved"}
Assigning == {"assign", "assignError"}

\* Trades and campaigns come one at a time, each at an instant of its own.
WorldOK ==
    /\ now \in 0 .. MaxTime
    /\ created \in [Trades -> 0 .. now] /\ campaign \in 0 .. now

\* What the bridge and the exchange have written, and the cached report.
EvidenceOK ==
    /\ sent \in [Trades -> {"none", "accepted", "unknown", "settled"}]
    /\ mirrored \in [Trades -> [status : MirrorStatuses, camp : 0 .. MaxTime]]
    /\ journal \subseteq [status : MirrorStatuses, trade : Trades, camp : 0 .. MaxTime]
    /\ safe \in BOOLEAN

\* A record says accepted of an order that the exchange accepted.
AcceptedWasSent == \A t \in Trades : mirrored[t].status = "accepted" => sent[t] = "accepted"

RecordsOK == AttachesForwardOnly /\ RecordIsJournaled /\ AcceptedWasSent

\* The fields of a thread; one that has not passed the stage has no campaign.
LocalsOK(l) ==
    /\ l = [pc |-> l.pc, todo |-> l.todo, trade |-> l.trade, camp |-> l.camp, res |-> l.res]
    /\ l.pc \in BridgeLabels /\ l.todo \subseteq Trades /\ l.camp \in 0 .. MaxTime
    /\ l.res \in MirrorStatuses
    /\ l.pc \in OfTrade => l.trade \in Trades
    /\ l.pc \in {"reconcile", "baseline"} => l.camp = 0

\* Past the read of the authorization the trade is no older than the campaign
\* the thread goes on with.
AttachedOK(l) ==
    /\ l.pc \in {"plan", "execute", "journal"} => l.camp = 0 \/ created[l.trade] >= l.camp
    /\ l.pc = "record" /\ l.res # "ignored_campaign" => l.camp = 0 \/ created[l.trade] >= l.camp
    /\ l.pc = "record" /\ l.res = "ignored" => l.camp = 0

\* An order that a thread took for accepted was accepted, and a record to come
\* has its journal entry already.
OutcomeOK(l) ==
    /\ l.pc = "journal" => l.res \in Outcomes
    /\ l.pc \in {"journal", "record"} /\ l.res = "accepted" => sent[l.trade] = "accepted"
    /\ l.pc = "record" => l.res # "none"
    /\ l.pc = "record" /\ l.res \in Outcomes =>
          [status |-> l.res, trade |-> l.trade, camp |-> l.camp] \in journal

ThreadOK(l) == LocalsOK(l) /\ AttachedOK(l) /\ OutcomeOK(l)

\* Only the bridge's own thread handles an error, or is gone.
Placed == \A th \in Threads : th # Loop => thread[th].pc \notin {"error", "assignError", "gone"}

\* The remembered version is the stored one, unless one thread is between its
\* put and its assignment, or a put raised after all; then it is one behind.
VersionsOK ==
    /\ unheard \in {0, 1}
    /\ sver \in Nat /\ sver >= 1 /\ sdoc \in {sver, sver + 1}
    /\ sdoc = sver => \A th \in Threads : thread[th].pc \notin Assigning
    /\ sdoc # sver => unheard = 1 \/ \E th \in Threads : thread[th].pc \in Assigning
    /\ \A th, other \in Threads :
          thread[th].pc \in Assigning /\ thread[other].pc \in Assigning => th = other

\* The inductive invariant.
BridgeInv ==
    /\ WorldOK /\ EvidenceOK /\ RecordsOK /\ VersionsOK /\ Placed
    /\ thread = [th \in Threads |-> thread[th]]
    /\ \A th \in Threads : ThreadOK(thread[th])

\* A thread at rest.
LEMMA IdleOK == ASSUME BridgeConstants PROVE ThreadOK(IdleThread) /\ ThreadOK(GoneThread)
                 /\ IdleThread.pc = "idle" /\ GoneThread.pc = "gone"
<1>1. /\ IdleThread = [pc |-> "idle", todo |-> {}, trade |-> NoTrade, camp |-> 0, res |-> "none"]
      /\ GoneThread = [pc |-> "gone", todo |-> {}, trade |-> NoTrade, camp |-> 0, res |-> "none"]
  BY DEF IdleThread, GoneThread
<1> QED BY <1>1 DEF ThreadOK, LocalsOK, AttachedOK, OutcomeOK, BridgeLabels, OfTrade, Outcomes,
                    MirrorStatuses, BridgeConstants

\* The invariant gives the types.
LEMMA BridgeTypes == ASSUME BridgeConstants, BridgeInv PROVE BridgeTypeOK
<1>1. created \in [Trades -> 0 .. MaxTime] /\ campaign \in 0 .. MaxTime
  BY DEF BridgeInv, WorldOK, BridgeConstants
<1>2. sver \in 1 .. sdoc /\ unheard \in {0, 1}
  BY DEF BridgeInv, VersionsOK
<1>3. \A th \in Threads : thread[th].pc # "gone" \/ th = Loop
  BY DEF BridgeInv, Placed
<1> QED BY <1>1, <1>2, <1>3 DEF BridgeInv, EvidenceOK, BridgeTypeOK

\* A fresh bridge.
LEMMA BridgeStarts == ASSUME BridgeConstants, BridgeInit PROVE BridgeInv
<1>1. WorldOK
  BY DEF BridgeInit, WorldOK, BridgeConstants
<1>0. NoRecord \in [status : MirrorStatuses, camp : 0 .. MaxTime]
  BY DEF NoRecord, MirrorStatuses, BridgeConstants
<1>2. EvidenceOK
  BY <1>0 DEF BridgeInit, EvidenceOK
<1>3. RecordsOK
  BY DEF BridgeInit, RecordsOK, AttachesForwardOnly, RecordIsJournaled, AcceptedWasSent, NoRecord
<1>4. \A th \in Threads : /\ thread[th] \in {IdleThread, GoneThread}
                          /\ th # Loop => thread[th] = IdleThread
  BY DEF BridgeInit
<1>5. VersionsOK /\ Placed
  BY <1>4, IdleOK DEF BridgeInit, VersionsOK, Placed, Assigning
<1>6. \A th \in Threads : ThreadOK(thread[th])
  BY <1>4, IdleOK
<1>7. thread = [th \in Threads |-> thread[th]]
  BY DEF BridgeInit
<1> QED BY <1>1, <1>2, <1>3, <1>5, <1>6, <1>7 DEF BridgeInv

\* What every step does: keep the invariant and the two action properties.
Kept == BridgeInv' /\ RecordsAreFinalStep /\ LoopSurvivesStep

\* Instants, accepted orders and journal entries stay.
Grows ==
    /\ \A t \in Trades : created[t] # 0 => created'[t] = created[t]
    /\ \A t \in Trades : sent[t] = "accepted" => sent'[t] = "accepted"
    /\ journal \subseteq journal'

\* A thread that goes to work on a trade was at work on it, or finds no record.
Takes(th, next) ==
    next.pc \in OfTrade => \/ mirrored[next.trade] = NoRecord
                           \/ thread[th].pc \in OfTrade /\ thread[th].trade = next.trade

\* A record is written by a thread that leaves its trade with it.
RecordsGrow(th, next) ==
    \A t \in Trades :
       /\ \/ mirrored'[t] = mirrored[t]
          \/ /\ thread[th].pc \in OfTrade /\ thread[th].trade = t /\ next.pc \notin OfTrade
             /\ mirrored'[t] # NoRecord
       /\ mirrored'[t].status = "accepted" => sent[t] = "accepted"

\* What a thread knows stays true while the evidence grows.
LEMMA ThreadKeeps ==
    ASSUME BridgeConstants, WorldOK, WorldOK', Grows, NEW l, ThreadOK(l)
    PROVE ThreadOK(l)'
<1>1. LocalsOK(l)'
  BY DEF ThreadOK, LocalsOK
<1>2. \A t \in Trades : created[t] # 0 => created'[t] = created[t]
  BY DEF Grows
<1>3. ASSUME l.trade \in Trades, l.camp \in 0 .. MaxTime, l.camp = 0 \/ created[l.trade] >= l.camp
      PROVE  l.camp = 0 \/ created'[l.trade] >= l.camp
  BY <1>2, <1>3 DEF WorldOK, BridgeConstants
<1>4. AttachedOK(l)'
  BY <1>3 DEF ThreadOK, LocalsOK, AttachedOK, OfTrade
<1>5. OutcomeOK(l)'
  BY DEF ThreadOK, LocalsOK, OutcomeOK, Grows, OfTrade
<1> QED BY <1>1, <1>4, <1>5 DEF ThreadOK

\* One thread moves and writes; the loop's thread goes only beside a request
\* that is storing the state.
LEMMA ThreadMoves ==
    ASSUME BridgeConstants, BridgeInv, NEW th \in Threads, NEW next, ThreadGoes(th, next),
       ThreadOK(next)',
           th # Loop => next.pc \notin {"error", "assignError", "gone"},
           \/ next.pc # "gone" \/ sver = sdoc \/ unheard = 1
           \/ \E other \in Requests : thread[other].pc = "assign",
           Grows, WorldOK', EvidenceOK', RecordsOK', VersionsOK', Takes(th, next),
           RecordsGrow(th, next)
    PROVE  Kept
<1>1. /\ thread' = [x \in Threads |-> thread'[x]] /\ thread'[th] = next
      /\ \A x \in Threads : x # th => thread'[x] = thread[x]
  BY DEF BridgeInv, ThreadGoes
<1>2. ASSUME NEW x \in Threads PROVE ThreadOK(thread[x])'
  <2>1. PICK l : l = thread'[x]
    OBVIOUS
  <2>2. CASE x = th
    <3>1. l = next
      BY <1>1, <2>1, <2>2
    <3> QED BY <2>1, <3>1
  <2>3. CASE x # th
    <3>1. ThreadOK(l)
      BY <1>1, <2>1, <2>3 DEF BridgeInv
    <3>2. ThreadOK(l)'
      BY <3>1, ThreadKeeps DEF BridgeInv
    <3> QED BY <2>1, <3>2
  <2> QED BY <2>2, <2>3
<1>3. Placed'
  BY <1>1 DEF BridgeInv, Placed
<1>4. LoopSurvivesStep
  BY <1>1 DEF LoopSurvivesStep, Threads
<1>5. ASSUME NEW t \in Trades, mirrored[t] # NoRecord
      PROVE  /\ mirrored'[t] # NoRecord /\ Recording(t)' \subseteq Recording(t)
             /\ mirrored'[t] # mirrored[t] => Recording(t)' # Recording(t)
  <2>1. Recording(t)' \subseteq Recording(t)
    BY <1>1, <1>5 DEF Recording, Takes
  <2>2. ASSUME mirrored'[t] # mirrored[t]
        PROVE  mirrored'[t] # NoRecord /\ th \in Recording(t) /\ th \notin Recording(t)'
    BY <1>1, <2>2 DEF RecordsGrow, Recording
  <2> QED BY <1>5, <2>1, <2>2
<1>6. RecordsAreFinalStep
  BY <1>5 DEF RecordsGrow, RecordsAreFinalStep
<1> QED BY <1>1, <1>2, <1>3, <1>4, <1>6 DEF BridgeInv, Kept

\* A thread that stores no state.
LEMMA VersionsKept ==
    ASSUME BridgeInv, NEW th \in Threads, NEW next, ThreadGoes(th, next),
           thread[th].pc \notin Assigning, next.pc \notin Assigning, UNCHANGED <<sdoc, sver, unheard>>
    PROVE  VersionsOK'
<1>1. /\ thread'[th] = next
      /\ \A x \in Threads : x # th => thread'[x] = thread[x]
  BY DEF BridgeInv, ThreadGoes
<1> QED BY <1>1 DEF BridgeInv, VersionsOK

\* One thread moves and writes no evidence.
LEMMA ThreadWalks ==
    ASSUME BridgeConstants, BridgeInv, NEW th \in Threads, NEW next, ThreadGoes(th, next),
       ThreadOK(next),
           th # Loop => next.pc \notin {"error", "assignError"}, next.pc # "gone",
           thread[th].pc \notin Assigning, next.pc \notin Assigning,
           UNCHANGED <<now, created, campaign, sent, mirrored, journal, sdoc, sver, unheard>>,
              safe' \in BOOLEAN, Takes(th, next)
    PROVE  Kept
<1>1. Grows
  BY DEF Grows
<1>2. WorldOK' /\ EvidenceOK' /\ RecordsOK'
  BY DEF BridgeInv, WorldOK, EvidenceOK, RecordsOK, AttachesForwardOnly, RecordIsJournaled,
         AcceptedWasSent
<1>3. ThreadOK(next)'
  BY <1>1, <1>2, ThreadKeeps DEF BridgeInv
<1>4. VersionsOK'
  BY VersionsKept
<1>5. RecordsGrow(th, next)
  BY DEF BridgeInv, RecordsOK, AcceptedWasSent, RecordsGrow
<1> QED BY <1>1, <1>2, <1>3, <1>4, <1>5, ThreadMoves

\* A step of the world.
LEMMA NoThreadMoves ==
    ASSUME BridgeConstants, BridgeInv, Grows, WorldOK', EvidenceOK', RecordsOK',
           UNCHANGED <<thread, mirrored, sdoc, sver, unheard>>
    PROVE  Kept
<1>1. ASSUME NEW x \in Threads PROVE ThreadOK(thread[x])'
  <2>1. PICK l : l = thread[x]
    OBVIOUS
  <2>2. ThreadOK(l)'
    BY <2>1, ThreadKeeps DEF BridgeInv
  <2> QED BY <2>1, <2>2
<1>2. VersionsOK' /\ Placed' /\ thread' = [th \in Threads |-> thread'[th]]
  BY DEF BridgeInv, VersionsOK, Placed
<1>3. RecordsAreFinalStep /\ LoopSurvivesStep
  BY DEF BridgeInv, RecordsOK, AcceptedWasSent, RecordsAreFinalStep, Recording, LoopSurvivesStep
<1> QED BY <1>1, <1>2, <1>3 DEF BridgeInv, Kept

\* The five fields of a thread.
Literal(l) == l = [pc |-> l.pc, todo |-> l.todo, trade |-> l.trade, camp |-> l.camp, res
   |-> l.res]

\* A thread goes to another place.
LEMMA PcChanges ==
    ASSUME NEW l, Literal(l), NEW x, NEW next, next = [l EXCEPT !.pc = x]
    PROVE  /\ Literal(next) /\ next.pc = x /\ next.todo = l.todo /\ next.trade = l.trade
           /\ next.camp = l.camp /\ next.res = l.res
<1>1. next = [pc |-> x, todo |-> l.todo, trade |-> l.trade, camp |-> l.camp, res |-> l.res]
  BY Zenon DEF Literal
<1> QED BY <1>1 DEF Literal

\* A thread takes a campaign.
LEMMA CampChanges ==
    ASSUME NEW l, Literal(l), NEW x, NEW next, next = [l EXCEPT !.camp = x]
    PROVE  /\ Literal(next) /\ next.pc = l.pc /\ next.todo = l.todo /\ next.trade = l.trade
           /\ next.camp = x /\ next.res = l.res
<1>1. next = [pc |-> l.pc, todo |-> l.todo, trade |-> l.trade, camp |-> x, res |-> l.res]
  BY Zenon DEF Literal
<1> QED BY <1>1 DEF Literal

\* A thread takes a trade off its list.
LEMMA TodoChanges ==
    ASSUME NEW l, Literal(l), NEW x, NEW next, next = [l EXCEPT !.todo = @ \ {x}]
    PROVE  /\ Literal(next) /\ next.pc = l.pc /\ next.todo = l.todo \ {x} /\ next.trade = l.trade
           /\ next.camp = l.camp /\ next.res = l.res
<1>1. next = [pc |-> l.pc, todo |-> l.todo \ {x}, trade |-> l.trade, camp |-> l.camp, res
   |-> l.res]
  BY Zenon DEF Literal
<1> QED BY <1>1 DEF Literal

\* A thread goes on with an outcome.
LEMMA ResChanges ==
    ASSUME NEW l, Literal(l), NEW x, NEW r, NEW next, next = [l EXCEPT !.pc = x, !.res = r]
    PROVE  /\ Literal(next) /\ next.pc = x /\ next.todo = l.todo /\ next.trade = l.trade
           /\ next.camp = l.camp /\ next.res = r
<1>1. next = [pc |-> x, todo |-> l.todo, trade |-> l.trade, camp |-> l.camp, res |-> r]
  BY Zenon DEF Literal
<1> QED BY <1>1 DEF Literal

\* A new trade is younger than every campaign.
LEMMA BookTradeKeeps ==
    ASSUME BridgeConstants, BridgeInv, NEW t \in Trades, BookTrade(t)
    PROVE Kept
<1>1. WorldOK' /\ Grows
  BY DEF BookTrade, BridgeInv, WorldOK, BridgeConstants, Grows, bridgeEvidence
<1>2. EvidenceOK'
  BY DEF BookTrade, BridgeInv, EvidenceOK, bridgeEvidence, bridgeMemory
<1>3. AttachesForwardOnly'
  <2>1. \A x \in Trades : created[x] # 0 => created'[x] = created[x]
    BY <1>1 DEF Grows
  <2>2. \A x \in Trades : mirrored'[x] = mirrored[x] /\ mirrored[x].camp \in 0 .. MaxTime /\ created[x] \in 0 .. now
    BY DEF BookTrade, BridgeInv, EvidenceOK, WorldOK, bridgeEvidence
  <2> QED BY <2>1, <2>2 DEF BridgeInv, RecordsOK, AttachesForwardOnly, WorldOK, BridgeConstants
<1>4. RecordsOK'
  BY <1>3 DEF BookTrade, BridgeInv, RecordsOK, RecordIsJournaled, AcceptedWasSent, bridgeEvidence
<1> QED BY <1>1, <1>2, <1>4, NoThreadMoves DEF BookTrade, bridgeEvidence, bridgeMemory

\* Evidence settles only what was left open.
LEMMA SettlesKeeps == ASSUME BridgeConstants, BridgeInv, NEW t \in Trades, Settles(t) PROVE Kept
<1>1. WorldOK' /\ Grows
  BY DEF Settles, BridgeInv, WorldOK, EvidenceOK, Grows, bridgeWorld
<1>2. EvidenceOK'
  BY DEF Settles, BridgeInv, EvidenceOK, bridgeMemory
<1>3. RecordsOK'
  BY <1>1 DEF Settles, BridgeInv, RecordsOK, AttachesForwardOnly, RecordIsJournaled,
     AcceptedWasSent,
         bridgeWorld, Grows
<1> QED BY <1>1, <1>2, <1>3, NoThreadMoves DEF Settles, bridgeMemory

\* Campaigns and the stage change no evidence.
LEMMA CampaignMoves ==
    ASSUME BridgeConstants, BridgeInv, CampaignStarts \/ CampaignEnds \/ StageChanges PROVE Kept
<1>1. UNCHANGED <<created, bridgeEvidence, bridgeMemory, thread>>
  BY DEF CampaignStarts, CampaignEnds, StageChanges
<1>2. WorldOK' /\ Grows
  BY <1>1 DEF CampaignStarts, CampaignEnds, StageChanges, BridgeInv, WorldOK, BridgeConstants,
     Grows,
     bridgeEvidence
<1>3. EvidenceOK' /\ RecordsOK'
  BY <1>1 DEF BridgeInv, EvidenceOK, RecordsOK, AttachesForwardOnly, RecordIsJournaled,
              AcceptedWasSent, bridgeEvidence, bridgeMemory
<1> QED BY <1>1, <1>2, <1>3, NoThreadMoves DEF bridgeEvidence, bridgeMemory

\* A thread goes to a place where it works on no trade.
LEMMA StateWalk ==
    ASSUME BridgeConstants, BridgeInv, NEW th \in Threads,
       NEW x \in {"state", "next", "baseline", "reconcile"},
           ThreadAt(th, x), x \in {"reconcile", "baseline"} => thread[th].camp = 0,
           thread[th].pc \notin Assigning,
           UNCHANGED <<now, created, campaign, sent, mirrored, journal, sdoc, sver, unheard>>,
              safe' \in BOOLEAN
    PROVE  Kept
<1>1. PICK l : l = thread[th]
  OBVIOUS
<1>2. PICK next : next = [l EXCEPT !.pc = x]
  OBVIOUS
<1>3. ThreadOK(l)
  BY <1>1 DEF BridgeInv
<1>4. /\ Literal(next) /\ next.pc = x /\ next.todo = l.todo /\ next.trade = l.trade
      /\ next.camp = l.camp /\ next.res = l.res
  BY <1>2, <1>3, PcChanges DEF ThreadOK, LocalsOK, Literal
<1>5. ThreadOK(next)
  BY <1>1, <1>3, <1>4 DEF ThreadOK, LocalsOK, AttachedOK, OutcomeOK, Literal, BridgeLabels,
     OfTrade
<1>6. ThreadGoes(th, next)
  BY <1>1, <1>2 DEF ThreadAt
<1>7. next.pc \notin Assigning /\ Takes(th, next)
  BY <1>4 DEF Assigning, Takes, OfTrade
<1> QED BY <1>4, <1>5, <1>6, <1>7, ThreadWalks

\* A thread comes to rest.
LEMMA IdleWalk ==
    ASSUME BridgeConstants, BridgeInv, NEW th \in Threads, ThreadGoes(th, IdleThread),
           thread[th].pc \notin Assigning,
           UNCHANGED <<now, created, campaign, sent, mirrored, journal, sdoc, sver, unheard>>,
              safe' \in BOOLEAN
    PROVE  Kept
<1>1. PICK next : next = IdleThread
  OBVIOUS
<1>2. ThreadGoes(th, next) /\ ThreadOK(next) /\ next.pc = "idle" /\ next.pc \notin Assigning
        /\ Takes(th, next)
  BY <1>1, IdleOK DEF Assigning, Takes, OfTrade
<1> QED BY <1>2, ThreadWalks

\* A tick raises.
LEMMA RaiseWalk ==
    ASSUME BridgeConstants, BridgeInv, NEW th \in Threads, TickRaises(th),
           thread[th].pc \notin Assigning,
           UNCHANGED <<now, created, campaign, sent, mirrored, journal, sdoc, sver, unheard>>,
              safe' \in BOOLEAN
    PROVE  Kept
<1>1. CASE th # Loop
  BY <1>1, IdleWalk DEF TickRaises
<1>2. CASE th = Loop
  <2>1. PICK l : l = thread[th]
    OBVIOUS
  <2>2. PICK next : next = [l EXCEPT !.pc = "error"]
    OBVIOUS
  <2>3. ThreadOK(l)
    BY <2>1 DEF BridgeInv
  <2>4. /\ Literal(next) /\ next.pc = "error" /\ next.todo = l.todo /\ next.trade = l.trade
        /\ next.camp = l.camp /\ next.res = l.res
    BY <2>2, <2>3, PcChanges DEF ThreadOK, LocalsOK, Literal
  <2>5. ThreadOK(next)
    BY <2>3, <2>4 DEF ThreadOK, LocalsOK, AttachedOK, OutcomeOK, Literal, BridgeLabels, OfTrade
  <2>6. ThreadGoes(th, next) /\ next.pc \notin Assigning /\ Takes(th, next)
    BY <1>2, <2>1, <2>2, <2>4 DEF ThreadAt, TickRaises, Assigning, Takes, OfTrade
  <2> QED BY <1>2, <2>4, <2>5, <2>6, ThreadWalks
<1> QED BY <1>1, <1>2

\* start either starts the thread or leaves its caller to store the state.
LEMMA StartKeeps ==
    ASSUME BridgeConstants, BridgeInv, NEW th \in Requests,
       Start(th) \/ StartReconciles(th) PROVE Kept
<1>1. /\ th \in Threads /\ Loop \in Threads /\ thread[th].pc = "idle" /\ thread[Loop].pc = "gone"
      /\ thread[th].pc \notin Assigning /\ thread[Loop].pc \notin Assigning
  BY DEF Start, StartReconciles, Threads, Assigning
<1>2. UNCHANGED <<now, created, campaign, sent, mirrored, journal, sdoc, sver, unheard>> /\ safe' \in BOOLEAN
  BY DEF Start, StartReconciles, Reports, BridgeInv, EvidenceOK, bridgeWorld, bridgeEvidence,
     bridgeMemory
<1>3. ThreadGoes(Loop, IdleThread) \/ ThreadAt(th, "state")
  BY DEF Start, StartReconciles
<1>4. CASE ThreadGoes(Loop, IdleThread)
  BY <1>1, <1>2, <1>4, IdleWalk
<1>5. CASE ThreadAt(th, "state")
  BY <1>1, <1>2, <1>5, StateWalk
<1> QED BY <1>3, <1>4, <1>5

\* A tick lists the trades, and knows no campaign.
LEMMA TicksKeeps ==
    ASSUME BridgeConstants, BridgeInv, NEW th \in Threads, BridgeTicks(th)
    PROVE Kept
<1>1. PICK x : x = IF open THEN "reconcile" ELSE "baseline"
  OBVIOUS
<1>2. PICK listed : listed = {t \in Trades : created[t] > 0}
  OBVIOUS
<1>3. PICK next : next = [IdleThread EXCEPT !.pc = x, !.todo = listed]
  OBVIOUS
<1>4. IdleThread = [pc |-> "idle", todo |-> {}, trade |-> NoTrade, camp |-> 0, res |-> "none"]
  BY DEF IdleThread
<1>5. next = [pc |-> x, todo |-> listed, trade |-> NoTrade, camp |-> 0, res |-> "none"]
  BY <1>3, <1>4, Zenon
<1>6. x \in {"reconcile", "baseline"} /\ listed \subseteq Trades
  BY <1>1, <1>2
<1>7. ThreadOK(next)
  BY <1>5, <1>6 DEF ThreadOK, LocalsOK, AttachedOK, OutcomeOK, BridgeLabels, OfTrade,
     MirrorStatuses, BridgeConstants
<1>8. ThreadGoes(th, next)
  BY <1>1, <1>2, <1>3 DEF BridgeTicks
<1>9. next.pc \notin Assigning /\ thread[th].pc \notin Assigning /\ next.pc \notin {"error", "assignError", "gone"}
  BY <1>5, <1>6 DEF Assigning, BridgeTicks
<1>11. Takes(th, next)
  BY <1>5, <1>6 DEF Takes, OfTrade
<1>10. UNCHANGED <<now, created, campaign, sent, mirrored, journal, sdoc, sver, unheard>> /\ safe' \in BOOLEAN
  BY DEF BridgeTicks, BridgeInv, EvidenceOK, bridgeWorld, bridgeEvidence, bridgeMemory
<1> QED BY <1>7, <1>8, <1>9, <1>10, <1>11, ThreadWalks

\* The reconciliation decides where the tick goes on.
LEMMA ReconcileKeeps ==
    ASSUME BridgeConstants, BridgeInv, NEW th \in Threads, Reconcile(th)
    PROVE Kept
<1>1. PICK x \in {"state", "next", "baseline"} : ThreadAt(th, x)
  BY DEF Reconcile
<1>2. thread[th].camp = 0 /\ thread[th].pc \notin Assigning
  BY DEF Reconcile, BridgeInv, ThreadOK, LocalsOK, Assigning
<1>3. UNCHANGED <<now, created, campaign, sent, mirrored, journal, sdoc, sver, unheard>> /\ safe' \in BOOLEAN
  BY DEF Reconcile, Reports, BridgeInv, EvidenceOK, bridgeWorld, bridgeEvidence
<1> QED BY <1>1, <1>2, <1>3, StateWalk

\* The baseline writes a trade off under no campaign.
LEMMA BaselineKeeps ==
    ASSUME BridgeConstants, BridgeInv, NEW th \in Threads, Baseline(th)
    PROVE Kept
<1>1. thread[th].pc \notin Assigning /\ thread[th].pc = "baseline"
  BY DEF Baseline, Assigning
<1>2. UNCHANGED <<now, created, campaign, sent, mirrored, journal, sdoc, sver, unheard>> /\ safe' \in BOOLEAN
  BY DEF Baseline, BridgeInv, EvidenceOK, bridgeWorld, bridgeEvidence, bridgeMemory
<1>3. CASE ThreadAt(th, "state")
  BY <1>1, <1>2, <1>3, StateWalk
<1>4. ASSUME NEW t \in thread[th].todo,
             ThreadGoes(th, IF mirrored[t] = NoRecord
                            THEN [[thread[th] EXCEPT !.todo = @ \ {t}] EXCEPT
                                     !.pc = "record", !.trade = t, !.res = "ignored"]
                            ELSE [thread[th] EXCEPT !.todo = @ \ {t}])
      PROVE  Kept
  <2>1. PICK l : l = thread[th]
    OBVIOUS
  <2>2. PICK rest : rest = [l EXCEPT !.todo = @ \ {t}]
    OBVIOUS
  <2>3. ThreadOK(l) /\ l.pc = "baseline" /\ l.camp = 0
    BY <1>1, <2>1 DEF BridgeInv, ThreadOK, LocalsOK
  <2>4. /\ Literal(rest) /\ rest.pc = "baseline" /\ rest.todo = l.todo \ {t} /\ rest.trade = l.trade
        /\ rest.camp = 0 /\ rest.res = l.res
    BY <2>2, <2>3, TodoChanges DEF ThreadOK, LocalsOK, Literal
  <2>5. PICK next : next = [rest EXCEPT !.pc = "record", !.trade = t, !.res = "ignored"]
    OBVIOUS
  <2>6. /\ Literal(next) /\ next.pc = "record" /\ next.todo = rest.todo /\ next.trade = t
        /\ next.camp = rest.camp /\ next.res = "ignored"
    <3>1. rest = [pc |-> rest.pc, todo |-> rest.todo, trade |-> rest.trade, camp |-> rest.camp,
                  res |-> rest.res]
      BY <2>4 DEF Literal
    <3>2. next = [pc |-> "record", todo |-> rest.todo, trade |-> t, camp |-> rest.camp,
                  res |-> "ignored"]
      BY <3>1, <2>5, Zenon
    <3> QED BY <3>2 DEF Literal
  <2>7. (ThreadGoes(th, next) /\ mirrored[t] = NoRecord) \/ ThreadGoes(th, rest)
    BY <1>4, <2>1, <2>2, <2>5
  <2>8. t \in Trades
    BY <2>1, <2>3 DEF ThreadOK, LocalsOK
  <2>9. ThreadOK(rest) /\ ThreadOK(next)
    BY <2>3, <2>4, <2>6, <2>8 DEF ThreadOK, LocalsOK, AttachedOK, OutcomeOK, BridgeLabels,
       OfTrade,
       MirrorStatuses, Outcomes, Literal
  <2>10. rest.pc \notin Assigning /\ next.pc \notin Assigning
    BY <2>4, <2>6 DEF Assigning
  <2>11. Takes(th, rest)
    BY <2>4 DEF Takes, OfTrade
  <2>12. ASSUME mirrored[t] = NoRecord PROVE Takes(th, next)
    BY <2>6, <2>12 DEF Takes
  <2> QED BY <1>1, <1>2, <2>4, <2>6, <2>7, <2>9, <2>10, <2>11, <2>12, ThreadWalks
<1> QED BY <1>3, <1>4 DEF Baseline

\* The loop of tick takes a trade without a record.
LEMMA NextTradeKeeps ==
    ASSUME BridgeConstants, BridgeInv, NEW th \in Threads, NextTrade(th)
    PROVE Kept
<1>1. thread[th].pc \notin Assigning /\ thread[th].pc = "next"
  BY DEF NextTrade, Assigning
<1>2. UNCHANGED <<now, created, campaign, sent, mirrored, journal, sdoc, sver, unheard>> /\ safe' \in BOOLEAN
  BY DEF NextTrade, BridgeInv, EvidenceOK, bridgeWorld, bridgeEvidence, bridgeMemory
<1>3. CASE ThreadGoes(th, IdleThread)
  BY <1>1, <1>2, <1>3, IdleWalk
<1>4. ASSUME NEW t \in thread[th].todo,
             ThreadGoes(th, IF mirrored[t] = NoRecord
                            THEN [[thread[th] EXCEPT !.todo = @ \ {t}] EXCEPT !.pc = "campaign", !.trade = t]
                            ELSE [thread[th] EXCEPT !.todo = @ \ {t}])
      PROVE  Kept
  <2>1. PICK l : l = thread[th]
    OBVIOUS
  <2>2. PICK rest : rest = [l EXCEPT !.todo = @ \ {t}]
    OBVIOUS
  <2>3. ThreadOK(l) /\ l.pc = "next"
    BY <1>1, <2>1 DEF BridgeInv
  <2>4. /\ Literal(rest) /\ rest.pc = "next" /\ rest.todo = l.todo \ {t} /\ rest.trade = l.trade
        /\ rest.camp = l.camp /\ rest.res = l.res
    BY <2>2, <2>3, TodoChanges DEF ThreadOK, LocalsOK, Literal
  <2>5. PICK next : next = [rest EXCEPT !.pc = "campaign", !.trade = t]
    OBVIOUS
  <2>6. /\ Literal(next) /\ next.pc = "campaign" /\ next.todo = rest.todo /\ next.trade = t
        /\ next.camp = rest.camp /\ next.res = rest.res
    <3>1. rest = [pc |-> rest.pc, todo |-> rest.todo, trade |-> rest.trade, camp |-> rest.camp,
                  res |-> rest.res]
      BY <2>4 DEF Literal
    <3>2. next = [pc |-> "campaign", todo |-> rest.todo, trade |-> t, camp |-> rest.camp,
                  res |-> rest.res]
      BY <3>1, <2>5, Zenon
    <3> QED BY <3>2 DEF Literal
  <2>7. (ThreadGoes(th, next) /\ mirrored[t] = NoRecord) \/ ThreadGoes(th, rest)
    BY <1>4, <2>1, <2>2, <2>5
  <2>8. t \in Trades
    BY <2>1, <2>3 DEF ThreadOK, LocalsOK
  <2>9. ThreadOK(rest) /\ ThreadOK(next)
    BY <2>3, <2>4, <2>6, <2>8 DEF ThreadOK, LocalsOK, AttachedOK, OutcomeOK, BridgeLabels,
       OfTrade,
       MirrorStatuses, Outcomes, Literal
  <2>10. rest.pc \notin Assigning /\ next.pc \notin Assigning
    BY <2>4, <2>6 DEF Assigning
  <2>11. Takes(th, rest)
    BY <2>4 DEF Takes, OfTrade
  <2>12. ASSUME mirrored[t] = NoRecord PROVE Takes(th, next)
    BY <2>6, <2>12 DEF Takes
  <2> QED BY <1>1, <1>2, <2>4, <2>6, <2>7, <2>9, <2>10, <2>11, <2>12, ThreadWalks
<1> QED BY <1>3, <1>4 DEF NextTrade

\* The authorization is read: the trade is written off, or no older than it.
LEMMA ReadCampaignKeeps ==
    ASSUME BridgeConstants, BridgeInv, NEW th \in Threads, ReadCampaign(th)
    PROVE Kept
<1>1. PICK l : l = thread[th]
  OBVIOUS
<1>2. PICK c : c = campaign
  OBVIOUS
<1>3. PICK on : on = [l EXCEPT !.camp = c]
  OBVIOUS
<1>4. ThreadOK(l) /\ l.pc = "campaign" /\ l.trade \in Trades
  BY <1>1 DEF BridgeInv, ReadCampaign, ThreadOK, LocalsOK, OfTrade
<1>5. on = [pc |-> l.pc, todo |-> l.todo, trade |-> l.trade, camp |-> c, res |-> l.res]
  BY <1>3, <1>4, Zenon DEF ThreadOK, LocalsOK
<1>6. PICK off : off = [on EXCEPT !.pc = "record", !.res = "ignored_campaign"]
  OBVIOUS
<1>7. PICK goes : goes = [on EXCEPT !.pc = "plan"]
  OBVIOUS
<1>8. off = [pc |-> "record", todo |-> l.todo, trade |-> l.trade, camp |-> c, res
   |-> "ignored_campaign"]
  BY <1>5, <1>6, Zenon
<1>9. goes = [pc |-> "plan", todo |-> l.todo, trade |-> l.trade, camp |-> c, res |-> l.res]
  BY <1>5, <1>7, Zenon
<1>10. on.trade = l.trade
  BY <1>5
<1>11. \/ ThreadGoes(th, off)
       \/ ThreadGoes(th, goes) /\ (c = 0 \/ ~(created[l.trade] < c))
  BY <1>1, <1>2, <1>3, <1>6, <1>7, <1>10 DEF ReadCampaign
<1>12. c \in 0 .. MaxTime /\ c \in Nat /\ created[l.trade] \in Nat
  BY <1>2, <1>4 DEF BridgeInv, WorldOK, BridgeConstants
<1>13. ThreadOK(off)
  BY <1>4, <1>8, <1>12 DEF ThreadOK, LocalsOK, AttachedOK, OutcomeOK, BridgeLabels, OfTrade,
     MirrorStatuses, Outcomes
<1>14. c = 0 \/ created[l.trade] >= c => ThreadOK(goes)
  BY <1>4, <1>9, <1>12 DEF ThreadOK, LocalsOK, AttachedOK, OutcomeOK, BridgeLabels, OfTrade
<1>15. /\ UNCHANGED <<now, created, campaign, sent, mirrored, journal, sdoc, sver, unheard>> /\ safe' \in BOOLEAN
       /\ thread[th].pc \notin Assigning
  BY DEF ReadCampaign, BridgeInv, EvidenceOK, bridgeWorld, bridgeEvidence, bridgeMemory, Assigning
<1>16. off.pc = "record" /\ goes.pc = "plan" /\ off.pc \notin Assigning /\ goes.pc \notin Assigning
  BY <1>8, <1>9 DEF Assigning
<1>19. Takes(th, off) /\ Takes(th, goes)
  BY <1>1, <1>4, <1>8, <1>9 DEF Takes, OfTrade
<1>17. CASE ThreadGoes(th, off)
  BY <1>13, <1>15, <1>16, <1>17, <1>19, ThreadWalks
<1>18. CASE ThreadGoes(th, goes) /\ (c = 0 \/ ~(created[l.trade] < c))
  <2>1. ThreadOK(goes)
    BY <1>12, <1>14, <1>18
  <2> QED BY <1>15, <1>16, <1>18, <1>19, <2>1, ThreadWalks
<1> QED BY <1>11, <1>17, <1>18

\* A plan, or a refusal that is to be journaled.
LEMMA PlanKeeps == ASSUME BridgeConstants, BridgeInv, NEW th \in Threads, Plan(th) PROVE Kept
<1>1. PICK l : l = thread[th]
  OBVIOUS
<1>2. ThreadOK(l) /\ l.pc = "plan" /\ l.trade \in Trades
  BY <1>1 DEF BridgeInv, Plan, ThreadOK, LocalsOK, OfTrade
<1>3. PICK bad : bad = [l EXCEPT !.pc = "journal", !.res = "invalid"]
  OBVIOUS
<1>4. PICK good : good = [l EXCEPT !.pc = "execute"]
  OBVIOUS
<1>5. bad = [pc |-> "journal", todo |-> l.todo, trade |-> l.trade, camp |-> l.camp, res
   |-> "invalid"]
  BY <1>2, <1>3, Zenon DEF ThreadOK, LocalsOK
<1>6. good = [pc |-> "execute", todo |-> l.todo, trade |-> l.trade, camp |-> l.camp, res
   |-> l.res]
  BY <1>2, <1>4, Zenon DEF ThreadOK, LocalsOK
<1>7. ThreadGoes(th, bad) \/ ThreadGoes(th, good)
  BY <1>1, <1>3, <1>4 DEF Plan
<1>8. ThreadOK(bad) /\ ThreadOK(good)
  BY <1>2, <1>5, <1>6 DEF ThreadOK, LocalsOK, AttachedOK, OutcomeOK, BridgeLabels, OfTrade,
     MirrorStatuses, Outcomes
<1>9. /\ UNCHANGED <<now, created, campaign, sent, mirrored, journal, sdoc, sver, unheard>> /\ safe' \in BOOLEAN
      /\ thread[th].pc \notin Assigning
  BY DEF Plan, BridgeInv, EvidenceOK, bridgeWorld, bridgeEvidence, bridgeMemory, Assigning
<1>10. bad.pc = "journal" /\ good.pc = "execute" /\ bad.pc \notin Assigning /\ good.pc \notin Assigning
  BY <1>5, <1>6 DEF Assigning
<1>11. Takes(th, bad) /\ Takes(th, good)
  BY <1>1, <1>2, <1>5, <1>6 DEF Takes, OfTrade
<1> QED BY <1>7, <1>8, <1>9, <1>10, <1>11, ThreadWalks

\* An order taken for accepted is one that this execute sent.
LEMMA ExecuteKeeps ==
    ASSUME BridgeConstants, BridgeInv, NEW th \in Threads, Execute(th)
    PROVE Kept
<1>1. PICK l : l = thread[th]
  OBVIOUS
<1>2. ThreadOK(l) /\ l.pc = "execute" /\ l.trade \in Trades
  BY <1>1 DEF BridgeInv, Execute, ThreadOK, LocalsOK, OfTrade
<1>3. PICK t : t = l.trade
  OBVIOUS
<1>4. PICK o : /\ o \in IF sent[t] = "none" THEN {"none", "accepted", "unknown"} ELSE {sent[t]}
               /\ sent' = [sent EXCEPT ![t] = o]
               /\ ThreadGoes(th, [l EXCEPT !.pc = "journal",
                                           !.res = IF sent[t] = "none" /\ o = "accepted"
                                                   THEN "accepted" ELSE "unresolved"])
  BY <1>1, <1>3 DEF Execute
<1>5. PICK r : r = IF sent[t] = "none" /\ o = "accepted" THEN "accepted" ELSE "unresolved"
  OBVIOUS
<1>6. PICK next : next = [l EXCEPT !.pc = "journal", !.res = r]
  OBVIOUS
<1>7. next = [pc |-> "journal", todo |-> l.todo, trade |-> l.trade, camp |-> l.camp, res |-> r]
  BY <1>2, <1>6, Zenon DEF ThreadOK, LocalsOK
<1>8. ThreadGoes(th, next)
  BY <1>4, <1>5, <1>6
<1>9. /\ UNCHANGED <<now, created, campaign, mirrored, journal, safe, sdoc, sver, unheard>>
      /\ thread[th].pc \notin Assigning
  BY DEF Execute, bridgeWorld, bridgeMemory, Assigning
<1>10. sent \in [Trades -> {"none", "accepted", "unknown", "settled"}]
  BY DEF BridgeInv, EvidenceOK
<1>11. t \in Trades /\ o \in {"none", "accepted", "unknown", "settled"}
  BY <1>2, <1>3, <1>4, <1>10
<1>12. /\ sent' \in [Trades -> {"none", "accepted", "unknown", "settled"}]
       /\ \A x \in Trades : sent[x] = "accepted" => sent'[x] = "accepted"
       /\ r = "accepted" => sent'[t] = "accepted"
  BY <1>4, <1>5, <1>10, <1>11
<1>13. r \in {"accepted", "unresolved"}
  BY <1>5
<1>14. Grows /\ WorldOK' /\ EvidenceOK'
  BY <1>9, <1>12 DEF Grows, BridgeInv, WorldOK, EvidenceOK
<1>15. RecordsOK' /\ RecordsGrow(th, next)
  BY <1>9, <1>12 DEF BridgeInv, RecordsOK, AttachesForwardOnly, RecordIsJournaled,
     AcceptedWasSent,
     RecordsGrow
<1>16. ThreadOK(next)'
  <2>1. LocalsOK(next)'
    BY <1>2, <1>7, <1>13 DEF ThreadOK, LocalsOK, BridgeLabels, OfTrade, MirrorStatuses
  <2>2. AttachedOK(next)'
    BY <1>2, <1>7, <1>9 DEF ThreadOK, AttachedOK
  <2>3. OutcomeOK(next)'
    BY <1>3, <1>7, <1>12, <1>13 DEF OutcomeOK, Outcomes
  <2> QED BY <2>1, <2>2, <2>3 DEF ThreadOK
<1>17. next.pc = "journal" /\ next.pc \notin Assigning
  BY <1>7 DEF Assigning
<1>18. VersionsOK'
  BY <1>8, <1>9, <1>17, VersionsKept
<1>19. Takes(th, next)
  BY <1>1, <1>2, <1>7 DEF Takes, OfTrade
<1> QED BY <1>8, <1>14, <1>15, <1>16, <1>17, <1>18, <1>19, ThreadMoves

\* The entry is in the journal before the record is written.
LEMMA AppendKeeps ==
    ASSUME BridgeConstants, BridgeInv, NEW th \in Threads, AppendEntry(th)
    PROVE Kept
<1>1. PICK l : l = thread[th]
  OBVIOUS
<1>2. ThreadOK(l) /\ l.pc = "journal" /\ l.trade \in Trades
  BY <1>1 DEF BridgeInv, AppendEntry, ThreadOK, LocalsOK, OfTrade
<1>3. /\ UNCHANGED <<now, created, campaign, sent, mirrored, safe, sdoc, sver, unheard>> /\ safe' \in BOOLEAN
      /\ thread[th].pc \notin Assigning
  BY DEF AppendEntry, BridgeInv, EvidenceOK, bridgeWorld, bridgeMemory, Assigning
<1>4. CASE TickRaises(th) /\ UNCHANGED journal
  BY <1>3, <1>4, RaiseWalk
<1>5. CASE /\ journal' = journal \union {[status |-> l.res, trade |-> l.trade, camp |-> l.camp]}
           /\ ThreadAt(th, "record")
  <2>1. PICK next : next = [l EXCEPT !.pc = "record"]
    OBVIOUS
  <2>2. next = [pc |-> "record", todo |-> l.todo, trade |-> l.trade, camp |-> l.camp, res
     |-> l.res]
    BY <1>2, <2>1, Zenon DEF ThreadOK, LocalsOK
  <2>3. ThreadGoes(th, next)
    BY <1>1, <1>5, <2>1 DEF ThreadAt
  <2>4. [status |-> l.res, trade |-> l.trade, camp |-> l.camp]
            \in [status : MirrorStatuses, trade : Trades, camp : 0 .. MaxTime]
    BY <1>2 DEF ThreadOK, LocalsOK
  <2>5. Grows /\ WorldOK' /\ EvidenceOK'
    BY <1>3, <1>5, <2>4 DEF Grows, BridgeInv, WorldOK, EvidenceOK
  <2>6. RecordsOK' /\ RecordsGrow(th, next)
    BY <1>3, <2>5 DEF BridgeInv, RecordsOK, AttachesForwardOnly, RecordIsJournaled,
       AcceptedWasSent,
       RecordsGrow, Grows
  <2>7. ThreadOK(next)'
    <3>1. LocalsOK(next)'
      BY <1>2, <2>2 DEF ThreadOK, LocalsOK, BridgeLabels, OfTrade
    <3>2. AttachedOK(next)'
      BY <1>2, <1>3, <2>2 DEF ThreadOK, AttachedOK, OutcomeOK, Outcomes
    <3>3. OutcomeOK(next)'
      BY <1>2, <1>3, <1>5, <2>2 DEF ThreadOK, OutcomeOK, Outcomes
    <3> QED BY <3>1, <3>2, <3>3 DEF ThreadOK
  <2>8. next.pc = "record" /\ next.pc \notin Assigning
    BY <2>2 DEF Assigning
  <2>9. VersionsOK'
    BY <1>3, <2>3, <2>8, VersionsKept
  <2>10. Takes(th, next)
    BY <1>1, <1>2, <2>2 DEF Takes, OfTrade
  <2> QED BY <2>3, <2>5, <2>6, <2>7, <2>8, <2>9, <2>10, ThreadMoves
<1> QED BY <1>1, <1>4, <1>5 DEF AppendEntry

\* The record is written from what the thread knows.
LEMMA RecordKeeps == ASSUME BridgeConstants, BridgeInv, NEW th \in Threads, Record(th) PROVE Kept
<1>1. PICK l : l = thread[th]
  OBVIOUS
<1>2. ThreadOK(l) /\ l.pc = "record" /\ l.trade \in Trades
  BY <1>1 DEF BridgeInv, Record, ThreadOK, LocalsOK, OfTrade
<1>3. /\ UNCHANGED <<now, created, campaign, sent, journal, safe, sdoc, sver, unheard>> /\ safe' \in BOOLEAN
      /\ thread[th].pc \notin Assigning
  BY DEF Record, BridgeInv, EvidenceOK, bridgeWorld, bridgeMemory, Assigning
<1>4. CASE TickRaises(th) /\ UNCHANGED mirrored
  BY <1>3, <1>4, RaiseWalk
<1>5. CASE /\ mirrored' = [mirrored EXCEPT ![l.trade] = [status |-> l.res, camp |-> l.camp]]
           /\ ThreadAt(th, AfterRecord(l.res))
  <2>1. PICK x : x = AfterRecord(l.res)
    OBVIOUS
  <2>2. PICK next : next = [l EXCEPT !.pc = x]
    OBVIOUS
  <2>3. next = [pc |-> x, todo |-> l.todo, trade |-> l.trade, camp |-> l.camp, res |-> l.res]
    BY <1>2, <2>2, Zenon DEF ThreadOK, LocalsOK
  <2>4. ThreadGoes(th, next)
    BY <1>1, <1>5, <2>1, <2>2 DEF ThreadAt
  <2>5. x \in {"baseline", "next", "state"} /\ (x = "baseline" => l.res = "ignored")
    BY <2>1 DEF AfterRecord
  <2>6. ThreadOK(next)
    BY <1>2, <2>3, <2>5 DEF ThreadOK, LocalsOK, AttachedOK, OutcomeOK, BridgeLabels, OfTrade
  <2>7. /\ mirrored'[l.trade].status = l.res /\ mirrored'[l.trade].camp = l.camp
        /\ \A t \in Trades : t # l.trade => mirrored'[t] = mirrored[t]
        /\ mirrored' \in [Trades -> [status : MirrorStatuses, camp : 0 .. MaxTime]]
    BY <1>2, <1>5 DEF BridgeInv, EvidenceOK, ThreadOK, LocalsOK
  <2>8. Grows /\ WorldOK' /\ EvidenceOK'
    BY <1>3, <2>7 DEF Grows, BridgeInv, WorldOK, EvidenceOK
  <2>9. AttachesForwardOnly'
    <3>1. created[l.trade] \in Nat /\ l.camp \in Nat
      BY <1>2 DEF BridgeInv, WorldOK, ThreadOK, LocalsOK, BridgeConstants
    <3> QED BY <1>2, <1>3, <2>7, <3>1 DEF BridgeInv, RecordsOK, AttachesForwardOnly, ThreadOK,
       AttachedOK
  <2>10. RecordIsJournaled'
    BY <1>2, <1>3, <2>7 DEF BridgeInv, RecordsOK, RecordIsJournaled, ThreadOK, OutcomeOK, Outcomes
  <2>11. AcceptedWasSent'
    BY <1>2, <1>3, <2>7 DEF BridgeInv, RecordsOK, AcceptedWasSent, ThreadOK, OutcomeOK
  <2>12. RecordsGrow(th, next) /\ Takes(th, next)
    <3>1. next.pc \notin OfTrade
      BY <2>3, <2>5 DEF OfTrade
    <3>2. mirrored'[l.trade] # NoRecord
      BY <1>2, <2>7 DEF NoRecord, ThreadOK, OutcomeOK
    <3> QED BY <1>1, <1>2, <1>3, <2>7, <2>11, <3>1, <3>2
         DEF RecordsGrow, Takes, AcceptedWasSent, OfTrade
  <2>13. next.pc = x /\ next.pc \notin Assigning
    BY <2>3, <2>5 DEF Assigning
  <2>14. VersionsOK'
    BY <1>3, <2>4, <2>13, VersionsKept
  <2>15. ThreadOK(next)'
    BY <2>6, <2>8, ThreadKeeps DEF BridgeInv
  <2>16. RecordsOK'
    BY <2>9, <2>10, <2>11 DEF RecordsOK
  <2> QED BY <2>4, <2>5, <2>8, <2>12, <2>13, <2>14, <2>15, <2>16, ThreadMoves
<1> QED BY <1>1, <1>4, <1>5 DEF Record

\* A put that succeeds leaves one thread before its assignment; one that raises
\* conflicted with a thread there or with a state stored unheard, or the storage
\* failed; and no handler is the loop's but its own.
LEMMA PutStateKeeps ==
    ASSUME BridgeConstants, BridgeInv, NEW th \in Threads, PutState(th)
    PROVE Kept
<1>1. PICK l : l = thread[th]
  OBVIOUS
<1>2. ThreadOK(l) /\ l.pc \in {"state", "error"} /\ (l.pc = "error" => th = Loop)
  BY <1>1 DEF BridgeInv, PutState, Placed
<1>3. /\ UNCHANGED <<now, created, campaign, sent, mirrored, journal, sver, safe>>
      /\ safe' \in BOOLEAN
      /\ thread[th].pc \notin Assigning
  BY DEF PutState, BridgeInv, EvidenceOK, bridgeWorld, bridgeEvidence, Assigning
<1>4. Grows /\ WorldOK' /\ EvidenceOK' /\ RecordsOK' /\ \A x : RecordsGrow(th, x)
  BY <1>3 DEF Grows, BridgeInv, WorldOK, EvidenceOK, RecordsOK, AttachesForwardOnly,
     RecordIsJournaled,
     AcceptedWasSent, RecordsGrow
<1>5. CASE /\ sdoc = sver /\ sdoc' = sdoc + 1 /\ UNCHANGED unheard
           /\ ThreadAt(th, IF thread[th].pc = "state" THEN "assign" ELSE "assignError")
  <2>1. PICK x : x = IF l.pc = "state" THEN "assign" ELSE "assignError"
    OBVIOUS
  <2>2. PICK next : next = [l EXCEPT !.pc = x]
    OBVIOUS
  <2>3. next = [pc |-> x, todo |-> l.todo, trade |-> l.trade, camp |-> l.camp, res |-> l.res]
    BY <1>2, <2>2, Zenon DEF ThreadOK, LocalsOK
  <2>4. ThreadGoes(th, next)
    BY <1>1, <1>5, <2>1, <2>2 DEF ThreadAt
  <2>5. x \in Assigning /\ (x = "assignError" => th = Loop)
    BY <1>2, <2>1 DEF Assigning
  <2>6. ThreadOK(next)
    BY <1>2, <2>3, <2>5 DEF ThreadOK, LocalsOK, AttachedOK, OutcomeOK, BridgeLabels, OfTrade,
       Assigning
  <2>7. ThreadOK(next)'
    BY <1>4, <2>6, ThreadKeeps DEF BridgeInv
  <2>8. next.pc = x /\ next.pc # "gone" /\ (th # Loop => next.pc \notin {"error", "assignError", "gone"})
    BY <2>3, <2>5 DEF Assigning
  <2>9. /\ thread'[th].pc \in Assigning
        /\ \A o \in Threads : o # th => thread'[o] = thread[o]
    BY <2>4, <2>5, <2>8 DEF BridgeInv, ThreadGoes
  <2>10. \A o \in Threads : thread[o].pc \notin Assigning
    BY <1>5 DEF BridgeInv, VersionsOK
  <2>11. sver' \in Nat /\ sver' >= 1 /\ sdoc' = sver' + 1
    BY <1>3, <1>5 DEF BridgeInv, VersionsOK
  <2>12. \A o \in Threads : o # th => thread'[o].pc \notin Assigning
    BY <2>9, <2>10
  <2>13. VersionsOK'
    <3>4. unheard' \in {0, 1}
      BY <1>5 DEF BridgeInv, VersionsOK
    <3>1. sver' \in Nat /\ sver' >= 1 /\ sdoc' \in {sver', sver' + 1} /\ sdoc' # sver'
      <4>1. PICK v : v = sver'
        OBVIOUS
      <4>2. v \in Nat /\ v >= 1 /\ sdoc' = v + 1
        BY <2>11, <4>1
      <4>3. v + 1 # v
        BY <4>2
      <4> QED BY <4>1, <4>2, <4>3
    <3>2. \E o \in Threads : thread'[o].pc \in Assigning
      BY <2>9
    <3>3. \A o, other \in Threads :
              thread'[o].pc \in Assigning /\ thread'[other].pc \in Assigning => o = other
      BY <2>12
    <3> QED BY <3>1, <3>2, <3>3, <3>4 DEF VersionsOK
  <2>14. Takes(th, next)
    BY <2>5, <2>8 DEF Takes, OfTrade, Assigning
  <2> QED BY <1>4, <2>4, <2>7, <2>8, <2>13, <2>14, ThreadMoves
<1>6. CASE /\ UNCHANGED <<sdoc, unheard>> \/ (sdoc = sver /\ sdoc' = sdoc + 1 /\ unheard' = 1)
           /\ IF l.pc = "error" THEN ThreadGoes(th, GoneThread) ELSE TickRaises(th)
  <2>1. PICK next : /\ ThreadGoes(th, next) /\ ThreadOK(next)
                    /\ next.pc \in {"gone", "idle", "error"}
                    /\ th # Loop => next.pc = "idle"
                    /\ next.pc = "gone" => l.pc = "error"
    <3>1. CASE l.pc = "error"
      BY <1>2, <1>6, <3>1, IdleOK
    <3>2. CASE l.pc # "error" /\ th # Loop
      BY <1>6, <3>2, IdleOK DEF TickRaises
    <3>3. CASE l.pc # "error" /\ th = Loop
      <4>1. PICK next : next = [l EXCEPT !.pc = "error"]
        OBVIOUS
      <4>2. next = [pc |-> "error", todo |-> l.todo, trade |-> l.trade, camp |-> l.camp,
                    res |-> l.res]
        BY <1>2, <4>1, Zenon DEF ThreadOK, LocalsOK
      <4>3. ThreadOK(next) /\ next.pc = "error"
        BY <1>2, <4>2 DEF ThreadOK, LocalsOK, AttachedOK, OutcomeOK, BridgeLabels, OfTrade
      <4>4. ThreadGoes(th, next)
        BY <1>1, <1>6, <3>3, <4>1 DEF TickRaises, ThreadAt
      <4> QED BY <3>3, <4>3, <4>4
    <3> QED BY <3>1, <3>2, <3>3
  <2>2. ThreadOK(next)' /\ Takes(th, next)
    BY <1>4, <2>1, ThreadKeeps DEF BridgeInv, Takes, OfTrade
  <2>3. \/ sver = sdoc \/ unheard = 1
        \/ \E other \in Threads : thread[other].pc \in Assigning
    BY DEF BridgeInv, VersionsOK
  <2>4. ASSUME NEW other \in Threads, thread[other].pc \in Assigning, next.pc = "gone"
        PROVE  other \in Requests /\ thread[other].pc = "assign"
    BY <1>1, <1>2, <2>1, <2>4 DEF BridgeInv, Placed, Assigning, Threads
  <2>5. VersionsOK'
    <3>1. CASE UNCHANGED <<sdoc, unheard>>
      <4>1. next.pc \notin Assigning
        BY <2>1 DEF Assigning
      <4> QED BY <1>3, <2>1, <3>1, <4>1, VersionsKept
    <3>2. CASE sdoc = sver /\ sdoc' = sdoc + 1 /\ unheard' = 1
      <4>1. PICK v : v = sver
        OBVIOUS
      <4>2. v \in Nat /\ v >= 1 /\ sver' = v /\ sdoc' = v + 1
        BY <1>3, <3>2, <4>1 DEF BridgeInv, VersionsOK
      <4>3. /\ \A x \in Threads : thread[x].pc \notin Assigning
            /\ thread'[th] = next /\ \A x \in Threads : x # th => thread'[x] = thread[x]
        BY <2>1, <3>2 DEF BridgeInv, VersionsOK, ThreadGoes
      <4>4. \A x \in Threads : thread'[x].pc \notin Assigning
        BY <2>1, <4>3 DEF Assigning
      <4>5. sver' \in Nat /\ sver' >= 1 /\ sdoc' = sver' + 1
        BY <4>2
      <4>6. unheard' \in {0, 1} /\ unheard' = 1
        BY <3>2
      <4>7. sdoc' # sver' /\ sdoc' \in {sver', sver' + 1}
        BY <4>2
      <4> QED BY <4>4, <4>5, <4>6, <4>7 DEF VersionsOK
    <3> QED BY <1>6, <3>1, <3>2
  <2> QED BY <1>4, <2>1, <2>2, <2>3, <2>4, <2>5, ThreadMoves
<1> QED BY <1>1, <1>5, <1>6 DEF PutState

\* The assignment makes the remembered version the stored one.
LEMMA AssignKeeps ==
    ASSUME BridgeConstants, BridgeInv, NEW th \in Threads, AssignVersion(th)
    PROVE Kept
<1>1. PICK l : l = thread[th]
  OBVIOUS
<1>2. ThreadOK(l) /\ l.pc \in Assigning
  BY <1>1 DEF BridgeInv, AssignVersion, Assigning
<1>3. PICK on : on = [l EXCEPT !.pc = "next"]
  OBVIOUS
<1>4. on = [pc |-> "next", todo |-> l.todo, trade |-> l.trade, camp |-> l.camp, res |-> l.res]
  BY <1>2, <1>3, Zenon DEF ThreadOK, LocalsOK
<1>5. ThreadOK(on) /\ on.pc = "next"
  BY <1>2, <1>4 DEF ThreadOK, LocalsOK, AttachedOK, OutcomeOK, BridgeLabels, OfTrade
<1>6. PICK next \in {on, IdleThread} : ThreadGoes(th, next)
  BY <1>1, <1>3 DEF AssignVersion, AfterState
<1>7. ThreadOK(next) /\ next.pc \in {"next", "idle"}
  BY <1>5, <1>6, IdleOK
<1>8. /\ UNCHANGED <<now, created, campaign, sent, mirrored, journal, sdoc, unheard>>
      /\ safe' \in BOOLEAN /\ sver' = sdoc
  BY DEF AssignVersion, AfterState, BridgeInv, EvidenceOK, bridgeWorld, bridgeEvidence
<1>9. Grows /\ WorldOK' /\ EvidenceOK' /\ RecordsOK' /\ RecordsGrow(th, next)
  BY <1>8 DEF Grows, BridgeInv, WorldOK, EvidenceOK, RecordsOK, AttachesForwardOnly,
     RecordIsJournaled,
     AcceptedWasSent, RecordsGrow
<1>10. ThreadOK(next)'
  BY <1>7, <1>9, ThreadKeeps DEF BridgeInv
<1>11. /\ thread'[th] = next
       /\ \A o \in Threads : o # th => thread'[o] = thread[o]
  BY <1>6 DEF BridgeInv, ThreadGoes
<1>12. \A o \in Threads : o # th => thread[o].pc \notin Assigning
  BY <1>1, <1>2 DEF BridgeInv, VersionsOK
<1>13. \A o \in Threads : thread'[o].pc \notin Assigning
  BY <1>7, <1>11, <1>12 DEF Assigning
<1>14. sver' \in Nat /\ sver' >= 1 /\ sdoc' = sver' /\ unheard' \in {0, 1}
  BY <1>8 DEF BridgeInv, VersionsOK
<1>16. Takes(th, next)
  BY <1>7 DEF Takes, OfTrade
<1>15. VersionsOK'
  BY <1>13, <1>14 DEF VersionsOK
<1> QED BY <1>6, <1>7, <1>9, <1>10, <1>15, <1>16, ThreadMoves

\* A death forgets the threads, and the constructor reads the version.
LEMMA RestartKeeps == ASSUME BridgeConstants, BridgeInv, deaths \in Nat, Restart PROVE Kept
<1>1. /\ UNCHANGED <<now, created, campaign, sent, mirrored, journal, sdoc>>
      /\ safe' \in BOOLEAN /\ sver' = sdoc /\ unheard' = 0
  BY DEF Restart, bridgeWorld, bridgeEvidence
<1>2. Grows /\ WorldOK' /\ EvidenceOK' /\ RecordsOK'
  BY <1>1 DEF Grows, BridgeInv, WorldOK, EvidenceOK, RecordsOK, AttachesForwardOnly,
     RecordIsJournaled, AcceptedWasSent
<1>3. /\ thread' = [th \in Threads |-> thread'[th]]
      /\ \A th \in Threads : /\ thread'[th] \in {IdleThread, GoneThread}
                             /\ th # Loop => thread'[th] = IdleThread
  BY DEF Restart
<1>4. Placed'
  BY <1>3, IdleOK DEF Placed
<1>5. \A th \in Threads : thread'[th].pc \notin Assigning
  BY <1>3, IdleOK DEF Assigning
<1>6. sver' \in Nat /\ sver' >= 1 /\ sdoc' = sver' /\ unheard' \in {0, 1}
  BY <1>1 DEF BridgeInv, VersionsOK
<1>7. VersionsOK'
  BY <1>5, <1>6 DEF VersionsOK
<1>8. ASSUME NEW th \in Threads PROVE ThreadOK(thread[th])'
  <2>1. PICK l : l = thread'[th]
    OBVIOUS
  <2>2. ThreadOK(l)
    BY <1>3, <2>1, IdleOK
  <2>3. ThreadOK(l)'
    BY <1>2, <2>2, ThreadKeeps DEF BridgeInv
  <2> QED BY <2>1, <2>3
<1>9. LoopSurvivesStep
  BY DEF Restart, LoopSurvivesStep
<1>10. \A t \in Trades : Recording(t)' = {}
  BY <1>3, IdleOK DEF Recording, OfTrade
<1>11. RecordsAreFinalStep
  BY <1>1, <1>10 DEF BridgeInv, RecordsOK, AcceptedWasSent, RecordsAreFinalStep
<1> QED BY <1>2, <1>3, <1>4, <1>7, <1>8, <1>9, <1>11 DEF BridgeInv, Kept

\* A storage call raises and the tick with it.
LEMMA StorageKeeps ==
    ASSUME BridgeConstants, BridgeInv, NEW th \in Threads, StorageRaises(th)
    PROVE Kept
<1>1. /\ UNCHANGED <<now, created, campaign, sent, mirrored, journal, sdoc, sver, unheard>>
      /\ safe' \in BOOLEAN /\ thread[th].pc \notin Assigning
  BY DEF StorageRaises, BridgeInv, EvidenceOK, bridgeWorld, bridgeEvidence, bridgeMemory, Assigning
<1> QED BY <1>1, RaiseWalk DEF StorageRaises

\* Every step of the bridge.
LEMMA BridgeSteps == ASSUME BridgeConstants, BridgeInv, deaths \in Nat, BridgeNext PROVE Kept
<1>1. ASSUME NEW t \in Trades, BookTrade(t) \/ Settles(t) PROVE Kept
  BY <1>1, BookTradeKeeps, SettlesKeeps
<1>2. CASE CampaignStarts \/ CampaignEnds \/ StageChanges
  BY <1>2, CampaignMoves
<1>3. CASE Restart
  BY <1>3, RestartKeeps
<1>4. ASSUME NEW th \in Requests, Start(th) \/ StartReconciles(th) PROVE Kept
  BY <1>4, StartKeeps
<1>5. ASSUME NEW th \in Threads,
             \/ BridgeTicks(th) \/ Reconcile(th) \/ Baseline(th) \/ NextTrade(th)
             \/ ReadCampaign(th) \/ Plan(th) \/ Execute(th) \/ AppendEntry(th)
             \/ Record(th) \/ PutState(th) \/ AssignVersion(th) \/ StorageRaises(th)
      PROVE  Kept
  BY <1>5, TicksKeeps, ReconcileKeeps, BaselineKeeps, NextTradeKeeps, ReadCampaignKeeps,
     PlanKeeps,
     ExecuteKeeps, AppendKeeps, RecordKeeps, PutStateKeeps, AssignKeeps, StorageKeeps
<1> QED BY <1>1, <1>2, <1>3, <1>4, <1>5 DEF BridgeNext

\* Deaths are counted.
Counted == deaths \in Nat

\* Only a death counts one.
LEMMA DeathsCount == ASSUME deaths \in Nat, BridgeNext PROVE deaths' \in Nat
<1>1. ASSUME NEW t \in Trades, BookTrade(t) \/ Settles(t) PROVE deaths' = deaths
  BY <1>1 DEF BookTrade, Settles
<1>2. CASE CampaignStarts \/ CampaignEnds \/ StageChanges
  BY <1>2 DEF CampaignStarts, CampaignEnds, StageChanges
<1>3. CASE Restart
  BY <1>3 DEF Restart
<1>4. ASSUME NEW th \in Requests, Start(th) \/ StartReconciles(th) PROVE deaths' = deaths
  BY <1>4 DEF Start, StartReconciles
<1>5. ASSUME NEW th \in Threads,
             \/ BridgeTicks(th) \/ Reconcile(th) \/ Baseline(th) \/ NextTrade(th)
             \/ ReadCampaign(th) \/ Plan(th) \/ Execute(th) \/ AppendEntry(th)
             \/ Record(th) \/ PutState(th) \/ AssignVersion(th) \/ StorageRaises(th)
      PROVE  deaths' = deaths
  BY <1>5 DEF BridgeTicks, Reconcile, Baseline, NextTrade, ReadCampaign, Plan, Execute,
     AppendEntry,
     Record, PutState, AssignVersion, StorageRaises
<1> QED BY <1>1, <1>2, <1>3, <1>4, <1>5 DEF BridgeNext

\* A stutter.
LEMMA BridgeStutters == ASSUME BridgeConstants, BridgeInv, UNCHANGED bridgeVars PROVE Kept
<1>1. UNCHANGED <<now, created, campaign, sent, mirrored, journal, sdoc, sver, safe, unheard,
                   thread, deaths>>
  BY DEF bridgeVars, bridgeWorld, bridgeEvidence, bridgeMemory
<1>2. Grows /\ WorldOK' /\ EvidenceOK' /\ RecordsOK'
  BY <1>1 DEF Grows, BridgeInv, WorldOK, EvidenceOK, RecordsOK, AttachesForwardOnly,
     RecordIsJournaled,
     AcceptedWasSent
<1> QED BY <1>1, <1>2, NoThreadMoves

\* The bridge mirrors only trades that came after the campaign it mirrors them
\* under, journals every order before it records it, replaces a record only by that
\* of a tick which overlapped its writing, and its thread outlives every error but
\* a failing storage and a state that a request is storing at the same moment,
\* whatever trades, requests and bounds there are (testnet_bridge.py,
\* shadow_bridge.py).
THEOREM MirrorIsFaithfulHolds == ASSUME BridgeConstants PROVE BridgeSpec => MirrorIsFaithful
<1>1. BridgeInit => BridgeInv
  BY BridgeStarts
<1>2. BridgeInit => Counted
  BY DEF BridgeInit, Counted
<1>3. BridgeInv /\ Counted /\ [BridgeNext]_bridgeVars =>
          BridgeInv' /\ Counted' /\ RecordsAreFinalStep /\ LoopSurvivesStep
  <2>1. CASE BridgeNext
    BY <2>1, BridgeSteps, DeathsCount DEF Kept, Counted
  <2>2. CASE UNCHANGED bridgeVars
    BY <2>2, BridgeStutters DEF Kept, bridgeVars, Counted
  <2> QED BY <2>1, <2>2
<1>4. BridgeInv => BridgeTypeOK /\ AttachesForwardOnly /\ RecordIsJournaled
  BY BridgeTypes DEF BridgeInv, RecordsOK
<1> QED BY <1>1, <1>2, <1>3, <1>4, PTL DEF BridgeSpec, MirrorIsFaithful

=================================================================================
