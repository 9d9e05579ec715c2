---------------------------- MODULE WorkerRecovery ----------------------------
(***************************************************************************)
(* Bounded recovery of a dead worker thread: the organ monitor             *)
(* (dashboard/ai_organ_state_api.py) publishes what it observes, then its  *)
(* watchdog (dashboard/ai_runtime_watchdog.py) claims an attempt in the    *)
(* database, starts the dead thread and later verifies it by a result.     *)
(* One organ; every process has its own worker and monitor thread and all  *)
(* share the database.                                                     *)
(*                                                                         *)
(* The first claim of a worker has no row to lock: on PostgreSQL another   *)
(* first writer, which looked before the row was there, may replace it     *)
(* under version 1 (storage/project_database.py:295-317).  replaced        *)
(* records that this happened; on SQLite it never does.                    *)
(***************************************************************************)
EXTENDS Integers, Sequences, FiniteSets, TLC

CONSTANTS Procs, Backoff1, Backoff2, Backoff3,  \* delays after the attempts
          MaxAge,    \* age up to which a result is fresh
          MaxTime,   \* the end of time
          MaxFaults  \* faults, thread ends and stops that can happen

MAX_ATTEMPTS == 3
BACKOFF == <<Backoff1, Backoff2, Backoff3>>

VARIABLES now, faults,
          proc,    \* each process: its worker's thread, stop flag, result
          mon,     \* where each monitor thread is, and its locals
          repair,  \* system_runtime/ai_worker_recovery:<organ>
          organ,   \* ai_organ_runtime/<organ>, the published observation
          starts,  \* history: calls of start() by the watchdog
          worked,  \* history: the time of the last result of any worker
          replaced \* history: a first claim has replaced another's

recoveryVars == <<now, faults, proc, mon, repair, organ, starts, worked, replaced>>

Down == [up |-> FALSE, thread |-> "none", stop |-> FALSE, result |-> 0]
Quiet == [pc |-> "idle", view |-> <<>>, seen |-> <<>>]

RecoveryInit ==
    /\ now = 1 /\ faults = 0
    /\ proc = [p \in Procs |-> Down]
    /\ mon = [p \in Procs |-> Quiet]
    /\ repair = [attempts |-> 0, status |-> "none", last |-> 0, next |-> 0,
                 ver |-> 0]
    /\ organ = [status |-> "none", valid |-> 0, checked |-> 0]
    /\ starts = 0 /\ worked = 0 /\ replaced = FALSE

Tick == /\ now < MaxTime /\ now' = now + 1
        /\ UNCHANGED <<faults, proc, mon, repair, organ, starts, worked, replaced>>

----------------------------------------------------------------------------
(* The worker.                                                             *)
----------------------------------------------------------------------------
Boot(p) ==
    /\ ~proc[p].up
    /\ proc' = [proc EXCEPT ![p] = [Down EXCEPT !.up = TRUE,
                                                !.thread = "alive"]]
    /\ UNCHANGED <<now, faults, mon, repair, organ, starts, worked, replaced>>

ProcessDies(p) ==
    /\ proc[p].up /\ faults < MaxFaults /\ faults' = faults + 1
    /\ proc' = [proc EXCEPT ![p] = Down]
    /\ mon' = [mon EXCEPT ![p] = Quiet]
    /\ UNCHANGED <<now, repair, organ, starts, worked, replaced>>

\* A thread ends by an error it does not handle, or because it was stopped.
ThreadEnds(p) ==
    /\ proc[p].thread = "alive" /\ faults < MaxFaults /\ faults' = faults + 1
    /\ proc' = [proc EXCEPT ![p].thread = "dead"]
    /\ UNCHANGED <<now, mon, repair, organ, starts, worked, replaced>>

StopWorker(p) ==
    /\ proc[p].up /\ ~proc[p].stop /\ faults < MaxFaults /\ faults' = faults + 1
    /\ proc' = [proc EXCEPT ![p].stop = TRUE]
    /\ UNCHANGED <<now, mon, repair, organ, starts, worked, replaced>>

WorkerResult(p) ==
    /\ proc[p].thread = "alive" /\ proc[p].result < now
    /\ proc' = [proc EXCEPT ![p].result = now]
    /\ worked' = now
    /\ UNCHANGED <<now, faults, mon, repair, organ, starts, replaced>>

----------------------------------------------------------------------------
(* The monitor: refresh, then one recovery cycle.                          *)
----------------------------------------------------------------------------
Fresh(t) == t > 0 /\ now - t <= MaxAge

\* _evaluate: an observation is healthy only with a running worker and a
\* fresh result.
Evaluate(p) ==
    /\ proc[p].up /\ mon[p].pc = "idle"
    /\ LET w == proc[p] IN
       mon' = [mon EXCEPT ![p] =
           [pc |-> "publish", seen |-> <<>>,
            view |-> [status |-> IF w.thread = "alive" /\ Fresh(w.result)
                                 THEN "healthy" ELSE "degraded",
                      valid |-> IF Fresh(w.result) THEN w.result ELSE 0,
                      checked |-> now]]]
    /\ UNCHANGED <<now, faults, proc, repair, organ, starts, worked, replaced>>

\* put_json without an expected version.
Publish(p) ==
    /\ mon[p].pc = "publish"
    /\ organ' = mon[p].view
    /\ mon' = [mon EXCEPT ![p] = [Quiet EXCEPT !.pc = "observe"]]
    /\ UNCHANGED <<now, faults, proc, repair, starts, worked, replaced>>

\* A pending attempt is verified by a healthy observation that was made
\* after the claim and holds a fresh result produced after the claim.
Verifies(c) ==
    /\ c.status \in {"claimed", "started_pending_verification"}
    /\ organ.status = "healthy"
    /\ c.last < organ.valid /\ organ.valid <= now
    /\ now - organ.valid <= MaxAge
    /\ c.last < organ.checked /\ organ.checked <= now

\* A dead thread may be claimed: budget, backoff.
MayAttempt(c) == c.attempts < MAX_ATTEMPTS /\ now >= c.next

\* _observe: what is read decides the next step; the resource guard may
\* hold a claim back.
Observe(p) ==
    /\ mon[p].pc = "observe"
    /\ mon' = [mon EXCEPT ![p] =
           IF proc[p].stop THEN Quiet
           ELSE IF proc[p].thread = "alive"
           THEN IF Verifies(repair)
                THEN [Quiet EXCEPT !.pc = "verify", !.seen = repair] ELSE Quiet
           ELSE IF MayAttempt(repair)
                THEN [pc |-> "claim", seen |-> repair, view |-> now] ELSE Quiet]
    /\ UNCHANGED <<now, faults, proc, repair, organ, starts, worked, replaced>>

ResourceGuard(p) ==
    /\ mon[p].pc = "observe" /\ proc[p].thread # "alive"
    /\ mon' = [mon EXCEPT ![p] = Quiet]
    /\ UNCHANGED <<now, faults, proc, repair, organ, starts, worked, replaced>>

VerifyRestoresBudget(p) ==
    /\ mon[p].pc = "verify"
    /\ repair' = IF repair.ver = mon[p].seen.ver
                 THEN [mon[p].seen EXCEPT !.status = "verified", !.ver = @ + 1,
                                          !.attempts = 0]
                 ELSE repair
    /\ mon' = [mon EXCEPT ![p] = Quiet]
    /\ UNCHANGED <<now, faults, proc, organ, starts, worked, replaced>>

\* A versioned put of the document that is held, under a new status; a conflict
\* raises and is dropped.
PutStatus(seen, status) ==
    repair' = IF repair.ver = seen.ver
              THEN [seen EXCEPT !.status = status, !.ver = @ + 1] ELSE repair

Verify(p) ==
    /\ mon[p].pc = "verify"
    /\ PutStatus(mon[p].seen, "verified")
    /\ mon' = [mon EXCEPT ![p] = Quiet]
    /\ UNCHANGED <<now, faults, proc, organ, starts, worked, replaced>>

\* The attempt numbered in the document read, at the time it was read.
ClaimOf(c, t) ==
    [attempts |-> c.attempts + 1, status |-> "claimed", last |-> t,
     next |-> t + BACKOFF[c.attempts + 1], ver |-> c.ver + 1]

\* The put expects no row, and meets one that came after it looked.
FirstWritersMeet(c) == c.ver = 0 /\ repair.ver # 0

\* The claim is persisted with the version read, before anything is started.
ClaimAttempt(p) ==
    LET c == mon[p].seen IN
    /\ mon[p].pc = "claim"
    /\ \/ /\ repair.ver = c.ver \/ FirstWritersMeet(c)
          /\ repair' = ClaimOf(c, mon[p].view)
          /\ replaced' = (replaced \/ FirstWritersMeet(c))
          /\ mon' = [mon EXCEPT ![p] = [Quiet EXCEPT !.pc = "recheck",
                                                    !.seen = repair']]
       \/ /\ repair.ver # c.ver
          /\ UNCHANGED <<repair, replaced>> /\ mon' = [mon EXCEPT ![p] = Quiet]
    /\ UNCHANGED <<now, faults, proc, organ, starts, worked>>

Recheck(p) ==
    /\ mon[p].pc = "recheck"
    /\ mon' = [mon EXCEPT ![p] =
           IF proc[p].stop \/ proc[p].thread = "alive"
           THEN [mon[p] EXCEPT !.pc = "record", !.view = "skipped"]
           ELSE [mon[p] EXCEPT !.pc = "start"]]
    /\ UNCHANGED <<now, faults, proc, repair, organ, starts, worked, replaced>>

\* start(): it clears the stop flag and runs a new thread, or raises.
Start(p) ==
    /\ mon[p].pc = "start" /\ starts' = starts + 1
    /\ \/ /\ proc' = [proc EXCEPT ![p].thread = "alive", ![p].stop = FALSE]
          /\ mon' = [mon EXCEPT ![p] = [mon[p] EXCEPT !.pc = "record",
                                !.view = "started_pending_verification"]]
       \/ /\ UNCHANGED proc
          /\ mon' = [mon EXCEPT ![p] = [mon[p] EXCEPT !.pc = "record",
                                                      !.view = "failed"]]
    /\ UNCHANGED <<now, faults, repair, organ, worked, replaced>>

RecordStart(p) ==
    /\ mon[p].pc = "record"
    /\ PutStatus(mon[p].seen, mon[p].view)
    /\ mon' = [mon EXCEPT ![p] = Quiet]
    /\ UNCHANGED <<now, faults, proc, organ, starts, worked, replaced>>

RecoveryNext ==
    \/ Tick
    \/ \E p \in Procs :
        \/ Boot(p) \/ ProcessDies(p) \/ ThreadEnds(p) \/ StopWorker(p)
        \/ WorkerResult(p) \/ Evaluate(p) \/ Publish(p)
        \/ Observe(p) \/ ResourceGuard(p) \/ Verify(p) \/ ClaimAttempt(p)
        \/ Recheck(p) \/ Start(p) \/ RecordStart(p)

RecoverySpec == RecoveryInit /\ [][RecoveryNext]_recoveryVars

----------------------------------------------------------------------------
RecoveryTypeOK ==
    /\ now \in 1..MaxTime /\ faults \in 0..MaxFaults
    /\ \A p \in Procs : proc[p].thread \in {"none", "alive", "dead"}
                        /\ (~proc[p].up => proc[p] = Down)
    /\ repair.attempts \in 0..MAX_ATTEMPTS
    /\ repair.status \in {"none", "claimed", "skipped", "failed", "verified",
                          "started_pending_verification"}
    /\ repair.last <= now /\ repair.ver \in Nat /\ replaced \in BOOLEAN

\* "There are at most three attempts per worker, retained across
\* monitor/process restart": whatever crashes, and however the monitors of
\* two processes overlap, start() is called no more often, unless two first
\* claims met on PostgreSQL.
StartsBounded == ~replaced => starts <= MAX_ATTEMPTS

\* "A start remains pending until a later healthy observation contains a
\* fresh functional result newer than the claim": a verified attempt has had
\* a worker that really produced a result after it.
VerifiedWorked == repair.status = "verified" => worked > repair.last

\* Attempts are counted one by one and never before the backoff of the
\* previous attempt is over, with the same exception.
ClaimsBackOffStep ==
    ~replaced' /\ repair'.attempts # repair.attempts =>
        /\ repair'.attempts = repair.attempts + 1
        /\ now >= repair.next /\ repair'.next >= repair.next

\* The same of every step, whichever process claims the attempt (_observe).
ClaimsBackOff == [][ClaimsBackOffStep]_recoveryVars

\* The promise of the watchdog for one worker: a verified attempt has worked, and,
\* unless two first claims met, there are three attempts in all, each after the
\* backoff of the one before.
RecoveryIsBounded ==
    /\ [](RecoveryTypeOK /\ StartsBounded /\ VerifiedWorked)
    /\ ClaimsBackOff

=============================================================================
