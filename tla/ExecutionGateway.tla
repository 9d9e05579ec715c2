--------------------------- MODULE ExecutionGateway ---------------------------
(***************************************************************************)
(* The guarded Testnet execution path: BybitExecutionClient.execute, the   *)
(* reservation registry and the kill-switch latch it works on, the         *)
(* exchange, the private evidence, StartupExecutionReconciler.reconcile    *)
(* and the operator who clears the latch.                                  *)
(*                                                                         *)
(* Everything durable lives in ProjectDatabase, one document each: doc,    *)
(* latch, priv and journal.  A call that reads, changes and writes one     *)
(* document back under optimistic versioning is one action; between two    *)
(* such calls of one thread any other thread may run, and the process may  *)
(* die.  Bridges are the threads that submit orders (the autonomous        *)
(* bridge, the campaign's shadow bridge, a tick requested over HTTP);      *)
(* Auditors are the threads that only reconcile (the campaign cycle).      *)
(***************************************************************************)
EXTENDS OrderIntentRegistry, PrivateOrderState, TLC

CONSTANTS Bridges,      \* threads that call execute
          Auditors,     \* threads that only call reconcile
          FullQty,      \* the quantity of an order, in lots
          MaxClock,     \* bound: the last millisecond of the behaviour
          MaxFaults     \* bound: process deaths and storage failures

ASSUME BoundsAreNatural ==
    FullQty \in Nat \ {0} /\ MaxClock \in Nat /\ MaxFaults \in Nat
ASSUME ActorsAreDisjoint == Bridges \cap Auditors = {}

Actors == Bridges \cup Auditors

VARIABLES doc,       \* bybit_order_identity: the reservations
          latch,     \* execution_kill_switch: "absent", "open" or "latched"
          priv,      \* bybit_private_orders: the private evidence of each link
          journal,   \* the links that have a row in the execution journal
          exch,      \* the exchange: each link's request or order
          sends,     \* how often each link's request left this process
          env,       \* EXECUTION_KILL_SWITCH of the running process
          clock,     \* milliseconds; local and exchange clocks agree
          faults,    \* process deaths and storage failures so far
          pc,        \* where each thread is
          req,       \* the request each bridge is executing
          t0,        \* current_ms of that execute call
          safe,      \* restart_safe of the report each bridge has cached
          view,      \* what a running reconcile has read and found
          approval,  \* the operator holds a report with restart_safe = True
          late       \* requests each bridge sent since the switch latched

outside == <<exch, sends, late, env, clock>>
world == <<outside, faults>>
vars == <<doc, latch, priv, journal, exch, sends, env, clock, faults,
          pc, req, t0, safe, view, approval, late>>

\* Mutant of SwitchActive: the persisted latch is not consulted.
SwitchActiveIgnoresLatch == env

\* PersistentExecutionKillSwitch.state().active
SwitchActive == env \/ latch = "latched"

\* The exchange's answer to a request, and the life of a spot market order.
ExchangeStates == PrivateStatuses \cup {"None", "InFlight", "Refused"}

Evidence == [status : PrivateStatuses \cup {"None"}, cum : Nat, upd : Nat]
ExchangeOrder == [status : ExchangeStates, cum : Nat, upd : Nat]

\* What one reconcile call carries from its reads to its report: the
\* reservation statuses, the private orders and the journal as they were
\* read, the reservations still to visit, and whether an error was noted.
View == [status : [Links -> Statuses \cup {"None"}],
         priv : [Links -> Evidence],
         journal : SUBSET Links,
         todo : SUBSET Links,
         errors : BOOLEAN]
EmptyView == [status |-> [l \in Links |-> "None"],
              priv |-> [l \in Links |-> NoEvidence],
              journal |-> {}, todo |-> {}, errors |-> FALSE]

ExecutePCs == {"assert_open", "unresolved", "preflight", "reserve",
               "mark_submitted", "send", "wait", "bind", "reject", "trip",
               "raised", "accepted"}
ReconcilePCs == {"private", "load_journal", "sync", "report",
                 "reconcile_trip"}

Init ==
    /\ doc = EmptyDocument
    /\ latch = "absent"
    /\ priv = [l \in Links |-> NoEvidence]
    /\ journal = {}
    /\ exch = [l \in Links |-> NoEvidence]
    /\ sends = [l \in Links |-> 0]
    /\ late = [b \in Bridges |-> 0]
    /\ env \in BOOLEAN
    /\ clock = 0
    /\ faults = 0
    /\ pc = [a \in Actors |-> "idle"]
    /\ req = [b \in Bridges |-> NoId]
    /\ t0 = [b \in Bridges |-> 0]
    /\ safe = [b \in Bridges |-> FALSE]
    /\ view = [a \in Actors |-> EmptyView]
    /\ approval = FALSE

\* A state of the exchange's order, as of now.
Stamped(status, cum) == [status |-> status, cum |-> cum, upd |-> clock]

\* A storage call that raises, or the death of the process.
Fault == faults < MaxFaults /\ faults' = faults + 1

Goto(a, label) == pc' = [pc EXCEPT ![a] = label]

----------------------------------------------------------------------------
(* BybitExecutionClient.execute, called by a bridge for one request.       *)

\* tick calls execute only while its cached report is restart safe;
\* current_ms is taken once, here, and the validation of the request may
\* refuse it.
Begin(b, l) ==
    /\ pc[b] = "idle" /\ safe[b]
    /\ req' = [req EXCEPT ![b] = l]
    /\ t0' = [t0 EXCEPT ![b] = clock]
    /\ \E label \in {"assert_open", "raised"} : Goto(b, label)
    /\ UNCHANGED <<doc, latch, priv, journal, world, safe, view, approval>>

\* kill_switch.assert_open()
AssertOpen(b) ==
    /\ pc[b] = "assert_open"
    /\ Goto(b, IF SwitchActive THEN "raised" ELSE "unresolved")
    /\ UNCHANGED <<doc, latch, priv, journal, world, req, t0, safe, view,
                   approval>>

\* Mutant of CheckUnresolved: the check is left out.
CheckUnresolvedSkipped(b) ==
    /\ pc[b] = "unresolved"
    /\ Goto(b, "preflight")
    /\ UNCHANGED <<doc, latch, priv, journal, world, req, t0, safe, view,
                   approval>>

\* idempotency.unresolved(): any unresolved reservation trips the switch.
CheckUnresolved(b) ==
    /\ pc[b] = "unresolved"
    /\ Goto(b, IF Unresolved(doc) = {} THEN "preflight" ELSE "trip")
    /\ UNCHANGED <<doc, latch, priv, journal, world, req, t0, safe, view,
                   approval>>

\* _preflight: the switch is read a second time; the notional cap, the
\* credentials and TESTNET_EXECUTION_ENABLED may each refuse as well.
Preflight(b) ==
    /\ pc[b] = "preflight"
    /\ \/ ~SwitchActive /\ Goto(b, "reserve")
       \/ Goto(b, "raised")
    /\ UNCHANGED <<doc, latch, priv, journal, world, req, t0, safe, view,
                   approval>>

\* Mutant of ReserveIntent: the request goes out before mark_submitted.
ReserveThenSend(b) ==
    /\ pc[b] = "reserve"
    /\ IF MayReserve(doc, req[b])
         THEN doc' = Reserve(doc, req[b], t0[b]) /\ Goto(b, "send")
         ELSE doc' = doc /\ Goto(b, "raised")
    /\ UNCHANGED <<latch, priv, journal, world, req, t0, safe, view,
                   approval>>

\* idempotency.reserve: a duplicate, or an attempt out of turn, raises.
ReserveIntent(b) ==
    /\ pc[b] = "reserve"
    /\ IF MayReserve(doc, req[b])
         THEN doc' = Reserve(doc, req[b], t0[b]) /\ Goto(b, "mark_submitted")
         ELSE doc' = doc /\ Goto(b, "raised")
    /\ UNCHANGED <<latch, priv, journal, world, req, t0, safe, view,
                   approval>>

\* idempotency.mark_submitted, before the network call.
MarkSubmitted(b) ==
    /\ pc[b] = "mark_submitted"
    /\ IF MayUpdate(doc, req[b], "Submitted", 0, t0[b], NoId)
         THEN /\ doc' = UpdateStatus(doc, req[b], "Submitted", 0, t0[b], NoId)
              /\ Goto(b, "send")
         ELSE doc' = doc /\ Goto(b, "raised")
    /\ UNCHANGED <<latch, priv, journal, world, req, t0, safe, view,
                   approval>>

\* _send_market_order puts the request on the wire.
Send(b) ==
    LET l == req[b]
    IN  /\ pc[b] = "send"
        /\ sends' = [sends EXCEPT ![l] = @ + 1]
        /\ late' = IF latch = "latched" THEN [late EXCEPT ![b] = @ + 1]
                                         ELSE late
        /\ exch' = IF exch[l].status = "None"
                     THEN [exch EXCEPT ![l] = Stamped("InFlight", 0)]
                     ELSE exch
        /\ Goto(b, "wait")
        /\ UNCHANGED <<doc, latch, priv, journal, env, clock, faults, req,
                       t0, safe, view, approval>>

\* The call fails before anything is on the wire (no connection, a refused
\* base URL): for the caller an ambiguous outcome like any other.
SendFails(b) ==
    /\ pc[b] = "send"
    /\ Goto(b, "trip")
    /\ UNCHANGED <<doc, latch, priv, journal, world, req, t0, safe, view,
                   approval>>

\* Mutant of Respond: a timeout is taken for a rejection.
RespondTimeoutIsRejection(b) ==
    /\ pc[b] = "wait"
    /\ \/ Goto(b, "reject")
       \/ exch[req[b]].status \in PrivateStatuses /\ Goto(b, "bind")
    /\ UNCHANGED <<doc, latch, priv, journal, world, req, t0, safe, view,
                   approval>>

\* What the call returns: retCode # 0 raises BybitRejectedOrder, retCode = 0
\* with an orderId is an acceptance; a timeout, an HTTP or JSON error, and an
\* acceptance without an orderId are ambiguous whatever the exchange did.
Respond(b) ==
    LET answer == exch[req[b]].status
    IN  /\ pc[b] = "wait"
        /\ \/ answer = "Refused" /\ Goto(b, "reject")
           \/ answer \in PrivateStatuses /\ Goto(b, "bind")
           \/ Goto(b, "trip")
        /\ UNCHANGED <<doc, latch, priv, journal, world, req, t0, safe, view,
                       approval>>

\* idempotency.bind_accepted at max(current_ms, time.time()).
BindAccepted(b) ==
    /\ pc[b] = "bind"
    /\ IF MayBind(doc, req[b], req[b], clock)
         THEN doc' = Bind(doc, req[b], req[b], clock) /\ Goto(b, "accepted")
         ELSE doc' = doc /\ Goto(b, "raised")
    /\ UNCHANGED <<latch, priv, journal, world, req, t0, safe, view,
                   approval>>

\* idempotency.mark_rejected; the rejection is raised in any case.
MarkRejected(b) ==
    /\ pc[b] = "reject"
    /\ doc' = IF MayUpdate(doc, req[b], "Rejected", 0, clock, NoId)
                THEN UpdateStatus(doc, req[b], "Rejected", 0, clock, NoId)
                ELSE doc
    /\ Goto(b, "raised")
    /\ UNCHANGED <<latch, priv, journal, world, req, t0, safe, view,
                   approval>>

\* Mutant of Trip: a state that no reader knows is stored.
TripStoresUnknownState(b) ==
    /\ pc[b] = "trip"
    /\ latch' = "tripped"
    /\ Goto(b, "raised")
    /\ UNCHANGED <<doc, priv, journal, world, req, t0, safe, view, approval>>

\* kill_switch.trip, then the RuntimeError.
Trip(b) ==
    /\ pc[b] = "trip"
    /\ latch' = "latched"
    /\ Goto(b, "raised")
    /\ UNCHANGED <<doc, priv, journal, world, req, t0, safe, view, approval>>

\* The storage call of the step raises (VersionConflict five times over, a
\* locked or failing database) and execute passes the exception on.
StoreFails(b) ==
    /\ pc[b] \in {"assert_open", "unresolved", "preflight", "reserve",
                  "mark_submitted", "bind", "reject", "trip"}
    /\ Fault
    /\ Goto(b, "raised")
    /\ UNCHANGED <<doc, latch, priv, journal, outside, req, t0, safe, view,
                   approval>>

Return(b) ==
    /\ Goto(b, "idle")
    /\ req' = [req EXCEPT ![b] = NoId]
    /\ t0' = [t0 EXCEPT ![b] = 0]

\* tick's except branch: the outcome is journalled as unresolved and the
\* cached report no longer counts.
JournalUnresolved(b) ==
    /\ pc[b] = "raised"
    /\ journal' = journal \cup {req[b]}
    /\ safe' = [safe EXCEPT ![b] = FALSE]
    /\ Return(b)
    /\ UNCHANGED <<doc, latch, priv, world, view, approval>>

\* tick's success branch.
JournalAccepted(b) ==
    /\ pc[b] = "accepted"
    /\ journal' = journal \cup {req[b]}
    /\ Return(b)
    /\ UNCHANGED <<doc, latch, priv, world, safe, view, approval>>

\* journal.append, or the bridge's own record or state after it, raises: the
\* exception leaves tick before the cached report is replaced.
JournalFails(b) ==
    /\ pc[b] \in {"raised", "accepted"}
    /\ Fault
    /\ journal' \in {journal, journal \cup {req[b]}}
    /\ Return(b)
    /\ UNCHANGED <<doc, latch, priv, outside, safe, view, approval>>

----------------------------------------------------------------------------
(* The exchange and the private stream.                                    *)

\* The matching engine takes or refuses a request on the wire, possibly long
\* after the caller gave up on it.
ExchangeDecides(l) ==
    /\ exch[l].status = "InFlight"
    /\ \/ exch' = [exch EXCEPT ![l] = Stamped("New", 0)]
       \/ exch' = [exch EXCEPT ![l] = Stamped("Refused", 0)]
    /\ UNCHANGED <<doc, latch, priv, journal, sends, late, env, clock, faults, pc,
                   req, t0, safe, view, approval>>

\* An order fills, fills in part, or is cancelled (its rest, if it filled in
\* part).
ExchangeAdvances(l) ==
    /\ \/ /\ exch[l].status \in {"New", "PartiallyFilled"}
          /\ exch' = [exch EXCEPT ![l] = Stamped("Filled", FullQty)]
       \/ /\ exch[l].status = "New"
          /\ \/ exch' = [exch EXCEPT ![l] = Stamped("Cancelled", 0)]
             \/ /\ FullQty > 1
                /\ exch' = [exch EXCEPT ![l] = Stamped("PartiallyFilled", 1)]
       \/ /\ exch[l].status = "PartiallyFilled"
          /\ exch' = [exch EXCEPT ![l] =
                          Stamped("PartiallyFilledCanceled", @.cum)]
    /\ UNCHANGED <<doc, latch, priv, journal, sends, late, env, clock, faults, pc,
                   req, t0, safe, view, approval>>

\* BybitOrderStateStore.ingest_message of the order's current state.  States
\* that were never delivered are lost events; a delayed event is one that is
\* ingested before the exchange advances further.
Ingest(l) ==
    /\ exch[l].status \in PrivateStatuses
    /\ priv' = [priv EXCEPT ![l] = Merge(@, exch[l])]
    /\ priv' # priv
    /\ UNCHANGED <<doc, latch, journal, world, pc, req, t0, safe, view,
                   approval>>

Tick ==
    /\ clock < MaxClock
    /\ clock' = clock + 1
    /\ UNCHANGED <<doc, latch, priv, journal, exch, sends, late, env, faults, pc,
                   req, t0, safe, view, approval>>

----------------------------------------------------------------------------
(* StartupExecutionReconciler.reconcile.  A bridge runs it at a tick whose *)
(* cached report is not restart safe, an auditor at every cycle.           *)

\* Mutant of StartReconcile: only reservations with an orderId are visited.
StartReconcileBoundOnly(a) ==
    /\ pc[a] = "idle" /\ (a \in Bridges => ~safe[a])
    /\ view' = [view EXCEPT ![a] =
                   [@ EXCEPT !.status = [l \in Links |-> doc[l].status],
                             !.todo = {l \in Links : doc[l].oid # NoId}]]
    /\ Goto(a, "private")
    /\ UNCHANGED <<doc, latch, priv, journal, world, req, t0, safe, approval>>

\* The identity snapshot: the reservations there are and their statuses.
StartReconcile(a) ==
    /\ pc[a] = "idle" /\ (a \in Bridges => ~safe[a])
    /\ view' = [view EXCEPT ![a] =
                   [@ EXCEPT !.status = [l \in Links |-> doc[l].status],
                             !.todo = {l \in Links : IsReserved(doc, l)}]]
    /\ Goto(a, "private")
    /\ UNCHANGED <<doc, latch, priv, journal, world, req, t0, safe, approval>>

ReadPrivate(a) ==
    /\ pc[a] = "private"
    /\ view' = [view EXCEPT ![a] = [@ EXCEPT !.priv = priv]]
    /\ Goto(a, "load_journal")
    /\ UNCHANGED <<doc, latch, priv, journal, world, req, t0, safe, approval>>

\* The journal is loaded; then the private stream gate is evaluated, and a
\* stream that is not ready is an error.
LoadJournal(a) ==
    /\ pc[a] = "load_journal"
    /\ \E streamReady \in BOOLEAN :
          view' = [view EXCEPT ![a] = [@ EXCEPT !.journal = journal,
                                                !.errors = ~streamReady]]
    /\ Goto(a, "sync")
    /\ UNCHANGED <<doc, latch, priv, journal, world, req, t0, safe, approval>>

\* One reservation of the loop: private evidence is written into the
\* reservation when update_status allows it, and the reservation is read
\* again; worked counts how many of the two storage calls did not raise.  The
\* checks that follow look at the reservation as it now is if both worked,
\* and as it was read at the start otherwise.
SyncReservation(a, l, worked) ==
    LET evidence == view[a].priv[l]
        found == evidence.status # "None"
        written == /\ found /\ worked >= 1
                   /\ MayUpdate(doc, l, evidence.status, evidence.cum,
                                evidence.upd, l)
        synced == written /\ worked = 2
        status == IF synced THEN evidence.status ELSE view[a].status[l]
        error == \/ found /\ ~synced
                 \/ l \notin view[a].journal /\ status # "Reserved"
                 \/ ~found /\ status \notin Terminal
    IN  /\ pc[a] = "sync" /\ l \in view[a].todo
        /\ IF worked = 2 THEN UNCHANGED faults ELSE found /\ Fault
        /\ doc' = IF written
                    THEN UpdateStatus(doc, l, evidence.status, evidence.cum,
                                      evidence.upd, l)
                    ELSE doc
        /\ view' = [view EXCEPT ![a] =
                      [@ EXCEPT !.todo = view[a].todo \ {l},
                                !.errors = view[a].errors \/ error]]
        /\ UNCHANGED <<latch, priv, journal, outside, pc, req, t0, safe,
                       approval>>

\* The loop is over; orphan private orders are errors.
ScanOrphans(a) ==
    LET orphan == \E l \in Links : /\ view[a].priv[l].status # "None"
                                   /\ view[a].status[l] = "None"
    IN  /\ pc[a] = "sync" /\ view[a].todo = {}
        /\ view' = [view EXCEPT ![a] =
                      [@ EXCEPT !.errors = view[a].errors \/ orphan]]
        /\ Goto(a, "report")
        /\ UNCHANGED <<doc, latch, priv, journal, world, req, t0, safe,
                       approval>>

\* The final identity snapshot and the report.  A restart-safe report is
\* cached by the bridge that asked for it and is there for the operator.
Report(a) ==
    LET restartSafe == ~view[a].errors /\ Unresolved(doc) = {}
    IN  /\ pc[a] = "report"
        /\ Goto(a, IF restartSafe THEN "idle" ELSE "reconcile_trip")
        /\ view' = [view EXCEPT ![a] = EmptyView]
        /\ safe' = [b \in Bridges |->
                       IF b = a THEN restartSafe ELSE safe[b]]
        /\ approval' = (approval \/ restartSafe)
        /\ UNCHANGED <<doc, latch, priv, journal, world, req, t0>>

\* A report that is not restart safe latches the switch, unless the latch
\* document already closes it.
ReconcileTrip(a) ==
    /\ pc[a] = "reconcile_trip"
    /\ latch' = IF ~SwitchActive \/ latch = "absent" THEN "latched" ELSE latch
    /\ Goto(a, "idle")
    /\ UNCHANGED <<doc, priv, journal, world, req, t0, safe, view, approval>>

\* A storage call of reconcile raises and the exception ends the tick.
ReconcileFails(a) ==
    /\ pc[a] \in {"private", "load_journal", "report", "reconcile_trip"}
    /\ Fault
    /\ Goto(a, "idle")
    /\ view' = [view EXCEPT ![a] = EmptyView]
    /\ UNCHANGED <<doc, latch, priv, journal, outside, req, t0, safe, approval>>

----------------------------------------------------------------------------
\* PersistentExecutionKillSwitch.clear: the operator passes restart_safe and
\* the unresolved count of a report; only the environment is read again.
Clear ==
    /\ approval /\ ~env
    /\ latch' = "open"
    /\ approval' = FALSE
    /\ late' = [b \in Bridges |-> 0]
    /\ UNCHANGED <<doc, priv, journal, exch, sends, env, clock, faults, pc,
                   req, t0, safe, view>>

\* The process dies and is started again, perhaps with another environment:
\* what is in memory is gone, requests on the wire are not.
Crash ==
    /\ Fault
    /\ env' \in BOOLEAN
    /\ pc' = [a \in Actors |-> "idle"]
    /\ req' = [b \in Bridges |-> NoId]
    /\ t0' = [b \in Bridges |-> 0]
    /\ safe' = [b \in Bridges |-> FALSE]
    /\ view' = [a \in Actors |-> EmptyView]
    /\ UNCHANGED <<doc, latch, priv, journal, exch, sends, late, clock,
                   approval>>

Execute(b) ==
    \/ \E l \in Links : Begin(b, l)
    \/ AssertOpen(b) \/ CheckUnresolved(b) \/ Preflight(b)
    \/ ReserveIntent(b) \/ MarkSubmitted(b) \/ Send(b) \/ SendFails(b)
    \/ Respond(b)
    \/ BindAccepted(b) \/ MarkRejected(b) \/ Trip(b) \/ StoreFails(b)
    \/ JournalUnresolved(b) \/ JournalAccepted(b) \/ JournalFails(b)

Reconcile(a) ==
    \/ StartReconcile(a) \/ ReadPrivate(a) \/ LoadJournal(a)
    \/ \E l \in Links, worked \in 0..2 : SyncReservation(a, l, worked)
    \/ ScanOrphans(a) \/ Report(a) \/ ReconcileTrip(a) \/ ReconcileFails(a)

Exchange(l) == ExchangeDecides(l) \/ ExchangeAdvances(l) \/ Ingest(l)

Next ==
    \/ \E b \in Bridges : Execute(b)
    \/ \E a \in Actors : Reconcile(a)
    \/ \E l \in Links : Exchange(l)
    \/ Tick \/ Clear \/ Crash

Spec == Init /\ [][Next]_vars

----------------------------------------------------------------------------
TypeOK ==
    /\ doc \in [Links -> Reservation]
    /\ latch \in {"absent", "open", "latched"}
    /\ priv \in [Links -> Evidence]
    /\ journal \subseteq Links
    /\ exch \in [Links -> ExchangeOrder]
    /\ sends \in [Links -> Nat]
    /\ late \in [Bridges -> Nat]
    /\ env \in BOOLEAN
    /\ clock \in Nat
    /\ faults \in Nat
    /\ pc \in [Actors -> {"idle"} \cup ExecutePCs \cup ReconcilePCs]
    /\ req \in [Bridges -> Links \cup {NoId}]
    /\ \A b \in Bridges : pc[b] \in ExecutePCs => req[b] \in Links
    /\ t0 \in [Bridges -> Nat]
    /\ safe \in [Bridges -> BOOLEAN]
    /\ view \in [Actors -> View]
    /\ approval \in BOOLEAN

\* Spec with the scheduling the code has: the campaign thread calls reconcile
\* again and again and runs each call to its end.  Nothing is assumed of the
\* bridges, the exchange, the stream or the operator.
FairSpec == Spec /\ \A a \in Auditors : WF_vars(Reconcile(a))

----------------------------------------------------------------------------
\* A request is on the wire only if its reservation was made and marked
\* Submitted first, whoever crashed, failed or raced in between
\* (bybit_execution.py: "Every request is durably reserved before the network
\* call").
ReservedBeforeSent ==
    \A l \in Links :
        sends[l] > 0 => doc[l].status \notin {"None", "Reserved"}

\* The same intent is never submitted twice: not by two bridges that mirror
\* the same trade at once, not by a bridge that starts over after a crash.
SubmittedAtMostOnce == \A l \in Links : sends[l] <= 1

\* An order that may still execute is always unresolved in the registry, so
\* that it blocks what comes next; a slow exchange, a lost response or a
\* reconcile working from old evidence never hides one.
LiveOrderIsUnresolved ==
    \A l \in Links :
        exch[l].status \in {"InFlight", "New", "PartiallyFilled"} =>
            l \in Unresolved(doc)

\* A reservation the registry has closed says what became of the order:
\* the final status and the executed quantity are those of the exchange.
ClosedAgreesWithExchange ==
    \A l \in Links :
        IsTerminal(doc, l) =>
            /\ doc[l].cum = exch[l].cum
            /\ exch[l].status = IF doc[l].status = "Rejected" THEN "Refused"
                                ELSE doc[l].status

\* Of all attempts at one order intent at most one may ever execute: a retry
\* goes out only when the attempts before it are over with nothing filled.
OneAttemptExecutes ==
    \A l, m \in Links :
        LET MayExecute(k) == \/ exch[k].status \in {"InFlight", "New"}
                             \/ exch[k].cum > 0
        IN  Root(l) = Root(m) /\ MayExecute(l) /\ MayExecute(m) => l = m

\* After the switch latches, a bridge can finish the one submission it had
\* already cleared through preflight, and starts no other until the operator
\* clears the switch: restarts do not help it.
LatchStopsSubmission == \A b \in Bridges : late[b] <= 1

\* "Any unresolved reservation blocks every later exchange write": a request
\* goes out only when no other reservation is unresolved.
UnresolvedBlocksSubmission ==
    [][\A l \in Links : sends'[l] # sends[l] => Unresolved(doc) \subseteq {l}]_vars

Final(l) == priv[l].status \in PrivateTerminal

\* Authenticated evidence that an order is over closes its reservation,
\* unless the reservation carries a later timestamp than the evidence.
EvidenceResolves ==
    \A l \in Links :
        Final(l) ~> (IsTerminal(doc, l) \/ priv[l].upd < doc[l].upd)

\* "Ambiguous requests remain Submitted/unresolved until authenticated
\* private evidence ... resolves them": the evidence always does.
EvidenceAlwaysResolves == \A l \in Links : Final(l) ~> IsTerminal(doc, l)

----------------------------------------------------------------------------
(* The inductive invariants behind the theorems of ExecutionGatewayProofs. *)

\* A bridge between its reservation and the end of its send.
Owns(b) == pc[b] \in {"mark_submitted", "send"}

\* Whoever owns a link is alone with it and has not sent it yet; when it gets
\* to the send the reservation is past "Reserved".
SubmissionInv ==
    /\ \A b \in Bridges :
          Owns(b) => IsReserved(doc, req[b]) /\ sends[req[b]] = 0
    /\ \A b \in Bridges : pc[b] = "send" => doc[req[b]].status # "Reserved"
    /\ \A b, c \in Bridges : Owns(b) /\ Owns(c) /\ req[b] = req[c] => b = c
    /\ ReservedBeforeSent
    /\ SubmittedAtMostOnce

\* A bridge that sent after the latch is not on its way to another send.
LatchInv ==
    \A b \in Bridges :
        \/ late[b] = 0
        \/ /\ late[b] = 1 /\ latch = "latched"
           /\ pc[b] \notin {"reserve", "mark_submitted", "send"}

\* Evidence is about an order the exchange took, and final evidence is the
\* order's last word.
Truthful(e, l) ==
    e.status # "None" =>
        /\ exch[l].status \in PrivateStatuses
        /\ e.status # "Rejected"
        /\ e.status \in PrivateTerminal =>
              exch[l].status = e.status /\ exch[l].cum = e.cum

\* All evidence is truthful, wherever a thread keeps it; a bridge about to
\* record a rejection was told so by the exchange.
AgreementInv ==
    /\ \A l \in Links :
          /\ exch[l].status # "Rejected"
          /\ exch[l].status \in {"None", "InFlight", "Refused"} =>
                exch[l].cum = 0
          /\ exch[l].status # "None" => sends[l] > 0
          /\ Truthful(priv[l], l)
    /\ \A a \in Actors, l \in Links : Truthful(view[a].priv[l], l)
    /\ \A b \in Bridges : pc[b] = "reject" => exch[req[b]].status = "Refused"
    /\ ClosedAgreesWithExchange

\* The attempts before the latest one are over with nothing executed.
AttemptsInv ==
    \A l, m \in Links :
        /\ Root(l) = Root(m) /\ Attempt(m) < Attempt(l)
        /\ IsReserved(doc, l) /\ IsReserved(doc, m)
        => doc[m].status \in ZeroFillRetryable /\ doc[m].cum = 0

-----------------------------------------------------------------------------
(* For TLC: bridges are interchangeable, and so are intents.               *)
BridgeSymmetry == Permutations(Bridges)
IntentSymmetry == Permutations(Roots)
=============================================================================
