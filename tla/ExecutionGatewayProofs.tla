----------------------- MODULE ExecutionGatewayProofs -----------------------
(***************************************************************************)
(* Proofs about ExecutionGateway, for any number of bridges, auditors,     *)
(* intents and attempts, any clock and any number of faults.               *)
(***************************************************************************)
EXTENDS ExecutionGateway, TLAPS

----------------------------------------------------------------------------
(* What the registry's mutations preserve.                                 *)

LEMMA EmptyDocumentType == EmptyDocument \in [Links -> Reservation]
  BY DEF EmptyDocument, NoReservation, Reservation, Statuses, Terminal

\* A new reservation keeps the document well formed.
LEMMA ReserveType ==
  ASSUME NEW d \in [Links -> Reservation], NEW l \in Links, NEW now \in Nat
  PROVE  Reserve(d, l, now) \in [Links -> Reservation]
  BY DEF Reserve, Reservation, Statuses, Terminal

\* So does binding an orderId.
LEMMA BindType ==
  ASSUME NEW d \in [Links -> Reservation], NEW l \in Links,
         NEW id \in OrderIds, NEW now \in Nat
  PROVE  Bind(d, l, id, now) \in [Links -> Reservation]
  <1>1. d[l] \in Reservation
    OBVIOUS
  <1>2. [status |-> IF d[l].status = "Reserved" THEN "Submitted"
                    ELSE d[l].status,
         cum |-> d[l].cum, upd |-> now, oid |-> id] \in Reservation
    BY <1>1 DEF Reservation, Statuses, Terminal
  <1> QED
    BY <1>2 DEF Bind

\* So does a status update.
LEMMA UpdateStatusType ==
  ASSUME NEW d \in [Links -> Reservation], NEW l \in Links,
         NEW status \in Statuses, NEW cum \in Nat, NEW now \in Nat,
         NEW id \in OrderIds \cup {NoId}
  PROVE  UpdateStatus(d, l, status, cum, now, id) \in [Links -> Reservation]
  <1>1. d[l] \in Reservation
    OBVIOUS
  <1>2. [status |-> status, cum |-> cum, upd |-> now,
         oid |-> IF id = NoId THEN d[l].oid ELSE id] \in Reservation
    BY <1>1 DEF Reservation
  <1> QED
    BY <1>2 DEF UpdateStatus

----------------------------------------------------------------------------
(* What reconcile's reads and notes do to the view it carries.             *)

LEMMA EmptyViewType == EmptyView \in View
  BY DEF EmptyView, View, NoEvidence, Evidence

LEMMA ViewStartType ==
  ASSUME NEW v \in View, NEW s \in [Links -> Statuses \cup {"None"}],
         NEW t \in SUBSET Links
  PROVE  [v EXCEPT !.status = s, !.todo = t] \in View
  BY DEF View

LEMMA ViewPrivateType ==
  ASSUME NEW v \in View, NEW p \in [Links -> Evidence]
  PROVE  [v EXCEPT !.priv = p] \in View
  BY DEF View

LEMMA ViewJournalType ==
  ASSUME NEW v \in View, NEW j \in SUBSET Links, NEW e \in BOOLEAN
  PROVE  [v EXCEPT !.journal = j, !.errors = e] \in View
  BY DEF View

LEMMA ViewSyncType ==
  ASSUME NEW v \in View, NEW t \in SUBSET Links, NEW e \in BOOLEAN
  PROVE  [v EXCEPT !.todo = t, !.errors = e] \in View
  BY DEF View

LEMMA ViewErrorType ==
  ASSUME NEW v \in View, NEW e \in BOOLEAN
  PROVE  [v EXCEPT !.errors = e] \in View
  BY DEF View

\* Every step of the gateway keeps its state well typed.
LEMMA TypeCorrectStep == TypeOK /\ [Next]_vars => TypeOK'
  <1> SUFFICES ASSUME TypeOK, [Next]_vars PROVE TypeOK'
    OBVIOUS
  <1> USE DEF TypeOK, Goto, world, outside, Actors, ExecutePCs,
              ReconcilePCs
  <1>1. ASSUME NEW b \in Bridges, NEW l \in Links, Begin(b, l) PROVE TypeOK'
    BY <1>1 DEF Begin
  <1>2. ASSUME NEW b \in Bridges, AssertOpen(b) PROVE TypeOK'
    BY <1>2 DEF AssertOpen
  <1>3. ASSUME NEW b \in Bridges, CheckUnresolved(b) PROVE TypeOK'
    BY <1>3 DEF CheckUnresolved
  <1>4. ASSUME NEW b \in Bridges, Preflight(b) PROVE TypeOK'
    BY <1>4 DEF Preflight
  <1>5. ASSUME NEW b \in Bridges, ReserveIntent(b) PROVE TypeOK'
    <2>1. req[b] \in Links /\ t0[b] \in Nat
      BY <1>5 DEF ReserveIntent
    <2>2. Reserve(doc, req[b], t0[b]) \in [Links -> Reservation]
      BY <2>1, ReserveType
    <2> QED
      BY <1>5, <2>2 DEF ReserveIntent
  <1>6. ASSUME NEW b \in Bridges, MarkSubmitted(b) PROVE TypeOK'
    <2>1. req[b] \in Links /\ t0[b] \in Nat
      BY <1>6 DEF MarkSubmitted
    <2>2. UpdateStatus(doc, req[b], "Submitted", 0, t0[b], NoId)
            \in [Links -> Reservation]
      BY <2>1, UpdateStatusType DEF Statuses
    <2> QED
      BY <1>6, <2>2 DEF MarkSubmitted
  <1>7. ASSUME NEW b \in Bridges, Send(b) PROVE TypeOK'
    <2>1. req[b] \in Links
      BY <1>7 DEF Send
    <2>2. Stamped("InFlight", 0) \in ExchangeOrder
      BY DEF Stamped, ExchangeOrder, ExchangeStates
    <2> QED
      BY <1>7, <2>1, <2>2 DEF Send
  <1>8. ASSUME NEW b \in Bridges, Respond(b) PROVE TypeOK'
    BY <1>8 DEF Respond
  <1>8a. ASSUME NEW b \in Bridges, SendFails(b) PROVE TypeOK'
    BY <1>8a DEF SendFails
  <1>9. ASSUME NEW b \in Bridges, BindAccepted(b) PROVE TypeOK'
    <2>1. req[b] \in Links
      BY <1>9 DEF BindAccepted
    <2>2. Bind(doc, req[b], req[b], clock) \in [Links -> Reservation]
      BY <2>1, BindType DEF OrderIds
    <2> QED
      BY <1>9, <2>2 DEF BindAccepted
  <1>10. ASSUME NEW b \in Bridges, MarkRejected(b) PROVE TypeOK'
    <2>1. req[b] \in Links
      BY <1>10 DEF MarkRejected
    <2>2. UpdateStatus(doc, req[b], "Rejected", 0, clock, NoId)
            \in [Links -> Reservation]
      BY <2>1, UpdateStatusType DEF Statuses, Terminal
    <2> QED
      BY <1>10, <2>2 DEF MarkRejected
  <1>11. ASSUME NEW b \in Bridges, Trip(b) PROVE TypeOK'
    BY <1>11 DEF Trip
  <1>12. ASSUME NEW b \in Bridges, StoreFails(b) PROVE TypeOK'
    BY <1>12 DEF StoreFails, Fault
  <1>13. ASSUME NEW b \in Bridges, JournalUnresolved(b) PROVE TypeOK'
    BY <1>13 DEF JournalUnresolved, Return
  <1>14. ASSUME NEW b \in Bridges, JournalAccepted(b) PROVE TypeOK'
    BY <1>14 DEF JournalAccepted, Return
  <1>15. ASSUME NEW b \in Bridges, JournalFails(b) PROVE TypeOK'
    BY <1>15 DEF JournalFails, Return, Fault
  <1>16. ASSUME NEW l \in Links, ExchangeDecides(l) PROVE TypeOK'
    <2>1. Stamped("New", 0) \in ExchangeOrder
          /\ Stamped("Refused", 0) \in ExchangeOrder
      BY DEF Stamped, ExchangeOrder, ExchangeStates, PrivateStatuses,
             PrivateOpen
    <2> QED
      BY <1>16, <2>1 DEF ExchangeDecides
  <1>17. ASSUME NEW l \in Links, ExchangeAdvances(l) PROVE TypeOK'
    <2>1. \A c \in Nat : /\ Stamped("Filled", c) \in ExchangeOrder
                         /\ Stamped("Cancelled", c) \in ExchangeOrder
                         /\ Stamped("PartiallyFilled", c) \in ExchangeOrder
                         /\ Stamped("PartiallyFilledCanceled", c)
                              \in ExchangeOrder
      BY DEF Stamped, ExchangeOrder, ExchangeStates, PrivateStatuses,
             PrivateOpen, PrivateTerminal
    <2>2. FullQty \in Nat /\ exch[l].cum \in Nat
      BY BoundsAreNatural DEF ExchangeOrder
    <2> QED
      BY <1>17, <2>1, <2>2 DEF ExchangeAdvances
  <1>18. ASSUME NEW l \in Links, Ingest(l) PROVE TypeOK'
    <2>1. Merge(priv[l], exch[l]) \in Evidence
      BY <1>18 DEF Ingest, Merge, Evidence, ExchangeOrder
    <2> QED
      BY <1>18, <2>1 DEF Ingest
  <1>19. ASSUME NEW a \in Actors, StartReconcile(a) PROVE TypeOK'
    <2> DEFINE s == [l \in Links |-> doc[l].status]
               t == {l \in Links : IsReserved(doc, l)}
    <2>1. view[a] \in View /\ s \in [Links -> Statuses \cup {"None"}]
          /\ t \in SUBSET Links
      BY DEF Reservation
    <2>2. view' = [view EXCEPT ![a] = [view[a] EXCEPT !.status = s,
                                                      !.todo = t]]
      BY <1>19 DEF StartReconcile
    <2> HIDE DEF s, t
    <2>3. [view[a] EXCEPT !.status = s, !.todo = t] \in View
      BY <2>1, ViewStartType
    <2> QED
      BY <1>19, <2>2, <2>3 DEF StartReconcile
  <1>20. ASSUME NEW a \in Actors, ReadPrivate(a) PROVE TypeOK'
    <2>1. [view[a] EXCEPT !.priv = priv] \in View
      BY ViewPrivateType
    <2> QED
      BY <1>20, <2>1 DEF ReadPrivate
  <1>21. ASSUME NEW a \in Actors, LoadJournal(a) PROVE TypeOK'
    <2>1. PICK e \in BOOLEAN :
            view' = [view EXCEPT ![a] =
                       [view[a] EXCEPT !.journal = journal, !.errors = e]]
      BY <1>21 DEF LoadJournal
    <2>2. [view[a] EXCEPT !.journal = journal, !.errors = e] \in View
      BY ViewJournalType
    <2> QED
      BY <1>21, <2>1, <2>2 DEF LoadJournal
  <1>22. ASSUME NEW a \in Actors, NEW l \in Links, NEW worked \in 0..2,
               SyncReservation(a, l, worked)
        PROVE TypeOK'
    <2> DEFINE p == view[a].priv[l]
               t == view[a].todo \ {l}
    <2>1. view[a] \in View
      OBVIOUS
    <2>2. view[a].todo \in SUBSET Links /\ p \in Evidence
          /\ view[a].errors \in BOOLEAN
      BY <2>1 DEF View
    <2>3. PICK e \in BOOLEAN :
            view' = [view EXCEPT ![a] =
                       [view[a] EXCEPT !.todo = t, !.errors = e]]
      BY <1>22, <2>2 DEF SyncReservation
    <2>4. [view[a] EXCEPT !.todo = t, !.errors = e] \in View
      BY <2>1, <2>2, ViewSyncType
    <2>5. view' \in [Actors -> View]
      BY <2>3, <2>4
    <2>6. PrivateStatuses \subseteq Statuses
      BY DEF PrivateStatuses, PrivateOpen, PrivateTerminal, Statuses,
             Terminal
    <2>7. p.status # "None" =>
            UpdateStatus(doc, l, p.status, p.cum, p.upd, l)
              \in [Links -> Reservation]
      BY <2>2, <2>6, UpdateStatusType DEF Evidence, OrderIds
    <2>8. doc' \in [Links -> Reservation] /\ faults' \in Nat
      BY <1>22, <2>7 DEF SyncReservation, Fault
    <2> QED
      BY <1>22, <2>5, <2>8 DEF SyncReservation
  <1>23. ASSUME NEW a \in Actors, ScanOrphans(a) PROVE TypeOK'
    <2>1. view[a] \in View /\ view[a].errors \in BOOLEAN
      BY DEF View
    <2>2. PICK e \in BOOLEAN :
            view' = [view EXCEPT ![a] = [view[a] EXCEPT !.errors = e]]
      BY <1>23, <2>1 DEF ScanOrphans
    <2>3. [view[a] EXCEPT !.errors = e] \in View
      BY <2>1, ViewErrorType
    <2> QED
      BY <1>23, <2>2, <2>3 DEF ScanOrphans
  <1>24. ASSUME NEW a \in Actors, Report(a) PROVE TypeOK'
    <2>1. safe' \in [Bridges -> BOOLEAN] /\ approval' \in BOOLEAN
      BY <1>24, Zenon DEF Report
    <2> QED
      BY <1>24, <2>1, EmptyViewType DEF Report
  <1>25. ASSUME NEW a \in Actors, ReconcileTrip(a) PROVE TypeOK'
    BY <1>25 DEF ReconcileTrip
  <1>26. ASSUME NEW a \in Actors, ReconcileFails(a) PROVE TypeOK'
    BY <1>26, EmptyViewType DEF ReconcileFails, Fault
  <1>27. ASSUME Tick PROVE TypeOK'
    BY <1>27 DEF Tick
  <1>28. ASSUME Clear PROVE TypeOK'
    BY <1>28 DEF Clear
  <1>29. ASSUME Crash PROVE TypeOK'
    BY <1>29, EmptyViewType DEF Crash, Fault
  <1>30. ASSUME UNCHANGED vars PROVE TypeOK'
    BY <1>30 DEF vars
  <1> QED
    BY <1>1, <1>2, <1>3, <1>4, <1>5, <1>6, <1>7, <1>8, <1>8a, <1>9, <1>10,
       <1>11, <1>12, <1>13, <1>14, <1>15, <1>16, <1>17, <1>18, <1>19, <1>20,
       <1>21, <1>22, <1>23, <1>24, <1>25, <1>26, <1>27, <1>28, <1>29, <1>30
       DEF Next, Execute, Reconcile, Exchange

\* The gateway's documents, counters and threads stay well typed whatever
\* runs, fails or restarts.
THEOREM TypeCorrect == Spec => []TypeOK
  <1>1. Init => TypeOK
    <2> SUFFICES ASSUME Init PROVE TypeOK
      OBVIOUS
    <2>1. NoEvidence \in Evidence /\ NoEvidence \in ExchangeOrder
      BY DEF NoEvidence, Evidence, ExchangeOrder, ExchangeStates
    <2>2. pc \in [Actors -> {"idle"} \cup ExecutePCs \cup ReconcilePCs]
          /\ \A b \in Bridges : pc[b] \in ExecutePCs => req[b] \in Links
      BY DEF Init, Actors, ExecutePCs
    <2>3. view \in [Actors -> View]
      BY EmptyViewType DEF Init
    <2> QED
      BY <2>1, <2>2, <2>3, EmptyDocumentType DEF Init, TypeOK
  <1> QED
    BY <1>1, TypeCorrectStep, PTL DEF Spec
----------------------------------------------------------------------------
(* The safety theorems.  Four inductive invariants carry them:             *)
(* SubmissionInv (who may send what), LatchInv (what the latch leaves      *)
(* running), AgreementInv (what the registry and the evidence know of the  *)
(* exchange) and AttemptsInv (what a retry presupposes).                   *)
\* Nothing reconcile or execute writes over a reservation removes it or puts
\* it back to Reserved.
LEMMA UpdateStatusEffect ==
  ASSUME NEW d \in [Links -> Reservation], NEW l \in Links,
         NEW status, NEW cum, NEW now, NEW id, NEW m \in Links
  PROVE  /\ m # l => UpdateStatus(d, l, status, cum, now, id)[m] = d[m]
         /\ UpdateStatus(d, l, status, cum, now, id)[l].status = status
         /\ UpdateStatus(d, l, status, cum, now, id)[l].cum = cum
  BY DEF UpdateStatus

LEMMA BindEffect ==
  ASSUME NEW d \in [Links -> Reservation], NEW l \in Links,
         NEW id, NEW now, NEW m \in Links
  PROVE  /\ m # l => Bind(d, l, id, now)[m] = d[m]
         /\ Bind(d, l, id, now)[l].status =
              IF d[l].status = "Reserved" THEN "Submitted" ELSE d[l].status
         /\ Bind(d, l, id, now)[l].cum = d[l].cum
  BY DEF Bind

LEMMA ReserveEffect ==
  ASSUME NEW d \in [Links -> Reservation], NEW l \in Links, NEW now,
         NEW m \in Links
  PROVE  /\ m # l => Reserve(d, l, now)[m] = d[m]
         /\ Reserve(d, l, now)[l].status = "Reserved"
         /\ Reserve(d, l, now)[l].cum = 0
  BY DEF Reserve

----------------------------------------------------------------------------
\* No step of any thread breaks the rule that a link has one owner, who sends
\* it once and after marking it.
LEMMA SubmissionStep ==
  TypeOK /\ TypeOK' /\ SubmissionInv /\ [Next]_vars => SubmissionInv'
  <1> SUFFICES ASSUME TypeOK, TypeOK', SubmissionInv, [Next]_vars
               PROVE  SubmissionInv'
    OBVIOUS
  <1> USE DEF SubmissionInv, ReservedBeforeSent, SubmittedAtMostOnce, Owns,
              IsReserved, Goto
  <1>a. /\ doc \in [Links -> Reservation] /\ sends \in [Links -> Nat]
        /\ pc \in [Actors -> {"idle"} \cup ExecutePCs \cup ReconcilePCs]
        /\ req \in [Bridges -> Links \cup {NoId}]
        /\ Bridges \subseteq Actors
        /\ \A b \in Bridges : pc[b] \in ExecutePCs => req[b] \in Links
    BY DEF TypeOK, Actors
  <1>b. \A b \in Bridges : Owns(b) => req[b] \in Links
    BY <1>a DEF ExecutePCs
  <1>1. ASSUME NEW b \in Bridges, NEW l \in Links, Begin(b, l)
        PROVE  SubmissionInv'
    BY <1>1, <1>a DEF Begin, world, outside
  <1>2. ASSUME NEW b \in Bridges,
               AssertOpen(b) \/ CheckUnresolved(b) \/ Preflight(b)
               \/ SendFails(b) \/ Respond(b) \/ Trip(b)
        PROVE  SubmissionInv'
    BY <1>2, <1>a DEF AssertOpen, CheckUnresolved, Preflight, SendFails,
                      Respond, Trip, world, outside
  <1>3. ASSUME NEW b \in Bridges, StoreFails(b) PROVE SubmissionInv'
    BY <1>3, <1>a DEF StoreFails, outside
  <1>4. ASSUME NEW b \in Bridges,
               JournalUnresolved(b) \/ JournalAccepted(b) \/ JournalFails(b)
        PROVE  SubmissionInv'
    BY <1>4, <1>a DEF JournalUnresolved, JournalAccepted, JournalFails,
                      Return, world, outside
  <1>5. ASSUME NEW b \in Bridges, ReserveIntent(b) PROVE SubmissionInv'
    <2>1. CASE ~MayReserve(doc, req[b])
      BY <1>5, <2>1, <1>a DEF ReserveIntent, world, outside
    <2>2. CASE MayReserve(doc, req[b])
      <3> DEFINE l == req[b]
      <3>1. /\ l \in Links /\ doc[l].status = "None" /\ req' = req
            /\ doc' = Reserve(doc, l, t0[b]) /\ sends' = sends
            /\ pc' = [pc EXCEPT ![b] = "mark_submitted"]
        BY <1>5, <2>2, <1>a DEF ReserveIntent, MayReserve, world, outside,
                                ExecutePCs
      <3>2. /\ doc'[l].status = "Reserved"
            /\ \A m \in Links \ {l} : doc'[m] = doc[m]
        BY <3>1, <1>a, ReserveEffect
      <3>3. sends[l] = 0
        BY <3>1, <1>a
      <3>4. \A c \in Bridges : Owns(c) => req[c] # l
        BY <3>1
      <3> QED
        BY <3>1, <3>2, <3>3, <3>4, <1>a, <1>b
    <2> QED
      BY <2>1, <2>2
  <1>6. ASSUME NEW b \in Bridges, MarkSubmitted(b) PROVE SubmissionInv'
    <2> DEFINE l == req[b]
    <2>1. /\ l \in Links /\ req' = req /\ sends' = sends
          /\ pc[b] = "mark_submitted"
      BY <1>6, <1>a DEF MarkSubmitted, world, outside, ExecutePCs
    <2>2. CASE doc' = doc /\ pc' = [pc EXCEPT ![b] = "raised"]
      BY <2>1, <2>2, <1>a
    <2>3. CASE /\ doc' = UpdateStatus(doc, l, "Submitted", 0, t0[b], NoId)
               /\ pc' = [pc EXCEPT ![b] = "send"]
      <3>1. /\ doc'[l].status = "Submitted"
            /\ \A m \in Links \ {l} : doc'[m] = doc[m]
        BY <2>1, <2>3, <1>a, UpdateStatusEffect
      <3> QED
        BY <2>1, <2>3, <3>1, <1>a, <1>b
    <2> QED
      BY <1>6, <2>2, <2>3 DEF MarkSubmitted
  <1>7. ASSUME NEW b \in Bridges, Send(b) PROVE SubmissionInv'
    <2> DEFINE l == req[b]
    <2>1. /\ l \in Links /\ req' = req /\ doc' = doc
          /\ sends' = [sends EXCEPT ![l] = sends[l] + 1]
          /\ pc[b] = "send" /\ pc' = [pc EXCEPT ![b] = "wait"]
      BY <1>7, <1>a DEF Send, ExecutePCs
    <2>2. sends[l] = 0 /\ doc[l].status \notin {"None", "Reserved"}
      BY <2>1
    <2>3. \A c \in Bridges \ {b} : Owns(c) => req[c] # l
      BY <2>1
    <2> QED
      BY <2>1, <2>2, <2>3, <1>a, <1>b
  <1>8. ASSUME NEW b \in Bridges, BindAccepted(b) PROVE SubmissionInv'
    <2> DEFINE l == req[b]
    <2>1. /\ l \in Links /\ req' = req /\ sends' = sends /\ pc[b] = "bind"
          /\ \/ pc' = [pc EXCEPT ![b] = "accepted"]
             \/ pc' = [pc EXCEPT ![b] = "raised"]
          /\ \/ doc' = doc
             \/ doc[l].status # "None" /\ doc' = Bind(doc, l, l, clock)
      BY <1>8, <1>a DEF BindAccepted, MayBind, world, outside, ExecutePCs
    <2>2. /\ \A m \in Links \ {l} : doc'[m] = doc[m]
          /\ \/ doc'[l].status = doc[l].status
             \/ doc'[l].status = "Submitted"
      BY <2>1, <1>a, BindEffect
    <2>3. doc[l].status # "None" \/ doc' = doc
      BY <2>1
    <2> QED
      BY <2>1, <2>2, <2>3, <1>a, <1>b
  <1>9. ASSUME NEW b \in Bridges, MarkRejected(b) PROVE SubmissionInv'
    <2> DEFINE l == req[b]
    <2>1. /\ l \in Links /\ req' = req /\ sends' = sends /\ pc[b] = "reject"
          /\ pc' = [pc EXCEPT ![b] = "raised"]
          /\ \/ doc' = doc
             \/ doc' = UpdateStatus(doc, l, "Rejected", 0, clock, NoId)
      BY <1>9, <1>a DEF MarkRejected, world, outside, ExecutePCs
    <2>2. /\ \A m \in Links \ {l} : doc'[m] = doc[m]
          /\ \/ doc'[l].status = doc[l].status
             \/ doc'[l].status = "Rejected"
      BY <2>1, <1>a, UpdateStatusEffect
    <2> QED
      BY <2>1, <2>2, <1>a, <1>b
  <1>10. ASSUME NEW a \in Actors, NEW l \in Links, NEW worked \in 0..2,
                SyncReservation(a, l, worked)
         PROVE  SubmissionInv'
    <2> DEFINE e == view[a].priv[l]
    <2>1. /\ req' = req /\ sends' = sends /\ pc' = pc
          /\ \/ doc' = doc
             \/ /\ e.status # "None"
                /\ doc' = UpdateStatus(doc, l, e.status, e.cum, e.upd, l)
      BY <1>10 DEF SyncReservation, outside
    <2>2. e \in Evidence
      BY DEF TypeOK, View
    <2>3. "None" \notin PrivateStatuses /\ "Reserved" \notin PrivateStatuses
      BY DEF PrivateStatuses, PrivateOpen, PrivateTerminal
    <2>4. e.status # "None" => e.status \notin {"None", "Reserved"}
      BY <2>2, <2>3 DEF Evidence
    <2>5. /\ \A m \in Links \ {l} : doc'[m] = doc[m]
          /\ \/ doc'[l].status = doc[l].status
             \/ doc'[l].status \notin {"None", "Reserved"}
      BY <2>1, <2>4, <1>a, UpdateStatusEffect
    <2> QED
      BY <2>1, <2>5, <1>a, <1>b
  <1>11. ASSUME NEW a \in Actors,
                \/ StartReconcile(a) \/ ReadPrivate(a) \/ LoadJournal(a)
                \/ ScanOrphans(a) \/ Report(a) \/ ReconcileTrip(a)
         PROVE  SubmissionInv'
    BY <1>11, <1>a DEF StartReconcile, ReadPrivate, LoadJournal, ScanOrphans,
                       Report, ReconcileTrip, world, outside
  <1>12. ASSUME NEW a \in Actors, ReconcileFails(a) PROVE SubmissionInv'
    BY <1>12, <1>a DEF ReconcileFails, outside
  <1>13. ASSUME NEW l \in Links,
                ExchangeDecides(l) \/ ExchangeAdvances(l) \/ Ingest(l)
         PROVE  SubmissionInv'
    BY <1>13 DEF ExchangeDecides, ExchangeAdvances, Ingest, world, outside
  <1>14. ASSUME Tick \/ Clear PROVE SubmissionInv'
    BY <1>14 DEF Tick, Clear
  <1>15. ASSUME Crash PROVE SubmissionInv'
    BY <1>15, <1>a DEF Crash
  <1>16. ASSUME UNCHANGED vars PROVE SubmissionInv'
    BY <1>16 DEF vars
  <1> QED
    BY <1>1, <1>2, <1>3, <1>4, <1>5, <1>6, <1>7, <1>8, <1>9, <1>10, <1>11,
       <1>12, <1>13, <1>14, <1>15, <1>16
       DEF Next, Execute, Reconcile, Exchange

----------------------------------------------------------------------------
\* A latched switch lets a bridge past preflight nowhere, so a late send is
\* the last one.
LEMMA LatchStep == TypeOK /\ LatchInv /\ [Next]_vars => LatchInv'
  <1> SUFFICES ASSUME TypeOK, LatchInv, [Next]_vars PROVE LatchInv'
    OBVIOUS
  <1> USE DEF LatchInv, Goto
  <1>a. /\ pc \in [Actors -> {"idle"} \cup ExecutePCs \cup ReconcilePCs]
        /\ late \in [Bridges -> Nat]
        /\ Bridges \subseteq Actors
    BY DEF TypeOK, Actors
  <1>1. ASSUME NEW b \in Bridges, NEW l \in Links, Begin(b, l)
        PROVE  LatchInv'
    BY <1>1, <1>a DEF Begin, world, outside
  <1>2. ASSUME NEW b \in Bridges,
               \/ AssertOpen(b) \/ CheckUnresolved(b) \/ SendFails(b)
               \/ Respond(b)
        PROVE  LatchInv'
    BY <1>2, <1>a DEF AssertOpen, CheckUnresolved, SendFails, Respond, world,
                      outside
  <1>3. ASSUME NEW b \in Bridges, Preflight(b) PROVE LatchInv'
    BY <1>3, <1>a DEF Preflight, SwitchActive, world, outside
  <1>4. ASSUME NEW b \in Bridges, ReserveIntent(b) \/ MarkSubmitted(b)
        PROVE  LatchInv'
    BY <1>4, <1>a DEF ReserveIntent, MarkSubmitted, world, outside
  <1>5. ASSUME NEW b \in Bridges, Send(b) PROVE LatchInv'
    <2>1. /\ pc[b] = "send" /\ pc' = [pc EXCEPT ![b] = "wait"]
          /\ latch' = latch
          /\ \/ latch # "latched" /\ late' = late
             \/ latch = "latched" /\ late' = [late EXCEPT ![b] = late[b] + 1]
      BY <1>5 DEF Send
    <2>2. late[b] = 0
      BY <2>1
    <2> QED
      BY <2>1, <2>2, <1>a
  <1>6. ASSUME NEW b \in Bridges,
               BindAccepted(b) \/ MarkRejected(b) \/ Trip(b)
        PROVE  LatchInv'
    BY <1>6, <1>a DEF BindAccepted, MarkRejected, Trip, world, outside
  <1>7. ASSUME NEW b \in Bridges,
               \/ StoreFails(b) \/ JournalUnresolved(b)
               \/ JournalAccepted(b) \/ JournalFails(b)
        PROVE  LatchInv'
    BY <1>7, <1>a DEF StoreFails, JournalUnresolved, JournalAccepted,
                      JournalFails, Return, world, outside
  <1>8. ASSUME NEW a \in Actors,
               \/ StartReconcile(a) \/ ReadPrivate(a) \/ LoadJournal(a)
               \/ ScanOrphans(a) \/ Report(a) \/ ReconcileFails(a)
        PROVE  LatchInv'
    BY <1>8, <1>a DEF StartReconcile, ReadPrivate, LoadJournal, ScanOrphans,
                      Report, ReconcileFails, world, outside
  <1>9. ASSUME NEW a \in Actors, NEW l \in Links, NEW worked \in 0..2,
               SyncReservation(a, l, worked)
        PROVE  LatchInv'
    BY <1>9 DEF SyncReservation, outside
  <1>10. ASSUME NEW a \in Actors, ReconcileTrip(a) PROVE LatchInv'
    <2>1. /\ late' = late /\ latch' \in {"latched", latch}
          /\ pc' = [pc EXCEPT ![a] = "idle"]
      BY <1>10 DEF ReconcileTrip, world, outside
    <2> QED
      BY <2>1, <1>a
  <1>11. ASSUME NEW l \in Links,
                ExchangeDecides(l) \/ ExchangeAdvances(l) \/ Ingest(l)
         PROVE  LatchInv'
    BY <1>11 DEF ExchangeDecides, ExchangeAdvances, Ingest, world, outside
  <1>12. ASSUME Tick \/ Clear PROVE LatchInv'
    BY <1>12 DEF Tick, Clear
  <1>13. ASSUME Crash PROVE LatchInv'
    BY <1>13, <1>a DEF Crash
  <1>14. ASSUME UNCHANGED vars PROVE LatchInv'
    BY <1>14 DEF vars
  <1> QED
    BY <1>1, <1>2, <1>3, <1>4, <1>5, <1>6, <1>7, <1>8, <1>9, <1>10, <1>11,
       <1>12, <1>13, <1>14
       DEF Next, Execute, Reconcile, Exchange

----------------------------------------------------------------------------
\* What every step may do to the registry: nothing, a first reservation, or a
\* change of one reservation that keeps a closed one as it is and closes an
\* open one only the way the exchange did.
DocumentStep(l) ==
  /\ \A m \in Links \ {l} : doc'[m] = doc[m]
  /\ \/ doc'[l].status = doc[l].status /\ doc'[l].cum = doc[l].cum
     \/ doc[l].status = "None" /\ MayReserve(doc, l)
        /\ doc'[l].status = "Reserved"
     \/ /\ IsReserved(doc, l) /\ ~IsTerminal(doc, l) /\ IsReserved(doc', l)
        /\ IsTerminal(doc', l) =>
             /\ doc'[l].cum = exch[l].cum
             /\ exch[l].status = IF doc'[l].status = "Rejected" THEN "Refused"
                                 ELSE doc'[l].status

\* The calls of execute and reconcile change the registry in no other way.
LEMMA DocumentSteps ==
  ASSUME TypeOK, AgreementInv, [Next]_vars
  PROVE  doc' = doc \/ \E l \in Links : DocumentStep(l) /\ exch' = exch
  <1>a. /\ doc \in [Links -> Reservation]
        /\ \A b \in Bridges : pc[b] \in ExecutePCs => req[b] \in Links
    BY DEF TypeOK
  <1>b. Terminal = PrivateTerminal /\ "Submitted" \notin Terminal
        /\ "Reserved" \notin Terminal /\ "None" \notin Terminal
        /\ "Rejected" \in Terminal
    BY DEF Terminal, PrivateTerminal
  <1>1. ASSUME NEW b \in Bridges, ReserveIntent(b), doc' # doc
        PROVE  \E l \in Links : DocumentStep(l) /\ exch' = exch
    <2>1. /\ req[b] \in Links /\ MayReserve(doc, req[b]) /\ exch' = exch
          /\ doc' = Reserve(doc, req[b], t0[b])
      BY <1>1, <1>a DEF ReserveIntent, ExecutePCs, world, outside
    <2>2. doc[req[b]].status = "None"
      BY <2>1 DEF MayReserve, IsReserved
    <2> QED
      BY <2>1, <2>2, <1>a, ReserveEffect DEF DocumentStep
  <1>2. ASSUME NEW b \in Bridges, MarkSubmitted(b), doc' # doc
        PROVE  \E l \in Links : DocumentStep(l) /\ exch' = exch
    <2> DEFINE l == req[b]
    <2>1. /\ l \in Links /\ exch' = exch
          /\ MayUpdate(doc, l, "Submitted", 0, t0[b], NoId)
          /\ doc' = UpdateStatus(doc, l, "Submitted", 0, t0[b], NoId)
      BY <1>2, <1>a DEF MarkSubmitted, ExecutePCs, world, outside
    <2>2. IsReserved(doc, l) /\ ~IsTerminal(doc, l)
      BY <2>1, <1>b DEF MayUpdate, IsTerminal
    <2>3. /\ \A m \in Links \ {l} : doc'[m] = doc[m]
          /\ doc'[l].status = "Submitted"
      BY <2>1, <1>a, UpdateStatusEffect
    <2> QED
      BY <2>1, <2>2, <2>3, <1>b DEF DocumentStep, IsTerminal, IsReserved
  <1>3. ASSUME NEW b \in Bridges, BindAccepted(b), doc' # doc
        PROVE  \E l \in Links : DocumentStep(l) /\ exch' = exch
    <2> DEFINE l == req[b]
    <2>1. /\ l \in Links /\ exch' = exch
          /\ doc' = Bind(doc, l, l, clock)
      BY <1>3, <1>a DEF BindAccepted, ExecutePCs, world, outside
    <2>2. /\ \A m \in Links \ {l} : doc'[m] = doc[m]
          /\ doc'[l].status = IF doc[l].status = "Reserved" THEN "Submitted"
                              ELSE doc[l].status
          /\ doc'[l].cum = doc[l].cum
      BY <2>1, <1>a, BindEffect
    <2> QED
      BY <2>1, <2>2, <1>b DEF DocumentStep, IsTerminal, IsReserved
  <1>4. ASSUME NEW b \in Bridges, MarkRejected(b), doc' # doc
        PROVE  \E l \in Links : DocumentStep(l) /\ exch' = exch
    <2> DEFINE l == req[b]
    <2>1. /\ l \in Links /\ exch' = exch /\ pc[b] = "reject"
          /\ MayUpdate(doc, l, "Rejected", 0, clock, NoId)
          /\ doc' = UpdateStatus(doc, l, "Rejected", 0, clock, NoId)
      BY <1>4, <1>a DEF MarkRejected, ExecutePCs, world, outside
    <2>2. /\ \A m \in Links \ {l} : doc'[m] = doc[m]
          /\ doc'[l].status = "Rejected" /\ doc'[l].cum = 0
      BY <2>1, <1>a, UpdateStatusEffect
    <2>3. exch[l].status = "Refused" /\ exch[l].cum = 0
      BY <2>1 DEF AgreementInv
    <2>4. /\ IsReserved(doc, l)
          /\ IsTerminal(doc, l) =>
               doc[l].status = "Rejected" /\ doc[l].cum = 0
      BY <2>1 DEF MayUpdate
    <2> QED
      BY <2>1, <2>2, <2>3, <2>4 DEF DocumentStep, IsReserved
  <1>5. ASSUME NEW a \in Actors, NEW l \in Links, NEW worked \in 0..2,
               SyncReservation(a, l, worked), doc' # doc
        PROVE  DocumentStep(l) /\ exch' = exch
    <2> DEFINE e == view[a].priv[l]
    <2>1. /\ exch' = exch /\ e.status # "None"
          /\ MayUpdate(doc, l, e.status, e.cum, e.upd, l)
          /\ doc' = UpdateStatus(doc, l, e.status, e.cum, e.upd, l)
      BY <1>5 DEF SyncReservation, outside
    <2>2. /\ e.status # "Rejected"
          /\ e.status \in Terminal =>
               exch[l].status = e.status /\ exch[l].cum = e.cum
      BY <2>1, <1>b DEF AgreementInv, Truthful
    <2> HIDE DEF e
    <2>3. /\ \A m \in Links \ {l} : doc'[m] = doc[m]
          /\ doc'[l].status = e.status /\ doc'[l].cum = e.cum
      BY <2>1, <1>a, UpdateStatusEffect
    <2>4. /\ IsReserved(doc, l)
          /\ IsTerminal(doc, l) =>
               doc[l].status = e.status /\ doc[l].cum = e.cum
      BY <2>1 DEF MayUpdate
    <2> QED
      BY <2>1, <2>2, <2>3, <2>4 DEF DocumentStep, IsReserved, IsTerminal
  <1>6. ASSUME NEW b \in Bridges, Execute(b), doc' # doc
        PROVE  \E l \in Links : DocumentStep(l) /\ exch' = exch
    BY <1>6, <1>1, <1>2, <1>3, <1>4
       DEF Execute, Begin, AssertOpen, CheckUnresolved, Preflight, Send,
           SendFails, Respond, Trip, StoreFails, JournalUnresolved, JournalAccepted,
           JournalFails
  <1>7. ASSUME NEW a \in Actors, Reconcile(a), doc' # doc
        PROVE  \E l \in Links : DocumentStep(l) /\ exch' = exch
    BY <1>7, <1>5
       DEF Reconcile, StartReconcile, ReadPrivate, LoadJournal, ScanOrphans,
           Report, ReconcileTrip, ReconcileFails
  <1>8. ASSUME NEW l \in Links, Exchange(l) PROVE doc' = doc
    BY <1>8 DEF Exchange, ExchangeDecides, ExchangeAdvances, Ingest
  <1>9. ASSUME Tick \/ Clear \/ Crash \/ UNCHANGED vars PROVE doc' = doc
    BY <1>9 DEF Tick, Clear, Crash, vars
  <1> QED
    BY <1>6, <1>7, <1>8, <1>9 DEF Next

----------------------------------------------------------------------------
\* What every step may do to a link at the exchange.
ExchangeStep(l) ==
  \/ exch'[l] = exch[l]
  \/ /\ exch[l].status = "None" /\ sends'[l] > 0
     /\ exch'[l].status = "InFlight" /\ exch'[l].cum = 0
  \/ /\ exch[l].status = "InFlight"
     /\ exch'[l].status \in {"New", "Refused"} /\ exch'[l].cum = 0
  \/ /\ exch[l].status \in {"New", "PartiallyFilled"}
     /\ exch'[l].status \in PrivateStatuses \ {"Rejected"}

\* Only a send, and then the exchange itself, moves a link along.
LEMMA ExchangeSteps ==
  ASSUME TypeOK, [Next]_vars, NEW l \in Links
  PROVE  ExchangeStep(l) /\ sends'[l] >= sends[l]
  <1>a. /\ exch \in [Links -> ExchangeOrder] /\ sends \in [Links -> Nat]
        /\ \A b \in Bridges : pc[b] \in ExecutePCs => req[b] \in Links
    BY DEF TypeOK
  <1>1. ASSUME NEW b \in Bridges, Send(b)
        PROVE  ExchangeStep(l) /\ sends'[l] >= sends[l]
    <2>1. /\ req[b] \in Links
          /\ sends' = [sends EXCEPT ![req[b]] = sends[req[b]] + 1]
          /\ \/ exch' = exch
             \/ /\ exch[req[b]].status = "None"
                /\ exch' = [exch EXCEPT ![req[b]] = Stamped("InFlight", 0)]
      BY <1>1, <1>a DEF Send, ExecutePCs
    <2> QED
      BY <2>1, <1>a DEF ExchangeStep, Stamped
  <1>2. ASSUME NEW m \in Links, ExchangeDecides(m)
        PROVE  ExchangeStep(l) /\ sends'[l] >= sends[l]
    BY <1>2, <1>a DEF ExchangeDecides, ExchangeStep, Stamped
  <1>3. ASSUME NEW m \in Links, ExchangeAdvances(m)
        PROVE  ExchangeStep(l) /\ sends'[l] >= sends[l]
    <2>1. {"Filled", "Cancelled", "PartiallyFilled",
           "PartiallyFilledCanceled"} \subseteq PrivateStatuses \ {"Rejected"}
      BY DEF PrivateStatuses, PrivateOpen, PrivateTerminal
    <2>2. PICK s \in {"Filled", "Cancelled", "PartiallyFilled",
                      "PartiallyFilledCanceled"},
               c \in {0, 1, FullQty, exch[m].cum} :
             exch' = [exch EXCEPT ![m] = Stamped(s, c)]
      BY <1>3 DEF ExchangeAdvances
    <2>3. sends' = sends /\ exch[m].status \in {"New", "PartiallyFilled"}
      BY <1>3 DEF ExchangeAdvances
    <2> QED
      BY <2>1, <2>2, <2>3, <1>a DEF ExchangeStep, Stamped
  <1>4. ASSUME exch' = exch, sends' = sends
        PROVE  ExchangeStep(l) /\ sends'[l] >= sends[l]
    BY <1>4, <1>a DEF ExchangeStep
  <1>5. ASSUME NEW b \in Bridges, Execute(b), ~Send(b)
        PROVE  exch' = exch /\ sends' = sends
    BY <1>5 DEF Execute, Begin, AssertOpen, CheckUnresolved, Preflight,
                ReserveIntent, MarkSubmitted, SendFails, Respond, BindAccepted,
                MarkRejected, Trip, StoreFails, JournalUnresolved,
                JournalAccepted, JournalFails, world, outside
  <1>6. ASSUME NEW a \in Actors, Reconcile(a)
        PROVE  exch' = exch /\ sends' = sends
    BY <1>6 DEF Reconcile, StartReconcile, ReadPrivate, LoadJournal,
                SyncReservation, ScanOrphans, Report, ReconcileTrip,
                ReconcileFails, world, outside
  <1>7. ASSUME (\E m \in Links : Ingest(m)) \/ Tick \/ Clear \/ Crash
               \/ UNCHANGED vars
        PROVE  exch' = exch /\ sends' = sends
    BY <1>7 DEF Ingest, Tick, Clear, Crash, vars, world, outside
  <1> QED
    BY <1>1, <1>2, <1>3, <1>4, <1>5, <1>6, <1>7 DEF Next, Exchange

\* Evidence comes from the exchange: what a step stores or reads is what was
\* stored before, or the exchange's order of that moment.
LEMMA EvidenceSteps ==
  ASSUME TypeOK, [Next]_vars
  PROVE  /\ \A l \in Links :
              \/ priv'[l] = priv[l]
              \/ priv'[l] = exch[l] /\ exch[l].status \in PrivateStatuses
         /\ \A a \in Actors : \/ view'[a].priv = view[a].priv
                              \/ view'[a].priv = priv
                              \/ view'[a].priv = EmptyView.priv
  <1> DEFINE P == \A l \in Links :
                     \/ priv'[l] = priv[l]
                     \/ priv'[l] = exch[l] /\ exch[l].status \in PrivateStatuses
             V == \A a \in Actors : \/ view'[a].priv = view[a].priv
                                    \/ view'[a].priv = priv
                                    \/ view'[a].priv = EmptyView.priv
  <1>a. priv \in [Links -> Evidence] /\ view \in [Actors -> View]
    BY DEF TypeOK
  <1>1. ASSUME NEW a \in Actors, NEW v, view' = [view EXCEPT ![a] = v],
               \/ v.priv = view[a].priv \/ v.priv = priv
               \/ v.priv = EmptyView.priv
        PROVE  V
    BY <1>1, <1>a
  <1>2. ASSUME NEW a \in Actors, StartReconcile(a) PROVE P /\ V
    <2>1. [view[a] EXCEPT !.status = [l \in Links |-> doc[l].status],
                          !.todo = {l \in Links : IsReserved(doc, l)}].priv
             = view[a].priv
      BY <1>a DEF View
    <2> QED
      BY <1>1, <1>2, <2>1 DEF StartReconcile
  <1>3. ASSUME NEW a \in Actors, ReadPrivate(a) PROVE P /\ V
    <2>1. [view[a] EXCEPT !.priv = priv].priv = priv
      BY <1>a DEF View
    <2> QED
      BY <1>1, <1>3, <2>1 DEF ReadPrivate
  <1>4. ASSUME NEW a \in Actors, LoadJournal(a) PROVE P /\ V
    <2>1. \A e : [view[a] EXCEPT !.journal = journal, !.errors = e].priv
             = view[a].priv
      BY <1>a DEF View
    <2>2. PICK e : view' = [view EXCEPT ![a] =
                      [view[a] EXCEPT !.journal = journal, !.errors = e]]
      BY <1>4 DEF LoadJournal
    <2> QED
      BY <1>1, <1>4, <2>1, <2>2 DEF LoadJournal
  <1>5. ASSUME NEW a \in Actors, NEW l \in Links, NEW worked \in 0..2,
               SyncReservation(a, l, worked)
        PROVE  P /\ V
    <2>1. \A t, e : [view[a] EXCEPT !.todo = t, !.errors = e].priv
             = view[a].priv
      BY <1>a DEF View
    <2>2. view[a].errors \in BOOLEAN
      BY <1>a DEF View
    <2>3. PICK e \in BOOLEAN :
             view' = [view EXCEPT ![a] =
                        [view[a] EXCEPT !.todo = view[a].todo \ {l},
                                        !.errors = e]]
      BY <1>5, <2>2 DEF SyncReservation
    <2>4. priv' = priv
      BY <1>5 DEF SyncReservation
    <2> QED
      BY <1>1, <2>1, <2>3, <2>4
  <1>6. ASSUME NEW a \in Actors, ScanOrphans(a) PROVE P /\ V
    <2>1. \A e : [view[a] EXCEPT !.errors = e].priv = view[a].priv
      BY <1>a DEF View
    <2>2. PICK e : view' = [view EXCEPT ![a] = [view[a] EXCEPT !.errors = e]]
      BY <1>6 DEF ScanOrphans
    <2> QED
      BY <1>1, <1>6, <2>1, <2>2 DEF ScanOrphans
  <1>7. ASSUME NEW a \in Actors, Report(a) \/ ReconcileFails(a)
        PROVE  P /\ V
    BY <1>1, <1>7 DEF Report, ReconcileFails
  <1>8. ASSUME NEW a \in Actors, ReconcileTrip(a) PROVE P /\ V
    BY <1>8 DEF ReconcileTrip
  <1>9. ASSUME NEW b \in Bridges, Execute(b) PROVE P /\ V
    BY <1>9 DEF Execute, Begin, AssertOpen, CheckUnresolved, Preflight,
                ReserveIntent, MarkSubmitted, Send, SendFails, Respond,
                BindAccepted, MarkRejected, Trip, StoreFails, JournalUnresolved,
                JournalAccepted, JournalFails
  <1>10. ASSUME NEW l \in Links, Ingest(l) PROVE P /\ V
    <2>1. /\ priv' = [priv EXCEPT ![l] = Merge(priv[l], exch[l])]
          /\ exch[l].status \in PrivateStatuses /\ view' = view
      BY <1>10 DEF Ingest
    <2> QED
      BY <2>1, <1>a DEF Merge
  <1>11. ASSUME \/ \E l \in Links : ExchangeDecides(l) \/ ExchangeAdvances(l)
                \/ Tick \/ Clear \/ UNCHANGED vars
         PROVE  P /\ V
    BY <1>11 DEF ExchangeDecides, ExchangeAdvances, Tick, Clear, vars
  <1>12. ASSUME Crash PROVE P /\ V
    BY <1>12 DEF Crash
  <1> HIDE DEF P, V
  <1>13. P /\ V
    BY <1>2, <1>3, <1>4, <1>5, <1>6, <1>7, <1>8, <1>9, <1>10, <1>11, <1>12
       DEF Next, Reconcile, Exchange
  <1> QED
    BY <1>13 DEF P, V

\* A bridge comes to record a rejection only by the exchange's refusal.
LEMMA RejectSteps ==
  ASSUME TypeOK, [Next]_vars, NEW b \in Bridges, pc'[b] = "reject"
  PROVE  /\ req'[b] = req[b] /\ req[b] \in Links
         /\ pc[b] = "reject" \/ exch[req[b]].status = "Refused"
  <1>a. /\ pc \in [Actors -> {"idle"} \cup ExecutePCs \cup ReconcilePCs]
        /\ req \in [Bridges -> Links \cup {NoId}] /\ b \in Actors
        /\ \A c \in Bridges : pc[c] \in ExecutePCs => req[c] \in Links
        /\ {"reject", "wait"} \subseteq ExecutePCs
    BY DEF TypeOK, Actors, ExecutePCs
  <1>1. ASSUME NEW c \in Bridges, Respond(c)
        PROVE  /\ req' = req
               /\ \/ pc[b] = "reject"
                  \/ pc[b] = "wait" /\ exch[req[b]].status = "Refused"
    BY <1>1, <1>a DEF Respond, Goto
  <1>2. ASSUME NEW c \in Bridges, Execute(c), ~Respond(c)
        PROVE  req'[b] = req[b] /\ pc[b] = "reject"
    BY <1>2, <1>a
       DEF Execute, Begin, AssertOpen, CheckUnresolved, Preflight,
           ReserveIntent, MarkSubmitted, Send, SendFails, BindAccepted,
           MarkRejected, Trip, StoreFails, JournalUnresolved,
           JournalAccepted, JournalFails, Return, Goto
  <1>3. ASSUME NEW a \in Actors, Reconcile(a)
        PROVE  req'[b] = req[b] /\ pc[b] = "reject"
    BY <1>3, <1>a
       DEF Reconcile, StartReconcile, ReadPrivate, LoadJournal,
           SyncReservation, ScanOrphans, Report, ReconcileTrip,
           ReconcileFails, Goto
  <1>4. ASSUME \/ \E l \in Links : Exchange(l)
               \/ Tick \/ Clear \/ UNCHANGED vars
        PROVE  req'[b] = req[b] /\ pc[b] = "reject"
    BY <1>4 DEF Exchange, ExchangeDecides, ExchangeAdvances, Ingest, Tick,
                Clear, vars
  <1>5. ~Crash
    BY <1>a DEF Crash
  <1> QED
    BY <1>1, <1>2, <1>3, <1>4, <1>5, <1>a DEF Next

----------------------------------------------------------------------------
\* The exchange never takes back what evidence or a closed reservation says,
\* and no thread writes anything else than what the exchange said.
LEMMA AgreementStep ==
  TypeOK /\ SubmissionInv /\ AgreementInv /\ [Next]_vars => AgreementInv'
  <1> SUFFICES ASSUME TypeOK, SubmissionInv, AgreementInv, [Next]_vars
               PROVE  AgreementInv'
    OBVIOUS
  <1>a. /\ doc \in [Links -> Reservation] /\ exch \in [Links -> ExchangeOrder]
        /\ sends \in [Links -> Nat] /\ priv \in [Links -> Evidence]
        /\ view \in [Actors -> View] /\ Bridges \subseteq Actors
        /\ pc \in [Actors -> {"idle"} \cup ExecutePCs \cup ReconcilePCs]
        /\ req \in [Bridges -> Links \cup {NoId}]
        /\ \A b \in Bridges : pc[b] \in ExecutePCs => req[b] \in Links
    BY DEF TypeOK, Actors
  <1>b. /\ Terminal = PrivateTerminal
        /\ PrivateStatuses \cap {"None", "InFlight", "Refused"} = {}
        /\ {"New", "PartiallyFilled"} \cap Terminal = {}
        /\ PrivateTerminal \subseteq PrivateStatuses
        /\ {"New", "PartiallyFilled"} \subseteq PrivateStatuses
        /\ {"Reserved", "Submitted", "None"} \cap Terminal = {}
    BY DEF Terminal, PrivateStatuses, PrivateTerminal, PrivateOpen
  <1>1. ClosedAgreesWithExchange' \/ exch' # exch
    <2>1. CASE doc' = doc
      BY <2>1 DEF AgreementInv, ClosedAgreesWithExchange, IsTerminal
    <2>2. CASE \E l \in Links : DocumentStep(l) /\ exch' = exch
      <3> PICK l \in Links : DocumentStep(l) /\ exch' = exch
        BY <2>2
      <3> SUFFICES ASSUME NEW m \in Links, IsTerminal(doc', m)
                   PROVE  /\ doc'[m].cum = exch[m].cum
                          /\ exch[m].status =
                               IF doc'[m].status = "Rejected" THEN "Refused"
                               ELSE doc'[m].status
        BY DEF ClosedAgreesWithExchange, IsTerminal
      <3>1. CASE m # l \/ (doc'[l].status = doc[l].status
                          /\ doc'[l].cum = doc[l].cum)
        BY <3>1 DEF AgreementInv, ClosedAgreesWithExchange, DocumentStep,
                    IsTerminal
      <3>2. CASE m = l /\ ~(doc'[l].status = doc[l].status
                           /\ doc'[l].cum = doc[l].cum)
        BY <3>2, <1>b DEF DocumentStep, IsTerminal
      <3> QED
        BY <3>1, <3>2
    <2> QED
      BY <2>1, <2>2, DocumentSteps
  <1>2. ASSUME NEW e \in Evidence, NEW l \in Links, Truthful(e, l)
        PROVE  e.status # "None" =>
                 /\ exch'[l].status \in PrivateStatuses
                 /\ e.status # "Rejected"
                 /\ e.status \in PrivateTerminal =>
                      exch'[l].status = e.status /\ exch'[l].cum = e.cum
    <2>1. ExchangeStep(l)
      BY <1>2, ExchangeSteps
    <2> QED
      BY <1>2, <2>1, <1>b DEF Truthful, ExchangeStep
  <1>3. ASSUME NEW l \in Links PROVE Truthful(priv[l], l)'
    <2>1. CASE priv'[l] = priv[l]
      BY <2>1, <1>2, <1>a DEF AgreementInv, Truthful
    <2>2. CASE priv'[l] = exch[l] /\ exch[l].status \in PrivateStatuses
      <3>1. exch[l].status # "Rejected" /\ ExchangeStep(l)
        BY ExchangeSteps DEF AgreementInv
      <3> QED
        BY <2>2, <3>1, <1>b DEF Truthful, ExchangeStep
    <2> QED
      BY <2>1, <2>2, EvidenceSteps
  <1>4. ASSUME NEW a \in Actors, NEW l \in Links
        PROVE  Truthful(view[a].priv[l], l)'
    <2>1. /\ Truthful(view[a].priv[l], l) /\ Truthful(priv[l], l)
          /\ view[a].priv[l] \in Evidence /\ priv[l] \in Evidence
      BY <1>a DEF AgreementInv, View
    <2>2. CASE view'[a].priv = view[a].priv
      BY <2>1, <2>2, <1>2 DEF Truthful
    <2>3. CASE view'[a].priv = priv
      BY <2>1, <2>3, <1>2 DEF Truthful
    <2>4. CASE view'[a].priv = EmptyView.priv
      BY <2>4 DEF Truthful, EmptyView, NoEvidence
    <2> QED
      BY <2>2, <2>3, <2>4, EvidenceSteps
  <1>5. ASSUME NEW b \in Bridges, pc'[b] = "reject"
        PROVE  exch'[req'[b]].status = "Refused"
    <2>1. /\ req'[b] = req[b] /\ req[b] \in Links
          /\ pc[b] = "reject" \/ exch[req[b]].status = "Refused"
      BY <1>5, RejectSteps
    <2>2. exch[req[b]].status = "Refused"
      BY <2>1 DEF AgreementInv
    <2>3. ExchangeStep(req[b])
      BY <2>1, ExchangeSteps
    <2> QED
      BY <2>1, <2>2, <2>3 DEF ExchangeStep
  <1>6. ASSUME NEW l \in Links
        PROVE  /\ exch'[l].status # "Rejected"
               /\ exch'[l].status \in {"None", "InFlight", "Refused"} =>
                    exch'[l].cum = 0
               /\ exch'[l].status # "None" => sends'[l] > 0
    <2>1. ExchangeStep(l) /\ sends'[l] >= sends[l]
      BY ExchangeSteps
    <2>2. /\ exch[l].status # "Rejected"
          /\ exch[l].status \in {"None", "InFlight", "Refused"} =>
               exch[l].cum = 0
          /\ exch[l].status # "None" => sends[l] > 0
          /\ sends[l] \in Nat
      BY <1>a DEF AgreementInv
    <2>3. exch'[l].status # "Rejected"
      BY <2>1, <2>2 DEF ExchangeStep
    <2>4. exch'[l].status \in {"None", "InFlight", "Refused"} =>
            exch'[l].cum = 0
      BY <2>1, <2>2, <1>b DEF ExchangeStep
    <2>5. exch'[l].status # "None" => sends'[l] > 0
      <3>1. CASE sends'[l] > 0
        BY <3>1
      <3>2. CASE exch[l].status # "None"
        <4>1. sends[l] > 0 /\ sends'[l] \in Nat
          BY <3>2, <2>2, TypeCorrectStep DEF TypeOK
        <4> QED
          BY <4>1, <2>1, <2>2
      <3>3. CASE exch'[l] = exch[l] /\ exch[l].status = "None"
        BY <3>3
      <3> QED
        BY <2>1, <3>1, <3>2, <3>3 DEF ExchangeStep
    <2> QED
      BY <2>3, <2>4, <2>5
  <1>7. ClosedAgreesWithExchange'
    <2>1. CASE exch' = exch
      BY <2>1, <1>1
    <2>2. CASE exch' # exch
      <3>1. doc' = doc
        BY <2>2, DocumentSteps
      <3> SUFFICES ASSUME NEW l \in Links, IsTerminal(doc, l)
                   PROVE  exch'[l] = exch[l]
        BY <3>1 DEF AgreementInv, ClosedAgreesWithExchange, IsTerminal
      <3>2. exch[l].status = IF doc[l].status = "Rejected" THEN "Refused"
                             ELSE doc[l].status
        BY DEF AgreementInv, ClosedAgreesWithExchange
      <3>3. exch[l].status \notin {"None", "InFlight", "New",
                                   "PartiallyFilled"}
        BY <3>2, <1>b DEF IsTerminal, Terminal
      <3> QED
        BY <3>3, ExchangeSteps DEF ExchangeStep
    <2> QED
      BY <2>1, <2>2
  <1> QED
    BY <1>3, <1>4, <1>5, <1>6, <1>7 DEF AgreementInv

----------------------------------------------------------------------------
\* A retry is reserved only after every earlier attempt is closed with nothing
\* executed, and a closed reservation never changes.
LEMMA AttemptsStep ==
  TypeOK /\ AgreementInv /\ AttemptsInv /\ [Next]_vars => AttemptsInv'
  <1> SUFFICES ASSUME TypeOK, AgreementInv, AttemptsInv, [Next]_vars,
                      NEW l \in Links, NEW m \in Links,
                      Root(l) = Root(m), Attempt(m) < Attempt(l),
                      IsReserved(doc', l), IsReserved(doc', m)
               PROVE  doc'[m].status \in ZeroFillRetryable /\ doc'[m].cum = 0
    BY DEF AttemptsInv, IsReserved
  <1>a. ZeroFillRetryable \subseteq Terminal
    BY DEF ZeroFillRetryable, Terminal
  <1>b. \A k \in Links : Attempt(k) \in Nat
    BY MaxAttemptIsPositive DEF Links, Attempts, Attempt
  <1>1. CASE doc' = doc
    BY <1>1 DEF AttemptsInv, IsReserved
  <1>2. ASSUME NEW k \in Links, DocumentStep(k)
        PROVE  doc'[m].status \in ZeroFillRetryable /\ doc'[m].cum = 0
    <2>1. CASE doc[k].status = "None" /\ doc'[k].status = "Reserved"
               /\ MayReserve(doc, k)
      <3> DEFINE previous == {p \in Links : IsReserved(doc, p)
                                            /\ Root(p) = Root(k)}
      <3>1. ~IsReserved(doc, k) /\ \A n \in Links \ {k} : doc'[n] = doc[n]
        BY <2>1, <1>2 DEF DocumentStep, IsReserved
      <3>2. \/ Attempt(k) = 1 /\ previous = {}
            \/ \E latest \in previous :
                 /\ \A p \in previous : Attempt(p) <= Attempt(latest)
                 /\ Attempt(k) = Attempt(latest) + 1
                 /\ doc[latest].status \in ZeroFillRetryable
                 /\ doc[latest].cum = 0
        BY <2>1 DEF MayReserve
      <3>3. CASE k = l
        <4>1. m # k /\ IsReserved(doc, m) /\ m \in previous
              /\ doc'[m] = doc[m]
          BY <3>1, <3>3, <1>b DEF IsReserved
        <4>2. PICK latest \in previous :
                 /\ \A p \in previous : Attempt(p) <= Attempt(latest)
                 /\ Attempt(k) = Attempt(latest) + 1
                 /\ doc[latest].status \in ZeroFillRetryable
                 /\ doc[latest].cum = 0
          BY <3>2, <4>1
        <4>3. CASE Attempt(m) = Attempt(latest)
          <5>1. m = latest
            BY <4>1, <4>3 DEF Links, Attempt, Root
          <5> QED
            BY <5>1, <4>1, <4>2
        <4>4. CASE Attempt(m) < Attempt(latest)
          <5>1. /\ Root(latest) = Root(m) /\ IsReserved(doc, latest)
                /\ latest \in Links
            BY <4>1, <4>2
          <5> QED
            BY <5>1, <4>1, <4>4 DEF AttemptsInv
        <4> QED
          BY <4>1, <4>2, <4>3, <4>4, <1>b
      <3>4. CASE k = m
        <4>1. l # k /\ IsReserved(doc, l) /\ l \in previous
          BY <3>1, <3>4, <1>b DEF IsReserved
        <4>2. PICK latest \in previous :
                 /\ \A p \in previous : Attempt(p) <= Attempt(latest)
                 /\ Attempt(k) = Attempt(latest) + 1
          BY <3>2, <4>1
        <4>3. Attempt(l) <= Attempt(latest) /\ Attempt(latest) \in Nat
          BY <4>1, <4>2, <1>b
        <4> QED
          BY <4>2, <4>3, <3>4, <1>b
      <3>5. CASE k # l /\ k # m
        BY <3>1, <3>5 DEF AttemptsInv, IsReserved
      <3> QED
        BY <3>3, <3>4, <3>5
    <2>2. CASE IsReserved(doc, k) /\ ~IsTerminal(doc, k)
      <3>1. IsReserved(doc, l) /\ IsReserved(doc, m)
        BY <2>2, <1>2 DEF DocumentStep, IsReserved
      <3>2. doc[m].status \in ZeroFillRetryable /\ doc[m].cum = 0
        BY <3>1 DEF AttemptsInv
      <3>3. m # k
        BY <3>2, <2>2, <1>a DEF IsTerminal
      <3> QED
        BY <3>2, <3>3, <1>2 DEF DocumentStep
    <2>3. CASE doc'[k].status = doc[k].status /\ doc'[k].cum = doc[k].cum
      <3>1. \A n \in Links : /\ doc'[n].status = doc[n].status
                              /\ doc'[n].cum = doc[n].cum
        BY <2>3, <1>2 DEF DocumentStep
      <3> QED
        BY <3>1 DEF AttemptsInv, IsReserved
    <2> QED
      BY <1>2, <2>1, <2>2, <2>3 DEF DocumentStep
  <1> QED
    BY <1>1, <1>2, DocumentSteps

----------------------------------------------------------------------------
LEMMA InvariantsInitially ==
  Init => SubmissionInv /\ LatchInv /\ AgreementInv /\ AttemptsInv
  <1> SUFFICES ASSUME Init
               PROVE  SubmissionInv /\ LatchInv /\ AgreementInv /\ AttemptsInv
    OBVIOUS
  <1>a. /\ \A b \in Bridges : pc[b] = "idle" /\ late[b] = 0
        /\ \A l \in Links : /\ doc[l].status = "None" /\ sends[l] = 0
                             /\ priv[l] = NoEvidence /\ exch[l] = NoEvidence
        /\ \A a \in Actors : view[a] = EmptyView
    BY DEF Init, EmptyDocument, NoReservation, Actors
  <1>1. SubmissionInv /\ LatchInv
    BY <1>a DEF SubmissionInv, LatchInv, Owns, ReservedBeforeSent,
                SubmittedAtMostOnce
  <1>2. AgreementInv
    BY <1>a DEF AgreementInv, Truthful, NoEvidence, EmptyView,
                ClosedAgreesWithExchange, IsTerminal, Terminal
  <1>3. AttemptsInv
    BY <1>a DEF AttemptsInv, IsReserved
  <1> QED
    BY <1>1, <1>2, <1>3

\* The four invariants hold in every state of every behaviour.
THEOREM Invariants ==
  Spec => [](SubmissionInv /\ LatchInv /\ AgreementInv /\ AttemptsInv)
  <1> DEFINE Inv == SubmissionInv /\ LatchInv /\ AgreementInv /\ AttemptsInv
  <1>1. TypeOK /\ TypeOK' /\ Inv /\ [Next]_vars => Inv'
    BY SubmissionStep, LatchStep, AgreementStep, AttemptsStep
  <1>2. Init => Inv
    BY InvariantsInitially
  <1> HIDE DEF Inv
  <1>3. Spec => []Inv
    BY <1>1, <1>2, TypeCorrect, PTL DEF Spec
  <1> QED
    BY <1>3 DEF Inv

\* Every request on the wire was durably reserved and marked first.
THEOREM ReservedBeforeSentHolds == Spec => []ReservedBeforeSent
  <1>1. SubmissionInv => ReservedBeforeSent
    BY DEF SubmissionInv
  <1> QED
    BY <1>1, Invariants, PTL

\* No intent's request leaves the process twice, whoever races or restarts.
THEOREM SubmittedAtMostOnceHolds == Spec => []SubmittedAtMostOnce
  <1>1. SubmissionInv => SubmittedAtMostOnce
    BY DEF SubmissionInv
  <1> QED
    BY <1>1, Invariants, PTL

\* A latched switch leaves each bridge at most the send it was already at.
THEOREM LatchStopsSubmissionHolds == Spec => []LatchStopsSubmission
  <1>1. LatchInv => LatchStopsSubmission
    BY DEF LatchInv, LatchStopsSubmission
  <1> QED
    BY <1>1, Invariants, PTL

\* A closed reservation records what became of the order at the exchange.
THEOREM ClosedAgreesWithExchangeHolds == Spec => []ClosedAgreesWithExchange
  <1>1. AgreementInv => ClosedAgreesWithExchange
    BY DEF AgreementInv
  <1> QED
    BY <1>1, Invariants, PTL

\* An order that may still execute is unresolved in the registry.
THEOREM LiveOrderIsUnresolvedHolds == Spec => []LiveOrderIsUnresolved
  <1>1. SubmissionInv /\ AgreementInv => LiveOrderIsUnresolved
    <2> SUFFICES ASSUME SubmissionInv, AgreementInv, NEW l \in Links,
                        exch[l].status \in {"InFlight", "New",
                                            "PartiallyFilled"}
                 PROVE  l \in Unresolved(doc)
      BY DEF LiveOrderIsUnresolved
    <2>1. IsReserved(doc, l)
      BY DEF SubmissionInv, AgreementInv, ReservedBeforeSent, IsReserved
    <2>2. ~IsTerminal(doc, l)
      BY DEF AgreementInv, ClosedAgreesWithExchange, IsTerminal, Terminal
    <2> QED
      BY <2>1, <2>2 DEF Unresolved
  <1> QED
    BY <1>1, Invariants, PTL

\* Of all attempts at one intent at most one may ever execute.
THEOREM OneAttemptExecutesHolds == Spec => []OneAttemptExecutes
  <1>1. TypeOK /\ SubmissionInv /\ AgreementInv /\ AttemptsInv
          => OneAttemptExecutes
    <2> SUFFICES ASSUME TypeOK, SubmissionInv, AgreementInv, AttemptsInv
                 PROVE  OneAttemptExecutes
      OBVIOUS
    <2> DEFINE MayExecute(k) == \/ exch[k].status \in {"InFlight", "New"}
                                \/ exch[k].cum > 0
    <2>1. ASSUME NEW k \in Links, MayExecute(k) PROVE IsReserved(doc, k)
      <3>1. exch[k].status # "None"
        BY <2>1 DEF AgreementInv
      <3> QED
        BY <3>1 DEF AgreementInv, SubmissionInv, ReservedBeforeSent,
                    IsReserved
    <2>2. ASSUME NEW k \in Links, NEW j \in Links, Root(k) = Root(j),
                 MayExecute(k), MayExecute(j)
          PROVE  ~(Attempt(j) < Attempt(k))
      <3> SUFFICES ASSUME Attempt(j) < Attempt(k) PROVE FALSE
        OBVIOUS
      <3>1. doc[j].status \in ZeroFillRetryable /\ doc[j].cum = 0
        BY <2>1, <2>2 DEF AttemptsInv
      <3>2. /\ exch[j].cum = 0
            /\ exch[j].status \in {"Cancelled", "Refused", "Deactivated"}
        BY <3>1 DEF AgreementInv, ClosedAgreesWithExchange, IsTerminal,
                    Terminal, ZeroFillRetryable
      <3> QED
        BY <2>2, <3>2
    <2>3. ASSUME NEW k \in Links, NEW j \in Links, Root(k) = Root(j),
                 ~(Attempt(j) < Attempt(k)), ~(Attempt(k) < Attempt(j))
          PROVE  k = j
      BY <2>3, MaxAttemptIsPositive DEF Links, Attempts, Attempt, Root
    <2> QED
      BY <2>2, <2>3 DEF OneAttemptExecutes
  <1> QED
    BY <1>1, Invariants, TypeCorrect, PTL
=============================================================================
