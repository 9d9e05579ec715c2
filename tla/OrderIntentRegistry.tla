------------------------- MODULE OrderIntentRegistry -------------------------
(***************************************************************************)
(* The durable reservation document of                                     *)
(* exchange_connector/bybit_order_identity.py as operators: what each      *)
(* mutation of OrderIntentRegistry demands of the document and what it     *)
(* turns the document into.  A mutation that raises leaves the document    *)
(* as it is; the callers (module ExecutionGateway) decide what follows.    *)
(*                                                                         *)
(* An intent is identified by its root (every field but the attempt        *)
(* number) and its attempt; orderLinkId is a hash of both, so the pair     *)
(* itself stands for the link.  The document maps every link to a record;  *)
(* status "None" means that there is no reservation.                       *)
(***************************************************************************)
EXTENDS Integers, FiniteSets

CONSTANTS Roots,        \* order intents without their attempt number
          MaxAttempt,   \* bound: the largest attempt number considered
          NoId          \* the empty order_id

ASSUME MaxAttemptIsPositive == MaxAttempt \in Nat \ {0}
ASSUME NoIdIsNotALink == NoId \notin Roots \X (1..MaxAttempt)

Attempts == 1..MaxAttempt
Links == Roots \X Attempts
Root(l) == l[1]
Attempt(l) == l[2]

\* The exchange gives every order it creates an orderId of its own; the order
\* created for a link is the only one with that link, so the link names it.
OrderIds == Links

Terminal == {"Filled", "Cancelled", "Rejected", "Deactivated",
             "PartiallyFilledCanceled"}
ZeroFillRetryable == {"Cancelled", "Rejected", "Deactivated"}
Statuses == {"Reserved", "Submitted", "Untriggered", "Triggered", "New",
             "PartiallyFilled"} \cup Terminal

\* _TRANSITIONS: the statuses a non-terminal reservation may move to.
Transitions(status) ==
    CASE status = "Reserved"    -> Statuses
      [] status = "Submitted"   -> Statuses \ {"Reserved"}
      [] status = "Untriggered" -> {"Untriggered", "Triggered", "New",
                                    "Cancelled", "Rejected", "Deactivated"}
      [] status = "Triggered"   -> {"Triggered", "New", "PartiallyFilled",
                                    "Filled", "Cancelled", "Rejected",
                                    "Deactivated"}
      [] status = "New"         -> {"New", "PartiallyFilled", "Filled",
                                    "Cancelled", "Rejected",
                                    "PartiallyFilledCanceled"}
      [] status = "PartiallyFilled" -> {"PartiallyFilled", "Filled",
                                        "Cancelled",
                                        "PartiallyFilledCanceled"}
      [] OTHER -> {status}

Reservation == [status : Statuses \cup {"None"},
                cum : Nat,                      \* cum_exec_qty
                upd : Nat,                      \* updated_at_ms
                oid : OrderIds \cup {NoId}]     \* order_id

NoReservation == [status |-> "None", cum |-> 0, upd |-> 0, oid |-> NoId]
EmptyDocument == [l \in Links |-> NoReservation]

IsReserved(doc, l) == doc[l].status # "None"
IsTerminal(doc, l) == doc[l].status \in Terminal

\* snapshot()["unresolved"]: the reservations that are not terminal.
Unresolved(doc) ==
    {l \in Links : IsReserved(doc, l) /\ ~IsTerminal(doc, l)}

----------------------------------------------------------------------------
\* Mutants of MayReserve: the duplicate flag of the result is ignored; a retry
\* only has to be the next attempt.
MayReserveDuplicates(doc, l) == Attempt(l) = 1

MayReserveAfterAnyAttempt(doc, l) ==
    /\ ~IsReserved(doc, l)
    /\ Attempt(l) > 1 => IsReserved(doc, <<Root(l), Attempt(l) - 1>>)

\* reserve: a known fingerprint is a duplicate; a first attempt needs a root
\* never seen; a retry needs the latest attempt of its root to be its
\* immediate predecessor, closed by the exchange with nothing executed.
MayReserve(doc, l) ==
    LET previous == {p \in Links : IsReserved(doc, p) /\ Root(p) = Root(l)}
    IN  /\ ~IsReserved(doc, l)
        /\ \/ Attempt(l) = 1 /\ previous = {}
           \/ \E latest \in previous :
                 /\ \A p \in previous : Attempt(p) <= Attempt(latest)
                 /\ Attempt(l) = Attempt(latest) + 1
                 /\ doc[latest].status \in ZeroFillRetryable
                 /\ doc[latest].cum = 0

Reserve(doc, l, now) ==
    [doc EXCEPT ![l] = [status |-> "Reserved", cum |-> 0, upd |-> now,
                        oid |-> NoId]]

\* The orderId uniqueness scan that bind_submission and update_status share.
BoundElsewhere(doc, l, id) ==
    \E other \in Links \ {l} : IsReserved(doc, other) /\ doc[other].oid = id

\* bind_submission: an accepted response gives the reservation its orderId.
\* The status moves only out of "Reserved"; whatever private evidence wrote
\* in the meantime stays.
MayBind(doc, l, id, now) ==
    /\ IsReserved(doc, l)
    /\ ~BoundElsewhere(doc, l, id)
    /\ doc[l].oid \in {NoId, id}
    /\ now >= doc[l].upd

Bind(doc, l, id, now) ==
    [doc EXCEPT ![l] = [status |-> IF @.status = "Reserved" THEN "Submitted"
                                   ELSE @.status,
                        cum |-> @.cum, upd |-> now, oid |-> id]]

\* update_status: time and quantity never go back, a terminal reservation
\* never changes, and a named orderId has to be free or already this one's.
\* id = NoId is the call without an order_id.
MayUpdate(doc, l, status, cum, now, id) ==
    /\ IsReserved(doc, l)
    /\ now >= doc[l].upd
    /\ cum >= doc[l].cum
    /\ IsTerminal(doc, l) => status = doc[l].status /\ cum = doc[l].cum
    /\ ~IsTerminal(doc, l) => status \in Transitions(doc[l].status)
    /\ id # NoId => doc[l].oid \in {NoId, id} /\ ~BoundElsewhere(doc, l, id)

\* Mutant of UpdateStatus: the executed quantity is not stored.
UpdateStatusKeepsQuantity(doc, l, status, cum, now, id) ==
    [doc EXCEPT ![l] = [status |-> status, cum |-> @.cum, upd |-> now,
                        oid |-> IF id = NoId THEN @.oid ELSE id]]

UpdateStatus(doc, l, status, cum, now, id) ==
    [doc EXCEPT ![l] = [status |-> status, cum |-> cum, upd |-> now,
                        oid |-> IF id = NoId THEN @.oid ELSE id]]
=============================================================================
