-------------------------- MODULE PrivateOrderState --------------------------
(***************************************************************************)
(* One order's private state as exchange_connector/bybit_order_state.py    *)
(* keeps it: the merge of an authenticated order event into what is        *)
(* stored.  An event that the merge refuses raises, which rejects the      *)
(* whole message and leaves the document as it is.                         *)
(***************************************************************************)
EXTENDS Integers

PrivateOpen == {"Untriggered", "New", "PartiallyFilled"}
PrivateTerminal == {"Filled", "Cancelled", "Rejected", "Deactivated",
                    "PartiallyFilledCanceled"}
PrivateStatuses == PrivateOpen \cup {"Triggered"} \cup PrivateTerminal

\* _TRANSITIONS of the private store.
PrivateTransitions(status) ==
    CASE status = "Untriggered" -> {"Untriggered", "Triggered", "New",
                                    "Cancelled", "Rejected", "Deactivated"}
      [] status = "Triggered"   -> {"Triggered", "New", "PartiallyFilled",
                                    "Filled", "Cancelled", "Rejected",
                                    "Deactivated"}
      [] status = "New"         -> {"New", "PartiallyFilled", "Filled",
                                    "Cancelled", "Rejected",
                                    "PartiallyFilledCanceled"}
      [] status = "PartiallyFilled" -> {"PartiallyFilled", "Filled",
                                        "Cancelled",
                                        "PartiallyFilledCanceled"}
      [] OTHER -> {status}

NoEvidence == [status |-> "None", cum |-> 0, upd |-> 0]

\* _merge, for events whose immutable fields agree: what is stored after the
\* event, or the stored state itself when the event is refused or a duplicate.
Accepts(old, new) ==
    \/ old.status = "None"
    \/ /\ old.status \notin PrivateTerminal
       /\ new.cum >= old.cum
       /\ new.upd > old.upd
       /\ new.status \in PrivateTransitions(old.status)

Merge(old, new) == IF Accepts(old, new) THEN new ELSE old
=============================================================================
