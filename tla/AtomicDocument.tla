--------------------------- MODULE AtomicDocument ---------------------------
(***************************************************************************)
(* What a caller of a document's update loop relies on: the call reads the *)
(* document, changes it and writes it back in one instant, or raises and   *)
(* leaves it alone.  ExecutionGateway takes this for granted of every call *)
(* on the registry, the kill switch and the private order store.           *)
(***************************************************************************)
CONSTANT Calls

VARIABLES value,     \* the calls whose change is in the document
          outcome,   \* "running", "returned" or "raised", for each call
          basis      \* the document each returned call's change was made from

Init ==
    /\ value = {}
    /\ outcome = [c \in Calls |-> "running"]
    /\ basis = [c \in Calls |-> {}]

Apply(c) ==
    /\ outcome[c] = "running"
    /\ outcome' = [outcome EXCEPT ![c] = "returned"]
    /\ basis' = [basis EXCEPT ![c] = value]
    /\ value' = value \cup {c}

Raise(c) ==
    /\ outcome[c] = "running"
    /\ outcome' = [outcome EXCEPT ![c] = "raised"]
    /\ UNCHANGED <<value, basis>>

Next == \E c \in Calls : Apply(c) \/ Raise(c)

Spec == Init /\ [][Next]_<<value, outcome, basis>>
=============================================================================
